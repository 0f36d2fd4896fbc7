---------------------------- MODULE FilesProofs ----------------------------
(***************************************************************************)
(* Editing through a scratch copy, documents, settings and automatic       *)
(* commits: what holds of each for any number of users, sessions,          *)
(* documents and files, and any bounds.  And of the terminal board, from   *)
(* the theorem of ViewsProofs.                                             *)
(*                                                                         *)
(* A behaviour of MCSpec in which part = p is one of the component that p  *)
(* names, and keeps its part: the invariant of each component is proved    *)
(* under its part.  The variables go by the names they have in the         *)
(* component.                                                              *)
(***************************************************************************)
EXTENDS MCFiles, WellFoundedInduction, TLAPS

\* Those of the components ViewsProofs is about besides Tui, which are no part of
\* MCFiles.
CONSTANTS Data, NoHash, Tick, Window, MaxClock, Requests, Config, NoThread, NoScan,
          Checkouts, Spare, Viewer, Below, Days, MaxEdits, MaxTime, MaxScans, MaxCreates,
          Pages, Filtered, LastId, NoPage

VARIABLES clock, lastHad, writes, mutex, cache, req

file   == x1
op     == x2
known  == x3
loose  == x4
faults == x5

config   == x1
status   == x2
lock     == x3
initLock == x4
session  == x5
want     == x6

work    == x1
index   == x2
head    == x3
auto    == x4
pc      == x5
context == x6
before  == x7

USE DEF file, op, known, loose, faults, config, status, lock, initLock, session, want,
        work, index, head, auto, pc, context, before

LEMMA StillParts ==
  ASSUME UNCHANGED mcVars
  PROVE  /\ part' = part /\ x1' = x1 /\ x2' = x2 /\ x3' = x3 /\ x4' = x4 /\ x5' = x5
         /\ x6' = x6 /\ x7' = x7 /\ x8' = x8 /\ x9' = x9 /\ x10' = x10 /\ x11' = x11
BY DEF mcVars, From5, From6

-----------------------------------------------------------------------------
(* ScratchEdit: what a user has saved is not lost, and only the content its *)
(* editor began with is written over.                                       *)

LEMMA EditTypes ==
  ASSUME E!EditAssumption, E!EditTypeOK, E!EditNext PROVE E!EditTypeOK'
<1> USE DEF E!EditAssumption, E!EditTypeOK, E!At, E!Goto, E!Fault, E!users, E!Pcs, E!Content, E!By
<1>1. CASE E!OtherWrite BY <1>1 DEF E!OtherWrite
<1>2. ASSUME NEW u \in Users, E!Start(u) PROVE E!EditTypeOK'
  BY <1>2 DEF E!Start
<1>3. ASSUME NEW u \in Users, E!Save(u) PROVE E!EditTypeOK'
  BY <1>3 DEF E!Save
<1>4. ASSUME NEW u \in Users, E!DeleteCopy(u) PROVE E!EditTypeOK'
  BY <1>4 DEF E!DeleteCopy
<1>5. ASSUME NEW u \in Users, E!CloseEditor(u) PROVE E!EditTypeOK'
  BY <1>5 DEF E!CloseEditor
<1>6. ASSUME NEW u \in Users, E!EditorReturns(u) PROVE E!EditTypeOK'
  BY <1>6 DEF E!EditorReturns
<1>7. ASSUME NEW u \in Users, E!EditorFails(u) PROVE E!EditTypeOK'
  BY <1>7 DEF E!EditorFails
<1>8. ASSUME NEW u \in Users, E!ReadCopy(u) PROVE E!EditTypeOK'
  BY <1>8 DEF E!ReadCopy
<1>9. ASSUME NEW u \in Users, E!TakeLock(u) PROVE E!EditTypeOK'
  <2>1. UNCHANGED <<x1, E!users, x8, x10>> BY <1>9 DEF E!TakeLock
  <2>2. x2' \in Users \cup {NoUser} BY <1>9 DEF E!TakeLock
  <2>3. x3' \in [Users -> [pc : E!Pcs, original : E!Content, edited : E!Content]]
    BY <1>9 DEF E!TakeLock
  <2>4. x11' \in 0..MaxFaults BY <1>9 DEF E!TakeLock
  <2> QED BY <2>1, <2>2, <2>3, <2>4
<1>10. ASSUME NEW u \in Users, E!Compare(u) PROVE E!EditTypeOK'
  BY <1>10 DEF E!Compare
<1>11. ASSUME NEW u \in Users, E!OpenFile(u) PROVE E!EditTypeOK'
  BY <1>11 DEF E!OpenFile
<1>12. ASSUME NEW u \in Users, E!WriteBytes(u) PROVE E!EditTypeOK'
  BY <1>12 DEF E!WriteBytes
<1>13. ASSUME NEW u \in Users, E!Release(u) PROVE E!EditTypeOK'
  BY <1>13 DEF E!Release
<1>14. ASSUME NEW u \in Users, E!RemoveScratch(u) PROVE E!EditTypeOK'
  BY <1>14 DEF E!RemoveScratch
<1>15. ASSUME NEW u \in Users, E!Die(u) PROVE E!EditTypeOK'
  BY <1>15 DEF E!Die
<1> QED BY <1>1, <1>2, <1>3, <1>4, <1>5, <1>6, <1>7, <1>8, <1>9, <1>10, <1>11, <1>12, <1>13,
           <1>14, <1>15 DEF E!EditNext

\* Steps of a user and of the editor.
LEMMA EditorKeeps ==
  ASSUME E!EditAssumption, E!EditInv, E!EditTypeOK', NEW u \in Users,
         \/ E!Start(u)
         \/ E!Save(u)
         \/ E!DeleteCopy(u)
         \/ E!CloseEditor(u)
         \/ E!EditorReturns(u)
         \/ E!EditorFails(u)
  PROVE  E!EditInv'
<1> USE DEF E!EditAssumption, E!EditInv, E!SessionInv, E!At, E!Goto, E!users,
            E!Known, E!Safe, E!Applying, E!Inside
<1>1. CASE E!Start(u)
  <2>1. file' \in E!Known' BY <1>1 DEF E!Start
  <2>2. E!SessionInv(u)' BY <1>1 DEF E!Start, E!EditTypeOK, E!MayReturn, E!HasDirectory, E!By
  <2>3. ASSUME NEW v \in Users \ {u} PROVE E!SessionInv(v)' BY <1>1 DEF E!Start, E!EditTypeOK
  <2> QED BY <2>1, <2>2, <2>3 DEF E!EditInv
<1>2. CASE E!Save(u)
  <2>1. file' \in E!Known' BY <1>2 DEF E!Save
  <2>2. E!SessionInv(u)' BY <1>2 DEF E!Save, E!EditTypeOK, E!MayReturn, E!HasDirectory, E!By
  <2>3. ASSUME NEW v \in Users \ {u} PROVE E!SessionInv(v)' BY <1>2 DEF E!Save, E!EditTypeOK
  <2> QED BY <2>1, <2>2, <2>3 DEF E!EditInv
<1>3. CASE E!DeleteCopy(u)
  <2>1. file' \in E!Known' BY <1>3 DEF E!DeleteCopy
  <2>2. E!SessionInv(u)' BY <1>3 DEF E!DeleteCopy, E!EditTypeOK, E!MayReturn, E!HasDirectory, E!By
  <2>3. ASSUME NEW v \in Users \ {u} PROVE E!SessionInv(v)' BY <1>3 DEF E!DeleteCopy, E!EditTypeOK
  <2> QED BY <2>1, <2>2, <2>3 DEF E!EditInv
<1>4. CASE E!CloseEditor(u)
  <2>1. file' \in E!Known' BY <1>4 DEF E!CloseEditor
  <2>2. E!SessionInv(u)' BY <1>4 DEF E!CloseEditor, E!EditTypeOK, E!MayReturn, E!HasDirectory, E!By
  <2>3. ASSUME NEW v \in Users \ {u} PROVE E!SessionInv(v)' BY <1>4 DEF E!CloseEditor, E!EditTypeOK
  <2> QED BY <2>1, <2>2, <2>3 DEF E!EditInv
<1>5. CASE E!EditorReturns(u)
  <2>1. file' \in E!Known' BY <1>5 DEF E!EditorReturns
  <2>2. E!SessionInv(u)' BY <1>5 DEF E!EditorReturns, E!EditTypeOK, E!MayReturn, E!HasDirectory, E!By
  <2>3. ASSUME NEW v \in Users \ {u} PROVE E!SessionInv(v)' BY <1>5 DEF E!EditorReturns, E!EditTypeOK
  <2> QED BY <2>1, <2>2, <2>3 DEF E!EditInv
<1>6. CASE E!EditorFails(u)
  <2>1. file' \in E!Known' BY <1>6 DEF E!EditorFails
  <2>2. E!SessionInv(u)' BY <1>6 DEF E!EditorFails, E!EditTypeOK, E!MayReturn, E!HasDirectory, E!By
  <2>3. ASSUME NEW v \in Users \ {u} PROVE E!SessionInv(v)' BY <1>6 DEF E!EditorFails, E!EditTypeOK
  <2> QED BY <2>1, <2>2, <2>3 DEF E!EditInv
<1> QED BY <1>1, <1>2, <1>3, <1>4, <1>5, <1>6

\* Steps of edit_via_scratch_copy.
LEMMA ApplyKeeps ==
  ASSUME E!EditAssumption, E!EditInv, E!EditTypeOK', NEW u \in Users,
         \/ E!ReadCopy(u)
         \/ E!TakeLock(u)
         \/ E!Compare(u)
         \/ E!OpenFile(u)
         \/ E!WriteBytes(u)
         \/ E!Release(u)
         \/ E!RemoveScratch(u)
         \/ E!Die(u)
  PROVE  E!EditInv'
<1> USE DEF E!EditAssumption, E!EditInv, E!SessionInv, E!At, E!Goto, E!users,
            E!Known, E!Safe, E!Applying, E!Inside
<1>1. CASE E!ReadCopy(u)
  <2>1. file' \in E!Known' BY <1>1 DEF E!ReadCopy
  <2>2. E!SessionInv(u)' BY <1>1 DEF E!ReadCopy, E!EditTypeOK, E!MayReturn, E!HasDirectory, E!By
  <2>3. ASSUME NEW v \in Users \ {u} PROVE E!SessionInv(v)' BY <1>1 DEF E!ReadCopy, E!EditTypeOK
  <2> QED BY <2>1, <2>2, <2>3 DEF E!EditInv
<1>2. CASE E!TakeLock(u)
  <2>1. file' \in E!Known' BY <1>2 DEF E!TakeLock
  <2>2. E!SessionInv(u)' BY <1>2 DEF E!TakeLock, E!EditTypeOK, E!MayReturn, E!HasDirectory, E!By
  <2>3. ASSUME NEW v \in Users \ {u} PROVE E!SessionInv(v)'
    <3>1. x3'[v] = x3[v] /\ UNCHANGED <<x1, E!users, x8>> /\ (x2 = v => x2' = v)
      BY <1>2 DEF E!TakeLock, E!EditTypeOK
    <3>2. E!SessionInv(v) OBVIOUS
    <3> QED BY <3>1, <3>2
  <2> QED BY <2>1, <2>2, <2>3 DEF E!EditInv
<1>3. CASE E!Compare(u)
  <2>1. file' \in E!Known' BY <1>3 DEF E!Compare
  <2>2. E!SessionInv(u)' BY <1>3 DEF E!Compare, E!EditTypeOK, E!MayReturn, E!HasDirectory, E!By
  <2>3. ASSUME NEW v \in Users \ {u} PROVE E!SessionInv(v)' BY <1>3 DEF E!Compare, E!EditTypeOK
  <2> QED BY <2>1, <2>2, <2>3 DEF E!EditInv
<1>4. CASE E!OpenFile(u)
  <2>1. file' \in E!Known' BY <1>4 DEF E!OpenFile
  <2>2. E!SessionInv(u)' BY <1>4 DEF E!OpenFile, E!EditTypeOK, E!MayReturn, E!HasDirectory, E!By
  <2>3. ASSUME NEW v \in Users \ {u} PROVE E!SessionInv(v)' BY <1>4 DEF E!OpenFile, E!EditTypeOK
  <2> QED BY <2>1, <2>2, <2>3 DEF E!EditInv
<1>5. CASE E!WriteBytes(u)
  <2>1. file' \in E!Known' BY <1>5 DEF E!WriteBytes
  <2>2. E!SessionInv(u)' BY <1>5 DEF E!WriteBytes, E!EditTypeOK, E!MayReturn, E!HasDirectory, E!By
  <2>3. ASSUME NEW v \in Users \ {u} PROVE E!SessionInv(v)' BY <1>5 DEF E!WriteBytes, E!EditTypeOK
  <2> QED BY <2>1, <2>2, <2>3 DEF E!EditInv
<1>6. CASE E!Release(u)
  <2>1. file' \in E!Known' BY <1>6 DEF E!Release
  <2>2. E!SessionInv(u)' BY <1>6 DEF E!Release, E!EditTypeOK, E!MayReturn, E!HasDirectory, E!By
  <2>3. ASSUME NEW v \in Users \ {u} PROVE E!SessionInv(v)' BY <1>6 DEF E!Release, E!EditTypeOK
  <2> QED BY <2>1, <2>2, <2>3 DEF E!EditInv
<1>7. CASE E!RemoveScratch(u)
  <2>1. file' \in E!Known' BY <1>7 DEF E!RemoveScratch
  <2>2. E!SessionInv(u)' BY <1>7 DEF E!RemoveScratch, E!EditTypeOK, E!MayReturn, E!HasDirectory, E!By
  <2>3. ASSUME NEW v \in Users \ {u} PROVE E!SessionInv(v)' BY <1>7 DEF E!RemoveScratch, E!EditTypeOK
  <2> QED BY <2>1, <2>2, <2>3 DEF E!EditInv
<1>8. CASE E!Die(u)
  <2>1. file' \in E!Known' BY <1>8 DEF E!Die
  <2>2. E!SessionInv(u)' BY <1>8 DEF E!Die, E!EditTypeOK, E!MayReturn, E!HasDirectory, E!By
  <2>3. ASSUME NEW v \in Users \ {u} PROVE E!SessionInv(v)' BY <1>8 DEF E!Die, E!EditTypeOK
  <2> QED BY <2>1, <2>2, <2>3 DEF E!EditInv
<1> QED BY <1>1, <1>2, <1>3, <1>4, <1>5, <1>6, <1>7, <1>8

\* Every behaviour of the part satisfies the invariant.
LEMMA EditInvariance ==
  ASSUME E!EditAssumption PROVE MCSpec => [](part = "edit" => E!EditInv)
<1>1. ASSUME MCInit, part = "edit" PROVE E!EditInv
  <2>1. E!EditInit BY <1>1 DEF MCInit
  <2> QED BY <2>1 DEF E!EditInit, E!EditInv, E!EditTypeOK, E!SessionInv, E!Known, E!Safe, E!At,
                      E!By, E!Pcs, E!Content, E!Applying, E!Inside, E!EditAssumption
<1>2. ASSUME part = "edit" => E!EditInv, [MCNext]_mcVars PROVE (part = "edit" => E!EditInv)'
  <2> SUFFICES ASSUME part' = "edit" PROVE E!EditInv'
    OBVIOUS
  <2>1. part = "edit" /\ E!EditInv BY <1>2 DEF MCNext, mcVars
  <2>2. CASE UNCHANGED mcVars
    BY <2>1, <2>2, StillParts DEF E!EditInv, E!EditTypeOK, E!SessionInv, E!Known, E!Safe, E!At
  <2>3. CASE E!EditNext
    <3>1. E!EditTypeOK' BY <2>1, <2>3, EditTypes DEF E!EditInv
    <3>2. CASE E!OtherWrite
      BY <2>1, <3>1, <3>2 DEF E!OtherWrite, E!EditInv, E!SessionInv, E!Known, E!Safe, E!At, E!users,
                              E!By, E!Inside, E!EditAssumption, E!EditTypeOK
    <3> QED BY <2>1, <2>3, <3>1, <3>2, EditorKeeps, ApplyKeeps DEF E!EditNext
  <2> QED BY <1>2, <2>1, <2>2, <2>3 DEF MCNext
<1> QED BY <1>1, <1>2, PTL DEF MCSpec

\* What a user has saved and did not take back is in the scratch copy or has been in
\* the task file, whatever fails or dies, and a session writes over nothing but the
\* content its user began with (edit_via_scratch_copy, apply_edit).
THEOREM EditsKeepTheirBytes ==
  ASSUME E!EditAssumption PROVE MCSpec => EditsKeepBytes
<1>1. ASSUME part = "edit" => E!EditInv PROVE part = "edit" => E!EditTypeOK /\ E!BytesKept
  BY <1>1 DEF E!EditInv, E!BytesKept, E!SessionInv
<1>2. ASSUME part = "edit" => E!EditInv, MCNext PROVE part = "edit" => E!KeepsOthersBytes
  BY <1>2 DEF E!EditInv, E!KeepsOthersBytes, E!SessionInv, E!At
<1>3. MCSpec => [](part = "edit" => E!EditInv) BY EditInvariance
<1> QED BY <1>1, <1>2, <1>3, PTL DEF MCSpec, EditsKeepBytes

-----------------------------------------------------------------------------
(* Documents: no document is lost, and an id is of one document. *)

\* A new number is above all that are reserved.
LEMMA NextIdIsAbove ==
  ASSUME D!DocumentsAssumption, D!DocumentsTypeOK, NEW ps \in SUBSET DOMAIN file
  PROVE  /\ D!NextId(ps) \in Nat \ {0}
         /\ \A id \in D!ReservedIds(ps) : id < D!NextId(ps)
         /\ \A p \in ps : p.num < D!NextId(ps)
<1> DEFINE ns == {0} \cup D!ReservedIds(ps) \cup {p.num : p \in ps}
           over == {MaxId - n : n \in ns}
<1>1. ns \subseteq 0..MaxId /\ MaxId \in Nat
  BY DEF D!DocumentsAssumption, D!DocumentsTypeOK, D!ReservedIds, D!Path, D!Content
<1>2. \A n \in 0..MaxId : n \in Nat /\ MaxId - n \in Nat
  BY <1>1
<1>3. over \subseteq Nat /\ over # {}
  BY <1>1, <1>2
<1>4. PICK t \in over : \A u \in over : ~(<<u, t>> \in OpToRel(<, Nat))
  BY <1>3, WFMin, NatLessThanWellFounded
<1>5. \A u \in over : ~(u < t)
  BY <1>3, <1>4 DEF OpToRel
<1>6. PICK m \in ns : t = MaxId - m
  BY <1>4
<1>7. \A n \in ns : n <= m
  <2> SUFFICES ASSUME NEW n \in ns PROVE n <= m OBVIOUS
  <2>1. ~(MaxId - n < MaxId - m) BY <1>5, <1>6
  <2>2. n \in Nat /\ m \in Nat BY <1>1, <1>2
  <2> QED BY <1>1, <2>1, <2>2
<1> DEFINE max == CHOOSE n \in ns : \A m1 \in ns : m1 <= n
<1>8. max \in ns /\ \A n \in ns : n <= max
  BY <1>7
<1>9. D!NextId(ps) = 1 + max
  BY DEF D!NextId
<1>10. max \in Nat /\ \A n \in ns : n \in Nat /\ n < 1 + max
  <2> HIDE DEF ns, max
  <2> QED BY <1>1, <1>2, <1>8
<1> HIDE DEF max, over
<1>11. /\ \A id \in D!ReservedIds(ps) : id \in ns
       /\ \A p \in ps : p.num \in ns
  OBVIOUS
<1> HIDE DEF ns
<1> QED BY <1>9, <1>10, <1>11

\* What a write to one path leaves.
LEMMA PutIs ==
  ASSUME NEW p, NEW c, D!Put(p, c)
  PROVE  /\ DOMAIN file' = DOMAIN file \cup {p} /\ file'[p] = c
         /\ \A q \in DOMAIN file \ {p} : file'[q] = file[q]
BY DEF D!Put

\* A write that does not hide an id, nor repeats one of a document that is not loose.
LEMMA PutKeepsIds ==
  ASSUME D!IdsInv, D!IdsNameOneDocument, NEW p, NEW c, D!Put(p, c), loose \subseteq loose',
         c.form = "opaque" => p.num = c.id \/ c.born \in loose',
         \A q \in DOMAIN file \ {p} :
           /\ q.dir \in Folders <=> p.dir \in Folders
           /\ file[q].id = c.id /\ c.id # 0 /\ file[q].born # c.born
           => {file[q].born, c.born} \cap loose' # {},
         D!DocumentsAssumption
  PROVE  D!IdsInv' /\ D!IdsNameOneDocument'
<1>0. /\ DOMAIN file' = DOMAIN file \cup {p} /\ file'[p] = c
      /\ \A q \in DOMAIN file \ {p} : file'[q] = file[q]
  BY PutIs
<1>1. D!IdsInv' BY <1>0 DEF D!IdsInv
<1>2. ASSUME NEW q \in DOMAIN file', NEW r \in DOMAIN file', q.dir \in Folders <=> r.dir \in Folders,
             {q, r} \subseteq D!Docs' \/ {q, r} \subseteq D!Records',
             file'[q].id = file'[r].id, file'[q].id # 0, file'[q].born # file'[r].born
      PROVE  {file'[q].born, file'[r].born} \cap loose' # {}
  <2>1. CASE q # p /\ r # p
    <3>1. {q, r} \subseteq D!Docs \/ {q, r} \subseteq D!Records
      BY <1>2, <2>1, <1>0 DEF D!Docs, D!Records
    <3>2. {file[q].born, file[r].born} \cap loose # {}
      BY <1>2, <2>1, <3>1, <1>0 DEF D!IdsNameOneDocument
    <3> QED BY <2>1, <1>2, <3>2, <1>0
  <2>2. CASE q = p /\ r # p BY <1>2, <2>2, <1>0
  <2>3. CASE q # p /\ r = p BY <1>2, <2>3, <1>0
  <2> QED BY <1>2, <2>1, <2>2, <2>3
<1>3. \A q, r \in D!Docs' : q.dir \in Folders /\ r.dir \in Folders /\ q \in DOMAIN file' /\ r \in DOMAIN file'
  BY DEF D!Docs
<1>4. \A q, r \in D!Records' : /\ q.dir \notin Folders /\ r.dir \notin Folders
                               /\ q \in DOMAIN file' /\ r \in DOMAIN file'
  BY DEF D!Records, D!DocumentsAssumption
<1>5. D!IdsNameOneDocument'
  BY <1>2, <1>3, <1>4 DEF D!IdsNameOneDocument
<1> QED BY <1>1, <1>5

\* A write that puts no older revision in the place of one, and is not of another
\* document.
LEMMA PutKeepsDocuments ==
  ASSUME D!DocumentsTypeOK, D!KeptInv, NEW p, NEW c \in D!Content, D!Put(p, c),
         p \in DOMAIN file => file[p].born = c.born /\ file[p].rev <= c.rev,
         known' \in {known, [known EXCEPT ![c.born] = c.rev]}
  PROVE  D!KeptInv' /\ D!KeepsDocuments
<1> USE DEF D!DocumentsTypeOK, D!KeptInv, D!Content
<1>0. /\ DOMAIN file' = DOMAIN file \cup {p} /\ file'[p] = c
      /\ \A q \in DOMAIN file \ {p} : file'[q] = file[q]
  BY PutIs
<1>1. \A b \in Births : D!Homes(b) \subseteq D!Homes(b)'
  BY <1>0 DEF D!Homes
<1>2. ASSUME NEW b \in Births, b # c.born
      PROVE  D!Homes(b)' = D!Homes(b) /\ known'[b] = known[b] /\ \A q \in D!Homes(b) : file'[q] = file[q]
  BY <1>2, <1>0 DEF D!Homes
<1>3. p \in D!Homes(c.born)' /\ file'[p].rev = c.rev
  BY <1>0 DEF D!Homes
<1>4. known[c.born] \in Nat /\ c.rev \in Nat /\ \A q \in DOMAIN file : file[q].rev \in Nat
  BY DEF D!DocumentsAssumption
<1>5. \E q \in D!Homes(c.born)' : file'[q].rev >= known'[c.born]
  <2>1. CASE known' = [known EXCEPT ![c.born] = c.rev]
    BY <2>1, <1>3, <1>4
  <2>2. CASE known' = known /\ D!Homes(c.born) = {}
    BY <2>2, <1>3, <1>4
  <2>3. CASE known' = known /\ D!Homes(c.born) # {}
    <3>1. PICK q \in D!Homes(c.born) : file[q].rev >= known[c.born] BY <2>3
    <3>2. CASE q = p BY <2>3, <3>1, <3>2, <1>3, <1>4 DEF D!Homes
    <3>3. CASE q # p BY <2>3, <3>1, <3>3, <1>1, <1>0 DEF D!Homes
    <3> QED BY <3>2, <3>3
  <2> QED BY <2>1, <2>2, <2>3
<1>6. D!KeptInv' BY <1>2, <1>3, <1>5
<1>7. D!KeepsDocuments
  BY <1>1, <1>6 DEF D!KeepsDocuments
<1> QED BY <1>6, <1>7

LEMMA PutKeepsTypes ==
  ASSUME D!DocumentsTypeOK, NEW p \in D!Path, NEW c \in D!Content, D!Put(p, c), loose' \subseteq Births,
         known' \in {known, [known EXCEPT ![c.born] = c.rev]}, faults' \in 0..MoreFaults
  PROVE  D!DocumentsTypeOK'
<1>1. /\ DOMAIN file' = DOMAIN file \cup {p} /\ file'[p] = c
      /\ \A q \in DOMAIN file \ {p} : file'[q] = file[q]
  BY PutIs
<1>2. c.born \in Births /\ c.rev \in 0..MaxRev
  BY DEF D!Content
<1> QED BY <1>1, <1>2 DEF D!DocumentsTypeOK

\* A new document, at a free path, under an id that only loose documents share.
LEMMA NewKeeps ==
  ASSUME D!DocumentsAssumption, D!DocsInv, NEW b \in Births, NEW p \in D!Path, NEW id \in 1..MaxId,
         D!Idle, D!Unborn(b), p \notin DOMAIN file, D!Put(p, D!New(b, id)),
         UNCHANGED <<op, known, faults>>, loose' \in {loose, loose \cup {b}},
         \A q \in DOMAIN file :
           /\ q.dir \in Folders <=> p.dir \in Folders
           /\ file[q].id = id /\ file[q].born # b
           => {file[q].born, b} \cap loose' # {}
  PROVE  D!DocsInv' /\ D!KeepsDocuments
<1> DEFINE c == D!New(b, id)
<1>1. /\ c \in D!Content /\ c.born = b /\ c.id = id /\ c.form = "parses"
      /\ c.rev = 0 /\ D!Put(p, c)
  BY DEF D!New, D!Content, D!DocumentsAssumption
<1> HIDE DEF c
<1> USE DEF D!DocsInv
<1>2. D!DocumentsTypeOK' BY <1>1, PutKeepsTypes DEF D!DocumentsTypeOK
<1>3. D!MoveInv' BY DEF D!MoveInv, D!Idle
<1>4. D!KeptInv' /\ D!KeepsDocuments BY <1>1, PutKeepsDocuments
<1>5. D!IdsInv' /\ D!IdsNameOneDocument'
  <2>1. \A q \in DOMAIN file \ {p} :
           /\ q.dir \in Folders <=> p.dir \in Folders
           /\ file[q].id = c.id /\ c.id # 0 /\ file[q].born # c.born
           => {file[q].born, c.born} \cap loose' # {}
    BY <1>1
  <2>2. loose \subseteq loose' /\ c.form # "opaque" BY <1>1
  <2> QED BY <1>1, <2>1, <2>2, PutKeepsIds
<1> QED BY <1>2, <1>3, <1>4, <1>5

\* An id that is not of ps, but for the names.
LEMMA FreshId ==
  ASSUME D!DocsInv, D!DocumentsAssumption, NEW ps \in SUBSET DOMAIN file, NEW id \in Nat \ {0}, NEW q \in ps,
         id \notin D!ReservedIds(ps), file[q].id = id
  PROVE  q.num = id \/ file[q].born \in loose
BY DEF D!DocsInv, D!IdsInv, D!ReservedIds

LEMMA NewDocsKeep ==
  ASSUME D!DocumentsAssumption, D!DocsInv, NEW b \in Births, NEW slug \in Slugs,
         \/ \E dir \in Folders : D!CreateFromTitle(b, dir, slug) \/ D!CreateAt(b, dir, slug)
         \/ D!CreateDecision(b, slug)
  PROVE  D!DocsInv' /\ D!KeepsDocuments
<1>1. D!Docs \in SUBSET DOMAIN file /\ D!Records \in SUBSET DOMAIN file
  BY DEF D!Docs, D!Records
<1>2. D!DocumentsTypeOK /\ MaxId \in Nat BY DEF D!DocsInv, D!DocumentsAssumption
\* The number after all that are reserved, in the place it was drawn for.
<1>3. ASSUME NEW ps \in {D!Docs, D!Records}, NEW q \in ps, NEW id, id = D!NextId(ps), file[q].id = id
      PROVE  file[q].born \in loose
  <2>1. id \in Nat \ {0} /\ id \notin D!ReservedIds(ps) /\ q.num < id
    BY <1>1, <1>2, <1>3, NextIdIsAbove
  <2>2. q.num \in Nat BY <1>1, <1>2 DEF D!DocumentsTypeOK, D!Path
  <2> QED BY <1>1, <1>3, <2>1, <2>2, FreshId
<1>4. ASSUME NEW dir \in Folders, D!CreateFromTitle(b, dir, slug)
      PROVE  D!DocsInv' /\ D!KeepsDocuments
  <2>1. PICK id : id = D!NextId(D!Docs) OBVIOUS
  <2>2. PICK p : p = [dir |-> dir, num |-> id, slug |-> slug] OBVIOUS
  <2>3. id \in 1..MaxId BY <1>1, <1>2, <1>4, <2>1, NextIdIsAbove DEF D!CreateFromTitle
  <2>4. p \in D!Path /\ p.dir \in Folders BY <2>2, <2>3 DEF D!Path
  <2>5. /\ D!Idle /\ D!Unborn(b) /\ p \notin DOMAIN file /\ D!Put(p, D!New(b, id))
        /\ UNCHANGED <<op, known, faults>> /\ loose' = loose
    BY <1>4, <2>1, <2>2 DEF D!CreateFromTitle
  <2>6. \A q \in DOMAIN file : q.dir \in Folders => q \in D!Docs BY DEF D!Docs
  <2> QED BY <1>2, <1>3, <2>1, <2>3, <2>4, <2>5, <2>6, NewKeeps
<1>5. ASSUME NEW dir \in Folders, D!CreateAt(b, dir, slug)
      PROVE  D!DocsInv' /\ D!KeepsDocuments
  <2>1. PICK p : p = [dir |-> dir, num |-> 0, slug |-> slug] OBVIOUS
  <2>2. p \in D!Path /\ p.dir \in Folders BY <1>2, <2>1 DEF D!Path
  <2>3. PICK id \in {D!NextId(D!Docs)} \cup ((1..MaxId) \ D!ReservedIds(D!Docs)) :
          /\ id <= MaxId /\ D!Put(p, D!New(b, id))
          /\ loose' = IF \E q \in D!Docs : q.num = id THEN loose \cup {b} ELSE loose
    BY <1>5, <2>1 DEF D!CreateAt
  <2>4. id \in 1..MaxId BY <1>1, <1>2, <2>3, NextIdIsAbove
  <2>5. D!Idle /\ D!Unborn(b) /\ p \notin DOMAIN file /\ UNCHANGED <<op, known, faults>>
    BY <1>5, <2>1 DEF D!CreateAt
  <2>6. \A q \in D!Docs : file[q].id = id => q.num = id \/ file[q].born \in loose
    BY <1>1, <1>2, <1>3, <2>3, <2>4, FreshId
  <2>7. \A q \in DOMAIN file : q.dir \in Folders /\ file[q].id = id => {file[q].born, b} \cap loose' # {}
    BY <2>3, <2>6 DEF D!Docs
  <2> QED BY <2>2, <2>3, <2>4, <2>5, <2>7, NewKeeps
<1>6. ASSUME D!CreateDecision(b, slug) PROVE D!DocsInv' /\ D!KeepsDocuments
  <2>1. PICK id : id = D!NextId(D!Records) OBVIOUS
  <2>2. PICK p : p = [dir |-> Decisions, num |-> id, slug |-> slug] OBVIOUS
  <2>3. id \in 1..MaxId BY <1>1, <1>2, <1>6, <2>1, NextIdIsAbove DEF D!CreateDecision
  <2>4. p \in D!Path /\ p.dir \notin Folders BY <2>2, <2>3 DEF D!Path, D!DocumentsAssumption
  <2>5. /\ D!Idle /\ D!Unborn(b) /\ p \notin DOMAIN file /\ D!Put(p, D!New(b, id))
        /\ UNCHANGED <<op, known, faults>> /\ loose' = loose
    BY <1>6, <2>1, <2>2 DEF D!CreateDecision
  <2>6. \A q \in DOMAIN file : q.dir \notin Folders => q \in D!Records
    BY <1>2 DEF D!Records, D!DocumentsTypeOK, D!Path
  <2> QED BY <1>2, <1>3, <2>1, <2>3, <2>4, <2>5, <2>6, NewKeeps
<1> QED BY <1>4, <1>5, <1>6

\* Two documents in one place under one id: one is loose.
LEMMA SharedId ==
  ASSUME D!DocumentsAssumption, D!DocumentsTypeOK, D!IdsNameOneDocument,
         NEW p \in DOMAIN file, NEW q \in DOMAIN file, q.dir \in Folders <=> p.dir \in Folders,
         file[q].id = file[p].id, file[q].id # 0, file[q].born # file[p].born
  PROVE  {file[q].born, file[p].born} \cap loose # {}
<1>1. CASE p.dir \in Folders
  <2>1. p \in D!Docs /\ q \in D!Docs BY <1>1 DEF D!Docs
  <2> QED BY <2>1 DEF D!IdsNameOneDocument
<1>2. CASE p.dir \notin Folders
  <2>1. p \in D!Records /\ q \in D!Records BY <1>2 DEF D!Records, D!DocumentsTypeOK, D!Path
  <2> QED BY <2>1 DEF D!IdsNameOneDocument
<1> QED BY <1>1, <1>2

\* What update_document writes to the old place.
LEMMA UpdatedKeeps ==
  ASSUME D!DocumentsAssumption, D!DocsInv, NEW p \in D!Docs, NEW new \in D!Content, D!Viewed(p),
         D!Updated(p, new), D!Put(p, new), loose' = D!Loosened(p, new), faults' = faults,
         known' \in {known, [known EXCEPT ![new.born] = new.rev]}
  PROVE  /\ D!DocumentsTypeOK' /\ D!KeptInv' /\ D!KeepsDocuments /\ D!IdsInv' /\ D!IdsNameOneDocument'
         /\ DOMAIN file' = DOMAIN file /\ file'[p] = new /\ new.form = "parses"
<1> USE DEF D!DocsInv
<1>1. p \in DOMAIN file /\ p \in D!Path /\ file[p] \in D!Content
  BY DEF D!Docs, D!DocumentsTypeOK
<1>2. new.born = file[p].born /\ new.form = "parses" /\ file[p].rev \in Nat /\ new.rev = file[p].rev + 1
  BY <1>1 DEF D!Updated, D!Viewed, D!Content
<1>3. /\ loose \subseteq loose' /\ loose' \subseteq loose \cup {new.born}
      /\ new.id # file[p].id => new.born \in loose'
  BY <1>2 DEF D!Loosened
<1>4. D!DocumentsTypeOK'
  <2>1. new.born \in Births BY DEF D!Content
  <2> QED BY <1>1, <1>3, <2>1, PutKeepsTypes DEF D!DocumentsTypeOK
<1>5. D!KeptInv' /\ D!KeepsDocuments
  <2>1. file[p].rev <= new.rev BY <1>2
  <2> QED BY <1>2, <2>1, PutKeepsDocuments
<1>6. D!IdsInv' /\ D!IdsNameOneDocument'
  <2>1. ASSUME NEW q \in DOMAIN file \ {p}, q.dir \in Folders <=> p.dir \in Folders,
               file[q].id = new.id, new.id # 0, file[q].born # new.born
        PROVE  {file[q].born, new.born} \cap loose' # {}
    <3>1. CASE new.id = file[p].id
      <4>1. {file[q].born, file[p].born} \cap loose # {}
        BY <1>1, <1>2, <2>1, <3>1, SharedId
      <4> QED BY <1>2, <1>3, <4>1
    <3>2. CASE new.id # file[p].id BY <1>3, <3>2
    <3> QED BY <3>1, <3>2
  <2> QED BY <1>2, <1>3, <2>1, PutKeepsIds
<1>7. DOMAIN file' = DOMAIN file /\ file'[p] = new
  BY <1>1, PutIs
<1> QED BY <1>2, <1>4, <1>5, <1>6, <1>7

LEMMA UpdateKeeps ==
  ASSUME D!DocumentsAssumption, D!DocsInv, NEW p \in DOMAIN file, D!UpdateDocument(p)
  PROVE  D!DocsInv' /\ D!KeepsDocuments
<1>1. PICK new \in D!Content :
        /\ D!Updated(p, new) /\ D!Put(p, new)
        /\ known' = [known EXCEPT ![new.born] = new.rev] /\ loose' = D!Loosened(p, new)
  BY DEF D!UpdateDocument
<1>2. D!Idle /\ D!Viewed(p) /\ p \in D!Docs /\ op' = op /\ faults' = faults
  BY DEF D!UpdateDocument, D!Viewed
<1>3. D!MoveInv' BY <1>2 DEF D!MoveInv, D!Idle
<1> QED BY <1>1, <1>2, <1>3, UpdatedKeeps DEF D!DocsInv

LEMMA BeginMoveKeeps ==
  ASSUME D!DocumentsAssumption, D!DocsInv, NEW p \in DOMAIN file, NEW dir \in Folders, D!BeginMove(p, dir)
  PROVE  D!DocsInv' /\ D!KeepsDocuments
<1>1. PICK dst : dst = [p EXCEPT !.dir = dir] OBVIOUS
<1>2. PICK new \in D!Content :
        /\ D!Updated(p, new) /\ D!Put(p, new)
        /\ op' = [pc |-> "rename", src |-> p, dst |-> dst, new |-> new]
        /\ loose' = D!Loosened(p, new)
  BY <1>1 DEF D!BeginMove
<1>3. /\ D!Viewed(p) /\ p \in D!Docs /\ known' = known /\ faults' = faults
      /\ dir # p.dir /\ dst \notin DOMAIN file
  BY <1>1 DEF D!BeginMove, D!Viewed
<1>4. /\ D!DocumentsTypeOK' /\ D!KeptInv' /\ D!KeepsDocuments /\ D!IdsInv' /\ D!IdsNameOneDocument'
      /\ DOMAIN file' = DOMAIN file /\ file'[p] = new /\ new.form = "parses"
  BY <1>2, <1>3, UpdatedKeeps
<1>5. p \in D!Path /\ dst \in D!Path /\ dst.dir = dir
  BY <1>1 DEF D!DocsInv, D!DocumentsTypeOK, D!Path
<1>6. D!MoveInv'
  <2>1. /\ op' \in [pc : {"rename", "copy", "unlink"}, src : D!Path, dst : D!Path, new : D!Content]
        /\ op'.src = p /\ op'.dst = dst /\ op'.new = new /\ op'.pc = "rename"
    BY <1>2, <1>5
  <2>2. p \in D!Docs' BY <1>3, <1>4 DEF D!Docs
  <2>3. dst # p BY <1>3, <1>5
  <2> QED BY <1>3, <1>4, <1>5, <2>1, <2>2, <2>3 DEF D!MoveInv
<1> QED BY <1>4, <1>6 DEF D!DocsInv

LEMMA HandEditKeeps ==
  ASSUME D!DocumentsAssumption, D!DocsInv, NEW p \in DOMAIN file, D!HandEdit(p)
  PROVE  D!DocsInv' /\ D!KeepsDocuments
<1> USE DEF D!DocsInv
<1>1. PICK form \in {"parses", "salvaged", "opaque"} :
        /\ D!Put(p, [file[p] EXCEPT !.form = form])
        /\ loose' = IF form = "opaque" /\ p.num # file[p].id THEN loose \cup {file[p].born} ELSE loose
  BY DEF D!HandEdit
<1>2. PICK c : c = [file[p] EXCEPT !.form = form] OBVIOUS
<1>3. p \in D!Path /\ file[p] \in D!Content BY DEF D!DocumentsTypeOK
<1>4. /\ c \in D!Content /\ c.born = file[p].born /\ c.id = file[p].id /\ c.rev = file[p].rev
      /\ c.form = form /\ c.rev \in Nat /\ c.born \in Births
  BY <1>2, <1>3 DEF D!Content
<1>5. D!Put(p, c) /\ D!Idle /\ op' = op /\ known' = known /\ faults' = faults
  BY <1>1, <1>2 DEF D!HandEdit
<1>6. D!DocumentsTypeOK'
  BY <1>1, <1>3, <1>4, <1>5, PutKeepsTypes DEF D!DocumentsTypeOK
<1>7. D!MoveInv' BY <1>5 DEF D!MoveInv, D!Idle
<1>8. D!KeptInv' /\ D!KeepsDocuments
  <2>1. file[p].rev <= c.rev BY <1>4
  <2> QED BY <1>4, <1>5, <2>1, PutKeepsDocuments
<1>9. D!IdsInv' /\ D!IdsNameOneDocument'
  <2>1. loose \subseteq loose' /\ (c.form = "opaque" => p.num = c.id \/ c.born \in loose')
    BY <1>1, <1>4
  <2>2. ASSUME NEW q \in DOMAIN file \ {p}, q.dir \in Folders <=> p.dir \in Folders,
               file[q].id = c.id, c.id # 0, file[q].born # c.born
        PROVE  {file[q].born, c.born} \cap loose' # {}
    <3>1. {file[q].born, file[p].born} \cap loose # {}
      BY <1>4, <2>2, SharedId
    <3> QED BY <1>4, <2>1, <3>1
  <2> QED BY <1>5, <2>1, <2>2, PutKeepsIds
<1> QED BY <1>6, <1>7, <1>8, <1>9

\* Files that only change their places keep what is known of ids.
LEMMA CarriedIds ==
  ASSUME D!DocumentsAssumption, D!DocumentsTypeOK, D!IdsInv, D!IdsNameOneDocument, loose' = loose,
         \A q \in DOMAIN file' : \E p \in DOMAIN file :
           /\ file'[q] = file[p] /\ (q.dir \in Folders <=> p.dir \in Folders)
           /\ file'[q].form # "opaque" \/ q.num = p.num
  PROVE  D!IdsInv' /\ D!IdsNameOneDocument'
<1>1. D!IdsInv' BY DEF D!IdsInv
<1>2. ASSUME NEW q \in DOMAIN file', NEW r \in DOMAIN file', q.dir \in Folders <=> r.dir \in Folders,
             file'[q].id = file'[r].id, file'[q].id # 0, file'[q].born # file'[r].born
      PROVE  {file'[q].born, file'[r].born} \cap loose' # {}
  <2>1. PICK p \in DOMAIN file : file'[q] = file[p] /\ (q.dir \in Folders <=> p.dir \in Folders)
    OBVIOUS
  <2>2. PICK s \in DOMAIN file : file'[r] = file[s] /\ (r.dir \in Folders <=> s.dir \in Folders)
    OBVIOUS
  <2>3. {file[p].born, file[s].born} \cap loose # {}
    BY <1>2, <2>1, <2>2, SharedId
  <2> QED BY <2>1, <2>2, <2>3
<1>3. \A q, r \in D!Docs' : q.dir \in Folders /\ r.dir \in Folders /\ q \in DOMAIN file' /\ r \in DOMAIN file'
  BY DEF D!Docs
<1>4. \A q, r \in D!Records' : /\ q.dir \notin Folders /\ r.dir \notin Folders
                               /\ q \in DOMAIN file' /\ r \in DOMAIN file'
  BY DEF D!Records, D!DocumentsAssumption
<1> QED BY <1>1, <1>2, <1>3, <1>4 DEF D!IdsNameOneDocument

\* The files of other documents stay, and b is at p in the revision reported.
LEMMA CarriedDocuments ==
  ASSUME D!DocumentsTypeOK, D!KeptInv, NEW b \in Births, NEW p \in DOMAIN file',
         file'[p].born = b, file'[p].rev >= known'[b],
         \A c \in Births \ {b} : known'[c] = known[c],
         \A q \in DOMAIN file : file[q].born # b => q \in DOMAIN file' /\ file'[q] = file[q],
         \A q \in DOMAIN file' : file'[q].born # b => q \in DOMAIN file /\ file'[q] = file[q]
  PROVE  D!KeptInv' /\ D!KeepsDocuments
<1>1. ASSUME NEW c \in Births \ {b} 
      PROVE  D!Homes(c)' = D!Homes(c) /\ known'[c] = known[c] /\ \A q \in D!Homes(c) : file'[q] = file[q]
  <2>1. \A q \in DOMAIN file : file[q].born = c => q \in DOMAIN file' /\ file'[q] = file[q]
    BY <1>1
  <2>2. \A q \in DOMAIN file' : file'[q].born = c => q \in DOMAIN file /\ file[q].born = c
    BY <1>1
  <2> QED BY <1>1, <2>1, <2>2 DEF D!Homes
<1>2. p \in D!Homes(b)' BY DEF D!Homes
<1>3. D!KeptInv'
  BY <1>1, <1>2 DEF D!KeptInv
<1>4. D!KeepsDocuments
  BY <1>1, <1>2, <1>3 DEF D!KeepsDocuments, D!KeptInv
<1> QED BY <1>3, <1>4

\* Where no file changes.
LEMMA SameFilesKeep ==
  ASSUME D!DocsInv, UNCHANGED <<file, known, loose>>, faults' \in 0..MoreFaults, D!MoveInv'
  PROVE  D!DocsInv' /\ D!KeepsDocuments
BY DEF D!DocsInv, D!DocumentsTypeOK, D!KeptInv, D!KeepsDocuments, D!IdsInv, D!IdsNameOneDocument,
       D!Homes, D!Docs, D!Records

LEMMA MoveSteps ==
  ASSUME D!DocumentsAssumption, D!DocsInv, D!Rename \/ D!Copy \/ D!Unlink \/ D!Die
  PROVE  D!DocsInv' /\ D!KeepsDocuments
<1> USE DEF D!DocsInv
<1>1. /\ op \in [pc : {"rename", "copy", "unlink"}, src : D!Path, dst : D!Path, new : D!Content]
      /\ op.src \in DOMAIN file /\ op.src.dir \in Folders /\ file[op.src] = op.new
      /\ op.new.form = "parses" /\ op.dst # op.src /\ op.dst.dir \in Folders /\ op.dst \in D!Path
      /\ IF op.pc = "unlink" THEN op.dst \in DOMAIN file /\ file[op.dst] = op.new
                             ELSE op.dst \notin DOMAIN file
      /\ ~D!Idle
  BY DEF D!MoveInv, D!Rename, D!Copy, D!Unlink, D!Die, D!At, D!Docs
<1>2. PICK b \in Births : b = op.new.born BY <1>1 DEF D!Content
<1>3. op.new.rev \in 0..MaxRev /\ known[b] \in Nat /\ faults \in 0..MoreFaults /\ MoreFaults \in Nat
  BY <1>1 DEF D!Content, D!DocumentsTypeOK, D!DocumentsAssumption
<1>4. /\ D!Fault => faults' \in 0..MoreFaults
      /\ faults' = faults => ~D!Fault
  BY <1>3 DEF D!Fault
<1>5. CASE D!Fault /\ UNCHANGED <<file, known, loose>>
  <2>1. D!MoveInv'
    <3>1. CASE op' = NoOp BY <3>1 DEF D!MoveInv, D!Idle
    <3>2. CASE op.pc = "rename" /\ op' = [op EXCEPT !.pc = "copy"]
      BY <1>1, <1>5, <3>2 DEF D!MoveInv, D!Docs
    <3> QED BY <1>4, <1>5, <3>1, <3>2 DEF D!Rename, D!Copy, D!Unlink, D!Die, D!At
  <2> QED BY <1>4, <1>5, <2>1, SameFilesKeep
<1>6. CASE D!Rename /\ ~D!Fault
  <2>1. /\ DOMAIN file' = (DOMAIN file \ {op.src}) \cup {op.dst}
        /\ file'[op.dst] = op.new
        /\ \A q \in DOMAIN file \ {op.src} : q # op.dst => file'[q] = file[q]
        /\ op' = NoOp /\ loose' = loose /\ faults' = faults /\ op.dst \notin DOMAIN file
        /\ known' = [known EXCEPT ![op.new.born] = op.new.rev]
    BY <1>1, <1>6 DEF D!Rename, D!Report, D!At
  <2>2. D!DocumentsTypeOK' BY <1>1, <1>2, <1>3, <2>1 DEF D!DocumentsTypeOK
  <2>3. D!MoveInv' BY <2>1 DEF D!MoveInv, D!Idle
  <2>4. D!KeptInv' /\ D!KeepsDocuments
    <3>1. file'[op.dst].rev >= known'[b] /\ \A c \in Births \ {b} : known'[c] = known[c]
      BY <1>2, <1>3, <2>1 DEF D!DocumentsTypeOK
    <3>2. file'[op.dst].born = b /\ op.dst \in DOMAIN file' BY <1>2, <2>1
    <3>3. \A q \in DOMAIN file : file[q].born # b => q \in DOMAIN file' /\ file'[q] = file[q]
      BY <1>1, <1>2, <2>1
    <3>4. \A q \in DOMAIN file' : file'[q].born # b => q \in DOMAIN file /\ file'[q] = file[q]
      BY <1>2, <2>1
    <3> QED BY <3>1, <3>2, <3>3, <3>4, CarriedDocuments
  <2>5. D!IdsInv' /\ D!IdsNameOneDocument'
    BY <1>1, <2>1, CarriedIds
  <2> QED BY <2>2, <2>3, <2>4, <2>5
<1>7. CASE D!Copy /\ ~D!Fault
  <2>1. /\ D!Put(op.dst, op.new) /\ op' = [op EXCEPT !.pc = "unlink"] /\ UNCHANGED <<known, loose, faults>>
        /\ op.dst \notin DOMAIN file
    BY <1>1, <1>7 DEF D!Copy, D!At
  <2>2. /\ DOMAIN file' = DOMAIN file \cup {op.dst} /\ file'[op.dst] = op.new
        /\ \A q \in DOMAIN file : file'[q] = file[q]
    BY <2>1, PutIs
  <2>3. D!DocumentsTypeOK' BY <1>1, <2>1, <2>2 DEF D!DocumentsTypeOK
  <2>4. D!MoveInv' BY <1>1, <2>1, <2>2 DEF D!MoveInv, D!Docs
  <2>5. D!KeptInv' /\ D!KeepsDocuments
    <3>1. op.new \in D!Content BY <1>1
    <3> QED BY <2>1, <3>1, PutKeepsDocuments
  <2>6. D!IdsInv' /\ D!IdsNameOneDocument'
    BY <1>1, <2>1, <2>2, CarriedIds
  <2> QED BY <2>3, <2>4, <2>5, <2>6
\* The file in the new place stays, whether or not the old one goes.
<1>8. CASE D!Unlink
  <2>1. /\ DOMAIN file' \subseteq DOMAIN file /\ DOMAIN file \ {op.src} \subseteq DOMAIN file'
        /\ \A q \in DOMAIN file' : file'[q] = file[q]
        /\ op' = NoOp /\ loose' = loose /\ faults' \in 0..MoreFaults
        /\ known' = [known EXCEPT ![op.new.born] = op.new.rev]
    BY <1>3, <1>4, <1>8 DEF D!Unlink, D!Drop, D!Report
  <2>2. op.dst \in DOMAIN file' /\ file'[op.dst] = op.new BY <1>1, <1>8, <2>1 DEF D!Unlink, D!At
  <2>3. D!DocumentsTypeOK' BY <1>1, <1>2, <1>3, <2>1 DEF D!DocumentsTypeOK
  <2>4. D!MoveInv' BY <2>1 DEF D!MoveInv, D!Idle
  <2>5. D!KeptInv' /\ D!KeepsDocuments
    <3>1. file'[op.dst].rev >= known'[b] /\ \A c \in Births \ {b} : known'[c] = known[c]
      BY <1>2, <1>3, <2>1, <2>2 DEF D!DocumentsTypeOK
    <3>2. file'[op.dst].born = b BY <1>2, <2>2
    <3>3. \A q \in DOMAIN file : file[q].born # b => q \in DOMAIN file' /\ file'[q] = file[q]
      BY <1>1, <1>2, <2>1
    <3>4. \A q \in DOMAIN file' : file'[q].born # b => q \in DOMAIN file /\ file'[q] = file[q]
      BY <2>1
    <3> QED BY <2>2, <3>1, <3>2, <3>3, <3>4, CarriedDocuments
  <2>6. D!IdsInv' /\ D!IdsNameOneDocument'
    BY <1>1, <2>1, CarriedIds
  <2> QED BY <2>3, <2>4, <2>5, <2>6
<1> QED
  BY <1>4, <1>5, <1>6, <1>7, <1>8 DEF D!Rename, D!Copy, D!Unlink, D!Die

LEMMA DocsKeep ==
  ASSUME D!DocumentsAssumption, D!DocsInv, D!DocsNext PROVE D!DocsInv' /\ D!KeepsDocuments
BY NewDocsKeep, UpdateKeeps, HandEditKeeps, BeginMoveKeeps, MoveSteps DEF D!DocsNext

LEMMA DocsInvariance ==
  ASSUME D!DocumentsAssumption PROVE MCSpec => [](part = "documents" => D!DocsInv)
<1>1. ASSUME MCInit, part = "documents" PROVE D!DocsInv
  <2>1. D!DocsInit BY <1>1 DEF MCInit
  <2>2. DOMAIN file = {} /\ D!Idle BY <2>1 DEF D!DocsInit, D!Idle
  <2> QED BY <2>1, <2>2 DEF D!DocsInit, D!DocsInv, D!DocumentsTypeOK, D!MoveInv, D!KeptInv, D!IdsInv,
                            D!IdsNameOneDocument, D!Homes, D!Docs, D!Records, D!DocumentsAssumption
<1>2. ASSUME part = "documents" => D!DocsInv, [MCNext]_mcVars PROVE (part = "documents" => D!DocsInv)'
  <2> SUFFICES ASSUME part' = "documents" PROVE D!DocsInv'
    OBVIOUS
  <2>1. part = "documents" /\ D!DocsInv BY <1>2 DEF MCNext, mcVars
  <2>2. CASE UNCHANGED mcVars
    BY <2>1, <2>2, StillParts
       DEF D!DocsInv, D!DocumentsTypeOK, D!MoveInv, D!KeptInv, D!IdsInv, D!IdsNameOneDocument,
           D!Homes, D!Docs, D!Records, D!Idle
  <2> QED BY <1>2, <2>1, <2>2, DocsKeep DEF MCNext
<1> QED BY <1>1, <1>2, PTL DEF MCSpec

\* Whatever fails or dies, a document that was created is somewhere in a revision no
\* older than the last one reported, and an id is of one document, but for the ids that
\* nobody checks (create_document, update_document, _move_document, create_decision).
THEOREM DocumentsAreKept ==
  ASSUME D!DocumentsAssumption PROVE MCSpec => DocumentsKept
<1>1. ASSUME part = "documents" => D!DocsInv
      PROVE  part = "documents" => D!DocumentsTypeOK /\ D!IdsNameOneDocument
  BY <1>1 DEF D!DocsInv
<1>2. ASSUME part = "documents" => D!DocsInv, MCNext PROVE part = "documents" => D!KeepsDocuments
  BY <1>2, DocsKeep DEF MCNext
<1>3. MCSpec => [](part = "documents" => D!DocsInv) BY DocsInvariance
<1> QED BY <1>1, <1>2, <1>3, PTL DEF MCSpec, DocumentsKept

-----------------------------------------------------------------------------
(* Settings: what was asked for holds. *)

LEMMA EffectiveIs ==
  ASSUME S!SettingsAssumption, NEW c \in S!Config
  PROVE  /\ S!Effective(c) \in S!Settable
         /\ S!Effective(c).statuses = c.statuses
BY DEF S!SettingsAssumption, S!Config, S!Effective, S!Settable

\* One key.
LEMMA ApplyStatuses ==
  ASSUME NEW c \in S!Config, NEW v \in SUBSET Statuses
  PROVE  /\ S!Apply(c, "statuses", v) \in S!Config
         /\ S!Effective(S!Apply(c, "statuses", v)).statuses = v
         /\ S!Effective(S!Apply(c, "statuses", v)).default = S!Effective(c).default
<1> DEFINE d == [c EXCEPT !.statuses = v]
<1>1. S!Apply(c, "statuses", v) = d BY DEF S!Apply
<1>2. d \in S!Config /\ d.statuses = v /\ d.default_status = c.default_status
      /\ d.defaultStatus = c.defaultStatus
  BY DEF S!Config
<1> HIDE DEF d
<1> QED BY <1>1, <1>2 DEF S!Effective

LEMMA ApplyDefault ==
  ASSUME NEW c \in S!Config, NEW v \in Statuses, v # Absent
  PROVE  /\ S!Apply(c, "default", v) \in S!Config
         /\ S!Effective(S!Apply(c, "default", v)).statuses = c.statuses
         /\ S!Effective(S!Apply(c, "default", v)).default = v
<1> DEFINE d == [c EXCEPT !.default_status = IF @ = Absent THEN Absent ELSE v,
                          !.defaultStatus  = IF @ = Absent /\ c.default_status # Absent
                                             THEN Absent ELSE v]
<1>1. S!Apply(c, "default", v) = d BY DEF S!Apply
<1>2. /\ d \in S!Config /\ d.statuses = c.statuses
      /\ d.default_status = IF c.default_status = Absent THEN Absent ELSE v
      /\ d.defaultStatus = IF c.defaultStatus = Absent /\ c.default_status # Absent
                           THEN Absent ELSE v
  BY DEF S!Config
<1> HIDE DEF d
<1> QED BY <1>1, <1>2 DEF S!Effective

\* Several.
LEMMA ApplyAllIs ==
  ASSUME S!SettingsAssumption, NEW c \in S!Config, NEW a \in S!Answers
  PROVE  /\ S!ApplyAll(c, a) \in S!Config
         /\ S!Effective(S!ApplyAll(c, a)) =
              [k \in S!Keys |-> IF a[k] # Absent THEN a[k] ELSE S!Effective(c)[k]]
<1> DEFINE d == IF a["default"] # Absent THEN S!Apply(c, "default", a["default"]) ELSE c
           e == IF a["statuses"] # Absent THEN S!Apply(d, "statuses", a["statuses"]) ELSE d
<1>1. S!ApplyAll(c, a) = e BY DEF S!ApplyAll, S!Asked, S!Keys
<1>2. d \in S!Config /\ S!Effective(d) \in S!Settable
      /\ S!Effective(d).statuses = S!Effective(c).statuses
      /\ S!Effective(d).default = IF a["default"] # Absent THEN a["default"] ELSE S!Effective(c).default
  BY ApplyStatuses, ApplyDefault, EffectiveIs DEF S!Answers, S!Settable
<1> HIDE DEF d
<1>3. e \in S!Config /\ S!Effective(e) \in S!Settable
      /\ S!Effective(e).default = S!Effective(d).default
      /\ S!Effective(e).statuses = IF a["statuses"] # Absent THEN a["statuses"] ELSE S!Effective(d).statuses
  BY <1>2, ApplyStatuses, ApplyDefault, EffectiveIs DEF S!Answers, S!Settable
<1> HIDE DEF e
<1> QED BY <1>1, <1>2, <1>3 DEF S!Keys, S!Settable

\* What a write stores, and what it leaves for later.
LEMMA Parts ==
  ASSUME NEW a \in S!Answers, NEW ks
  PROVE  /\ [k \in S!Keys |-> IF k \in ks THEN a[k] ELSE Absent] \in S!Answers
         /\ [k \in S!Keys |-> IF k \in ks THEN Absent ELSE a[k]] \in S!Answers
         /\ S!NoAnswers \in S!Answers
BY DEF S!Answers, S!Keys, S!NoAnswers

LEMMA IdleSession ==
  /\ S!Idle \in S!SessionSet /\ S!Idle.pc = "idle"
BY Parts DEF S!Idle, S!SessionSet, S!Answers, S!NoAnswers, S!Keys

\* A step of one session that keeps the file.
LEMMA SessionMoves ==
  ASSUME S!SettingsAssumption, S!SettingsInv, NEW s \in Sessions, NEW n \in S!SessionSet,
         session' = [session EXCEPT ![s] = n], config' = config, status' = status, want' = want,
         lock' = lock \/ (lock = NoUser /\ lock' = s) \/ (lock = s /\ lock' = NoUser),
         initLock' = initLock \/ (initLock = NoUser /\ initLock' = s) \/ (initLock = s /\ initLock' = NoUser),
         n.pc \in {"read", "write"} => lock' = s,
         n.pc \in {"check", "create"} => initLock' = s,
         n.pc \in {"form", "lock", "read", "write"} => config # NoFile,
         n.pc = "create" => config = NoFile,
         n.pc = "write" => n.read = config
  PROVE  S!SettingsInv'
<1> USE DEF S!SettingsInv
<1>1. session' \in [Sessions -> S!SessionSet] /\ \A r \in Sessions : session'[r] = IF r = s THEN n ELSE session[r]
  OBVIOUS
<1>2. S!SettingsTypeOK'
  BY <1>1 DEF S!SettingsTypeOK, S!SessionSet
<1>3. ASSUME NEW r \in Sessions PROVE S!SessionInv(r)'
  BY <1>1 DEF S!SessionInv, S!At, S!SettingsAssumption
<1> QED BY <1>1, <1>2, <1>3 DEF S!Effective

LEMMA FormKeeps ==
  ASSUME S!SettingsAssumption, S!SettingsInv, NEW s \in Sessions,
         \/ \E kind \in {"set", "wizard", "browser", "tui"} : S!Start(s, kind)
         \/ S!Submit(s) \/ S!StartInit(s)
  PROVE  S!SettingsInv'
<1>1. PICK q \in S!SessionSet : q = session[s] BY DEF S!SettingsInv
<1>2. CASE \E kind \in {"set", "wizard", "browser", "tui"} : S!Start(s, kind)
  <2>1. PICK kind \in {"set", "wizard", "browser", "tui"} : S!Start(s, kind) BY <1>2
  <2>2. config # NoFile /\ S!Effective(config) \in S!Settable
    BY <2>1, EffectiveIs DEF S!Start, S!SettingsInv, S!SettingsTypeOK
  <2>3. PICK n \in S!SessionSet :
          n = [S!Idle EXCEPT !.kind = kind, !.pc = "form", !.seen = S!Effective(config)]
    BY <2>2, IdleSession DEF S!SessionSet
  <2>4. n.pc = "form" BY <2>3, IdleSession DEF S!SessionSet
  <2> QED BY <2>1, <2>2, <2>3, <2>4, SessionMoves DEF S!Start
<1>3. CASE S!Submit(s)
  <2>1. PICK a \in S!Answers : session' = [session EXCEPT ![s].answers = a, ![s].seen = NoFile, ![s].pc = "lock"]
    BY <1>3 DEF S!Submit
  <2>2. PICK n \in S!SessionSet : n = [q EXCEPT !.answers = a, !.seen = NoFile, !.pc = "lock"]
    BY DEF S!SessionSet
  <2>3. session' = [session EXCEPT ![s] = n] BY <1>1, <2>1, <2>2 DEF S!SettingsInv
  <2>4. n.pc = "lock" BY <2>2 DEF S!SessionSet
  <2>5. config # NoFile BY <1>1, <1>3 DEF S!Submit, S!At, S!SettingsInv, S!SessionInv
  <2> QED BY <1>3, <2>3, <2>4, <2>5, SessionMoves DEF S!Submit, S!rest
<1>4. CASE S!StartInit(s)
  <2>1. PICK n \in S!SessionSet : n = [S!Idle EXCEPT !.kind = "init", !.pc = "init lock"]
    BY IdleSession DEF S!SessionSet
  <2>2. n.pc = "init lock" BY <2>1, IdleSession DEF S!SessionSet
  <2> QED BY <1>4, <2>1, <2>2, SessionMoves DEF S!StartInit
<1> QED BY <1>2, <1>3, <1>4

\* GiveUp, RejectSettings, Fail, and CheckConfig where there is a file.
LEMMA EndsKeep ==
  ASSUME S!SettingsAssumption, S!SettingsInv, NEW s \in Sessions,
         \/ S!GiveUp(s) \/ S!RejectSettings(s) \/ S!Fail(s)
         \/ S!CheckConfig(s) /\ config # NoFile
  PROVE  S!SettingsInv'
<1>1. PICK n \in S!SessionSet : n = S!Idle BY IdleSession
<1>2. n.pc = "idle" BY <1>1, IdleSession
<1>3. session' = [session EXCEPT ![s] = n] /\ config' = config /\ status' = status /\ want' = want
  BY <1>1 DEF S!GiveUp, S!RejectSettings, S!Fail, S!CheckConfig, S!Finish, S!rest
<1>4. /\ lock' = lock \/ (lock = s /\ lock' = NoUser)
      /\ initLock' = initLock \/ (initLock = s /\ initLock' = NoUser)
  BY DEF S!GiveUp, S!RejectSettings, S!Fail, S!CheckConfig, S!Finish, S!rest, S!At,
         S!SettingsInv, S!SessionInv
<1> QED BY <1>2, <1>3, <1>4, SessionMoves

LEMMA AdvancesKeep ==
  ASSUME S!SettingsAssumption, S!SettingsInv, NEW s \in Sessions,
         \/ S!TakeLock(s) \/ S!ReadConfig(s) \/ S!TakeInitLock(s)
         \/ S!CheckConfig(s) /\ config = NoFile
  PROVE  S!SettingsInv'
<1>1. PICK q \in S!SessionSet : q = session[s] BY DEF S!SettingsInv
<1>2. S!SessionInv(s) BY DEF S!SettingsInv
<1>3. CASE S!TakeLock(s)
  <2>1. PICK n \in S!SessionSet : n = [q EXCEPT !.pc = "read"] BY DEF S!SessionSet
  <2>2. n.pc = "read" /\ session' = [session EXCEPT ![s] = n]
    BY <1>1, <1>3, <2>1 DEF S!SessionSet, S!TakeLock, S!Goto, S!SettingsInv
  <2>3. config # NoFile BY <1>2, <1>3 DEF S!TakeLock, S!SessionInv, S!At
  <2> QED BY <1>3, <2>2, <2>3, SessionMoves DEF S!TakeLock, S!rest
<1>4. CASE S!ReadConfig(s)
  <2>1. config # NoFile /\ lock = s BY <1>2, <1>4 DEF S!ReadConfig, S!SessionInv, S!At
  <2>2. PICK n \in S!SessionSet : n = [q EXCEPT !.read = config, !.pc = "write"]
    BY DEF S!SessionSet, S!SettingsInv, S!SettingsTypeOK
  <2>3. n.pc = "write" /\ n.read = config /\ session' = [session EXCEPT ![s] = n]
    BY <1>1, <1>4, <2>2 DEF S!SessionSet, S!ReadConfig, S!SettingsInv
  <2> QED BY <1>4, <2>1, <2>3, SessionMoves DEF S!ReadConfig, S!rest
<1>5. CASE S!TakeInitLock(s)
  <2>1. PICK n \in S!SessionSet : n = [q EXCEPT !.pc = "check"] BY DEF S!SessionSet
  <2>2. n.pc = "check" /\ session' = [session EXCEPT ![s] = n]
    BY <1>1, <1>5, <2>1 DEF S!SessionSet, S!TakeInitLock, S!Goto, S!SettingsInv
  <2> QED BY <1>5, <2>2, SessionMoves DEF S!TakeInitLock
<1>6. CASE S!CheckConfig(s) /\ config = NoFile
  <2>1. PICK n \in S!SessionSet : n = [q EXCEPT !.pc = "create"] BY DEF S!SessionSet
  <2>2. n.pc = "create" /\ session' = [session EXCEPT ![s] = n]
    BY <1>1, <1>6, <2>1 DEF S!SessionSet, S!CheckConfig, S!Goto, S!SettingsInv
  <2>3. initLock = s BY <1>2, <1>6 DEF S!CheckConfig, S!SessionInv, S!At
  <2> QED BY <1>6, <2>2, <2>3, SessionMoves DEF S!CheckConfig
<1> QED BY <1>3, <1>4, <1>5, <1>6

\* What is written is what was read, with the answers.
LEMMA WriteKeeps ==
  ASSUME S!SettingsAssumption, S!SettingsInv, NEW s \in Sessions, S!WriteConfig(s)
  PROVE  S!SettingsInv'
<1>1. PICK q \in S!SessionSet : q = session[s] BY DEF S!SettingsInv
<1>2. q.pc = "write" /\ lock = s /\ config # NoFile /\ q.read = config /\ config \in S!Config
  BY <1>1 DEF S!WriteConfig, S!SettingsInv, S!SettingsTypeOK, S!SessionInv, S!At
<1>3. session[s].answers \in S!Answers /\ session[s].read = config BY <1>1, <1>2 DEF S!SessionSet
<1>4. PICK ks \in S!NextAnswers(s) :
        LET stored == [k \in S!Keys |-> IF k \in ks THEN session[s].answers[k] ELSE Absent]
            left   == [k \in S!Keys |-> IF k \in ks THEN Absent ELSE session[s].answers[k]] IN
          /\ config' = S!ApplyAll(session[s].read, stored)
          /\ want' = [k \in S!Keys |-> IF k \in ks THEN session[s].answers[k] ELSE want[k]]
          /\ IF left = S!NoAnswers THEN S!Finish(s)
             ELSE /\ session' = [session EXCEPT ![s].answers = left, ![s].read = NoFile, ![s].pc = "read"]
                  /\ lock' = lock
  BY DEF S!WriteConfig
<1> DEFINE stored == [k \in S!Keys |-> IF k \in ks THEN session[s].answers[k] ELSE Absent]
           left   == [k \in S!Keys |-> IF k \in ks THEN Absent ELSE session[s].answers[k]]
<1>5. stored \in S!Answers /\ left \in S!Answers BY <1>3, Parts
<1>6. \A k \in ks : k \in S!Keys /\ session[s].answers[k] # Absent
  BY <1>1 DEF S!NextAnswers, S!Asked
<1>7. config' \in S!Config /\ want' = S!Effective(config')
  <2>1. config' = S!ApplyAll(config, stored) BY <1>3, <1>4
  <2>2. /\ S!ApplyAll(config, stored) \in S!Config
        /\ S!Effective(S!ApplyAll(config, stored)) =
             [k \in S!Keys |-> IF stored[k] # Absent THEN stored[k] ELSE S!Effective(config)[k]]
    BY <1>2, <1>5, ApplyAllIs
  <2>3. want = S!Effective(config) BY <1>2 DEF S!SettingsInv
  <2>4. \A k \in S!Keys : stored[k] = IF k \in ks THEN session[s].answers[k] ELSE Absent OBVIOUS
  <2> HIDE DEF stored
  <2>5. [k \in S!Keys |-> IF stored[k] # Absent THEN stored[k] ELSE S!Effective(config)[k]]
        = [k \in S!Keys |-> IF k \in ks THEN session[s].answers[k] ELSE want[k]]
    BY <1>6, <2>3, <2>4
  <2> QED BY <1>4, <2>1, <2>2, <2>5
<1>8. config' # NoFile /\ want' \in S!Settable BY <1>7, EffectiveIs DEF S!SettingsAssumption
<1>9. PICK n \in S!SessionSet :
        /\ session' = [session EXCEPT ![s] = n]
        /\ (n.pc = "idle" /\ lock' = NoUser) \/ (n.pc = "read" /\ lock' = s)
  <2>1. CASE left = S!NoAnswers
    <3>1. session' = [session EXCEPT ![s] = S!Idle] /\ lock' = NoUser BY <1>4, <2>1 DEF S!Finish
    <3> QED BY <3>1, IdleSession
  <2>2. CASE left # S!NoAnswers
    <3>1. PICK n \in S!SessionSet : n = [q EXCEPT !.answers = left, !.read = NoFile, !.pc = "read"]
      BY <1>5 DEF S!SessionSet
    <3>2. n.pc = "read" BY <3>1 DEF S!SessionSet
    <3>3. /\ session' = [session EXCEPT ![s].answers = left, ![s].read = NoFile, ![s].pc = "read"]
          /\ lock' = lock
      BY <1>4, <2>2
    <3> QED BY <1>1, <1>2, <3>1, <3>2, <3>3 DEF S!SettingsInv
  <2> QED BY <2>1, <2>2
<1>10. \A r \in Sessions : session'[r] = IF r = s THEN n ELSE session[r] BY <1>9 DEF S!SettingsInv
<1>11. status' = status /\ initLock' = initLock BY DEF S!WriteConfig, S!rest
<1> HIDE DEF stored, left
<1>12. S!SettingsTypeOK'
  BY <1>7, <1>8, <1>9, <1>10, <1>11 DEF S!SettingsTypeOK, S!SettingsInv, S!SessionSet
<1>13. ASSUME NEW r \in Sessions PROVE S!SessionInv(r)'
  BY <1>2, <1>8, <1>9, <1>10, <1>11 DEF S!SettingsInv, S!SessionInv, S!At, S!SettingsAssumption
<1> QED BY <1>7, <1>8, <1>9, <1>12, <1>13 DEF S!SettingsInv, S!Effective

\* A file is created where there was none, and nobody has read one.
LEMMA CreateKeeps ==
  ASSUME S!SettingsAssumption, S!SettingsInv, NEW s \in Sessions, S!CreateConfig(s)
  PROVE  S!SettingsInv'
<1>1. config = NoFile /\ want = NoFile /\ initLock = s
  BY DEF S!CreateConfig, S!At, S!SettingsInv, S!SessionInv
<1>2. S!Fresh \in S!Config BY DEF S!Fresh, S!Config, S!SettingsAssumption
<1>3. PICK n \in S!SessionSet : n = S!Idle /\ n.pc = "idle" BY IdleSession
<1>4. /\ config' = S!Fresh /\ want' = S!Effective(S!Fresh) /\ session' = [session EXCEPT ![s] = n]
      /\ initLock' = NoUser /\ lock' = lock /\ status' = status
  BY <1>1, <1>3 DEF S!CreateConfig
<1>5. config' # NoFile /\ want' \in S!Settable
  BY <1>2, <1>4, EffectiveIs DEF S!SettingsAssumption
<1>6. \A r \in Sessions : session'[r] = IF r = s THEN n ELSE session[r] BY <1>4 DEF S!SettingsInv
<1>7. S!SettingsTypeOK'
  BY <1>2, <1>3, <1>4, <1>5, <1>6 DEF S!SettingsTypeOK, S!SettingsInv, S!SessionSet
<1>8. ASSUME NEW r \in Sessions PROVE S!SessionInv(r)'
  BY <1>1, <1>3, <1>4, <1>5, <1>6 DEF S!SettingsInv, S!SessionInv, S!At, S!SettingsAssumption
<1>9. want' = S!Effective(config') /\ session' \in [Sessions -> S!SessionSet]
  BY <1>4 DEF S!SettingsInv
<1> QED BY <1>5, <1>7, <1>8, <1>9 DEF S!SettingsInv, S!Effective

LEMMA StatusKeeps ==
  ASSUME S!SettingsAssumption, S!SettingsInv, NEW t \in Cards, S!SetStatus(t)
  PROVE  S!SettingsInv'
<1>1. UNCHANGED <<config, lock, initLock, session, want>> BY DEF S!SetStatus
<1>2. PICK new \in Statuses : status' = [status EXCEPT ![t] = new]
  <2>1. config \in S!Config BY DEF S!SetStatus, S!SettingsInv, S!SettingsTypeOK
  <2>2. S!Effective(config).default \in Statuses /\ config.statuses \subseteq Statuses
    BY <2>1, EffectiveIs DEF S!Settable, S!Config
  <2>3. \A u \in Cards : status[u] \in Statuses BY DEF S!SettingsInv, S!SettingsTypeOK
  <2> QED BY <2>2, <2>3 DEF S!SetStatus
<1>3. S!SettingsTypeOK' BY <1>1, <1>2 DEF S!SettingsInv, S!SettingsTypeOK
<1> QED BY <1>1, <1>3 DEF S!SettingsInv, S!SessionInv, S!At, S!Effective

LEMMA SettingsKeep ==
  ASSUME S!SettingsAssumption, S!SettingsInv, S!SettingsNext PROVE S!SettingsInv'
<1>1. CASE \E t \in Cards : S!SetStatus(t) BY <1>1, StatusKeeps
<1>2. ASSUME NEW s \in Sessions,
             \/ \E kind \in {"set", "wizard", "browser", "tui"} : S!Start(s, kind)
             \/ S!Submit(s) \/ S!TakeLock(s) \/ S!GiveUp(s) \/ S!ReadConfig(s) \/ S!WriteConfig(s)
             \/ S!RejectSettings(s) \/ S!Fail(s)
             \/ S!StartInit(s) \/ S!TakeInitLock(s) \/ S!CheckConfig(s) \/ S!CreateConfig(s)
      PROVE  S!SettingsInv'
  BY <1>2, FormKeeps, EndsKeep, AdvancesKeep, WriteKeeps, CreateKeeps
<1> QED BY <1>1, <1>2 DEF S!SettingsNext

LEMMA SettingsInvariance ==
  ASSUME S!SettingsAssumption PROVE MCSpec => [](part = "settings" => S!SettingsInv)
<1>1. ASSUME MCInit, part = "settings" PROVE S!SettingsInv
  <2>1. S!SettingsInit BY <1>1 DEF MCInit
  <2>2. config \in S!Config \cup {NoFile}
    BY <2>1 DEF S!SettingsInit, S!Config, S!Fresh, S!SettingsAssumption
  <2>3. want = IF config = NoFile THEN NoFile ELSE S!Effective(config) BY <2>1 DEF S!SettingsInit
  <2>4. want \in S!Settable \cup {NoFile} BY <2>2, <2>3, EffectiveIs
  <2>5. session = [s \in Sessions |-> S!Idle] /\ \A s \in Sessions : session[s] = S!Idle
    BY <2>1 DEF S!SettingsInit
  <2>6. session \in [Sessions -> S!SessionSet] BY <2>5, IdleSession
  <2>7. S!SettingsTypeOK
    BY <2>1, <2>2, <2>4, <2>5, IdleSession DEF S!SettingsInit, S!SettingsTypeOK, S!SessionSet
  <2> QED BY <2>3, <2>5, <2>6, <2>7, IdleSession DEF S!SettingsInv, S!SessionInv, S!At
<1>2. ASSUME part = "settings" => S!SettingsInv, [MCNext]_mcVars
      PROVE  (part = "settings" => S!SettingsInv)'
  <2> SUFFICES ASSUME part' = "settings" PROVE S!SettingsInv'
    OBVIOUS
  <2>1. part = "settings" /\ S!SettingsInv BY <1>2 DEF MCNext, mcVars
  <2>2. CASE UNCHANGED mcVars
    BY <2>1, <2>2, StillParts DEF S!SettingsInv, S!SettingsTypeOK, S!SessionInv, S!At, S!Effective
  <2>3. CASE S!SettingsNext BY <2>1, <2>3, SettingsKeep
  <2> QED BY <1>2, <2>1, <2>2, <2>3 DEF MCNext
<1> QED BY <1>1, <1>2, PTL DEF MCSpec

\* Only a write of the browser's own session stores its answers, and those were
\* checked against the configuration the file holds.
LEMMA BrowserWrites ==
  ASSUME S!SettingsAssumption, S!SettingsInv, S!SettingsNext PROVE S!KeepsStatuses
<1> SUFFICES ASSUME NEW s \in Sessions,
                    session[s].kind = "browser", session[s].pc = "write",
                    config' # config, session'[s] # session[s],
                    config.statuses # {}, config'.statuses # config.statuses
             PROVE  /\ S!Effective(config').default \in config'.statuses
                    /\ \A t \in Cards : status[t] \in config.statuses => status[t] \in config'.statuses
  BY DEF S!KeepsStatuses
<1>1. PICK a \in S!Answers : a = session[s].answers BY DEF S!SettingsInv, S!SessionSet
<1>2. session[s].read = config /\ config \in S!Config
  BY DEF S!SettingsInv, S!SettingsTypeOK, S!SessionInv, S!At
<1>3. S!WriteConfig(s)
  <2>1. PICK r \in Sessions : S!WriteConfig(r) \/ S!CreateConfig(r)
    BY DEF S!SettingsNext, S!Start, S!Submit, S!TakeLock, S!GiveUp, S!ReadConfig, S!RejectSettings,
           S!Fail, S!StartInit, S!TakeInitLock, S!CheckConfig, S!SetStatus
  <2>2. session[r].pc \in {"write", "create"} /\ (S!CreateConfig(r) => session[r].pc = "create")
    BY <2>1 DEF S!WriteConfig, S!CreateConfig, S!At
  <2>3. ~S!CreateConfig(r) BY <1>2, <2>2 DEF S!SettingsInv, S!SessionInv, S!At, S!SettingsAssumption
  <2>4. lock = r /\ lock = s BY <2>1, <2>2, <2>3 DEF S!SettingsInv, S!SessionInv, S!WriteConfig, S!At
  <2> QED BY <2>1, <2>3, <2>4
<1>4. S!ValidStatuses(session[s].read, session[s].answers) BY <1>3 DEF S!WriteConfig
<1>5. config' = S!ApplyAll(config, a)
  <2>1. S!NextAnswers(s) = {S!Asked(session[s].answers)} BY DEF S!NextAnswers
  <2>2. PICK ks \in S!NextAnswers(s) :
          config' = S!ApplyAll(session[s].read,
                               [k \in S!Keys |-> IF k \in ks THEN session[s].answers[k] ELSE Absent])
    BY <1>3 DEF S!WriteConfig
  <2> DEFINE stored == [k \in S!Keys |-> IF k \in ks THEN session[s].answers[k] ELSE Absent]
  <2>3. stored = a
    <3>1. ks = S!Asked(a) BY <1>1, <2>1
    <3>2. \A k \in S!Keys : stored[k] = a[k] BY <1>1, <3>1 DEF S!Asked
    <3>3. stored \in S!Answers BY <1>1, Parts
    <3> HIDE DEF stored
    <3> QED BY <3>2, <3>3 DEF S!Answers, S!Keys
  <2> QED BY <1>2, <2>2, <2>3
<1>6. S!Effective(config') = [k \in S!Keys |-> IF a[k] # Absent THEN a[k] ELSE S!Effective(config)[k]]
  BY <1>2, <1>5, ApplyAllIs
<1>7. S!Effective(config').statuses = config'.statuses
  BY <1>2, <1>5, ApplyAllIs, EffectiveIs
<1>8. S!Effective(config).statuses = config.statuses BY <1>2, EffectiveIs
<1>9. a["statuses"] # Absent /\ config'.statuses = a["statuses"]
  BY <1>6, <1>7, <1>8 DEF S!Keys
<1>10. "statuses" \in S!Asked(a) BY <1>9 DEF S!Asked, S!Keys
<1>11. /\ S!Effective(S!ApplyAll(config, a)).default \in a["statuses"]
       /\ \A t \in Cards : status[t] \in config.statuses => status[t] \in a["statuses"]
  BY <1>1, <1>2, <1>4, <1>10 DEF S!ValidStatuses
<1> QED BY <1>5, <1>9, <1>11

\* Every key of the configuration has the value that was asked for last, and the
\* browser takes no configured status from a task, whatever was stored since its
\* form was loaded (update_config, _validate_status_settings, init_project).
THEOREM SettingsHold ==
  ASSUME S!SettingsAssumption PROVE MCSpec => SettingsTakeEffect
<1>1. ASSUME part = "settings" => S!SettingsInv
      PROVE  part = "settings" => S!SettingsTypeOK /\ S!SettingsTakeEffect
  BY <1>1 DEF S!SettingsInv, S!SettingsTakeEffect
<1>2. ASSUME part = "settings" => S!SettingsInv, MCNext PROVE part = "settings" => S!KeepsStatuses
  BY <1>2, BrowserWrites DEF MCNext
<1>3. MCSpec => [](part = "settings" => S!SettingsInv) BY SettingsInvariance
<1> QED BY <1>1, <1>2, <1>3, PTL DEF MCSpec, SettingsTakeEffect

-----------------------------------------------------------------------------
(* AutoCommit: a commit is of its operation, and of all of it. *)

LEMMA WrittenType ==
  ASSUME A!TypeOK, NEW fs, NEW who \in {"user", "op"}
  PROVE  /\ A!Written(fs, who) \in [Files -> A!Versions]
         /\ \A f \in Files : A!Written(fs, who)[f] = work[f] \/ A!Written(fs, who)[f].by = who
<1>1. ASSUME NEW f \in Files PROVE [by |-> who, n |-> 1 - work[f].n] \in A!Versions
  <2>1. work[f].n \in {0, 1} BY DEF A!TypeOK, A!Versions
  <2>2. 1 - work[f].n \in {0, 1} BY <2>1
  <2> QED BY <2>2 DEF A!Versions
<1> QED BY <1>1 DEF A!Written, A!TypeOK

LEMMA CommitInit == ASSUME A!Init PROVE A!IInv
<1>1. [by |-> "user", n |-> 0] \in A!Versions BY DEF A!Versions
<1>2. work \in [Files -> A!Versions] BY <1>1 DEF A!Init
<1>3. A!NoBefore \in [work : [Files -> A!Versions], index : [Files -> A!Versions]]
  BY <1>1 DEF A!NoBefore
<1>4. A!TypeOK BY <1>2, <1>3 DEF A!Init, A!TypeOK, A!NoContext
<1> QED BY <1>4 DEF A!Init, A!IInv, A!IndexInv, A!WorkInv, A!CleanInv, A!Operating

LEMMA NoBeforeType ==
  /\ A!NoBefore \in [work : [Files -> A!Versions], index : [Files -> A!Versions]]
  /\ A!NoContext \in [available : BOOLEAN, clean : BOOLEAN] /\ ~A!NoContext.clean
<1>1. [by |-> "user", n |-> 0] \in A!Versions BY DEF A!Versions
<1> QED BY <1>1 DEF A!NoBefore, A!NoContext

\* Steps of the operation.
LEMMA PrepareKeeps == ASSUME A!Assumptions, A!IInv, A!Prepare PROVE A!IInv'
<1>1. PICK available \in BOOLEAN, clean \in BOOLEAN :
        /\ context' = [available |-> available, clean |-> available /\ clean]
        /\ "status" \notin GitFails => clean = ~A!Dirty(Project)
  BY Zenon DEF A!Prepare, A!MayFail
<1>2. before' = [work |-> work, index |-> index] /\ pc' = "mutate"
      /\ work' = work /\ index' = index /\ head' = head /\ auto' = auto
  BY DEF A!Prepare
<1>3. context'.available = available /\ context'.clean = (available /\ clean)
  BY <1>1, Zenon
<1>4. A!TypeOK'
  <2>1. context' \in [available : BOOLEAN, clean : BOOLEAN] BY <1>1
  <2> QED BY <1>2, <1>3, <2>1 DEF A!TypeOK, A!IInv
<1>5. A!IndexInv' /\ A!WorkInv' BY <1>2 DEF A!IndexInv, A!WorkInv, A!Operating
<1>6. A!CleanInv'
  <2> SUFFICES ASSUME "status" \notin GitFails, context'.clean, NEW f \in Project
               PROVE  before'.work[f] = head'[f] /\ before'.index[f] = head'[f]
    BY DEF A!CleanInv
  <2>1. ~A!Dirty(Project) BY <1>1, <1>3
  <2>2. work[f] = index[f] /\ index[f] = head[f] BY <2>1 DEF A!Dirty
  <2> QED BY <1>2, <2>2
<1> QED BY <1>4, <1>5, <1>6 DEF A!IInv

LEMMA MutateKeeps == ASSUME A!Assumptions, A!IInv, A!Mutate PROVE A!IInv'
<1>1. PICK fs : work' = A!Written(fs, "op") BY DEF A!Mutate
<1>2. pc = "mutate" /\ pc' = "maybe" /\ context' = context /\ before' = before
      /\ index' = index /\ head' = head /\ auto' = auto
  BY DEF A!Mutate, A!Goto
<1>3. /\ work' \in [Files -> A!Versions]
      /\ \A f \in Files : work'[f] = work[f] \/ work'[f].by = "op"
  BY <1>1, WrittenType DEF A!IInv
<1> QED BY <1>2, <1>3 DEF A!IInv, A!TypeOK, A!IndexInv, A!WorkInv, A!CleanInv, A!Operating

\* MutateFails, Skip, AddFails, Commit, Reset and Crash: the operation ends.
LEMMA EndKeeps ==
  ASSUME A!IInv, work' \in [Files -> A!Versions], index' \in [Files -> A!Versions],
         head' \in [Files -> A!Versions], auto' = auto, pc' \in {"idle", "dead"},
         context' = A!NoContext, before' = A!NoBefore
  PROVE  A!IInv'
BY NoBeforeType DEF A!IInv, A!TypeOK, A!IndexInv, A!WorkInv, A!CleanInv, A!Operating

LEMMA OperationKeeps ==
  ASSUME A!Assumptions, A!IInv,
         \/ A!Prepare \/ A!Mutate \/ A!MutateFails \/ A!Skip \/ A!Proceed
         \/ A!Add \/ A!AddFails \/ A!Commit \/ A!CommitFails \/ A!Reset
         \/ A!Crash \/ A!Restart
  PROVE  A!IInv'
<1> USE DEF A!Assumptions
<1>0. A!TypeOK BY DEF A!IInv
<1>1. CASE A!Prepare BY <1>1, PrepareKeeps
<1>2. CASE A!Mutate BY <1>2, MutateKeeps
<1>3. CASE A!MutateFails
  <2>1. PICK fs : work' = A!Written(fs, "op") BY <1>3 DEF A!MutateFails
  <2>2. work' \in [Files -> A!Versions] BY <1>0, <2>1, WrittenType
  <2> QED BY <1>0, <1>3, <2>2, EndKeeps DEF A!MutateFails, A!Return, A!TypeOK
<1>4. CASE A!Skip \/ A!AddFails \/ A!Commit \/ A!Crash
  BY <1>0, <1>4, EndKeeps DEF A!Skip, A!AddFails, A!Commit, A!Crash, A!Return, A!TypeOK
<1>5. CASE A!Reset
  <2>1. index' \in [Files -> A!Versions]
    <3>1. CASE UNCHANGED index BY <1>0, <3>1 DEF A!TypeOK
    <3>2. CASE index' = [f \in Files |-> IF f \in A!Pathspecs THEN head[f] ELSE index[f]]
      BY <1>0, <3>2 DEF A!TypeOK
    <3> QED BY <1>5, <3>1, <3>2 DEF A!Reset
  <2> QED BY <1>0, <1>5, <2>1, EndKeeps DEF A!Reset, A!Return, A!TypeOK
<1>6. CASE A!Proceed \/ A!CommitFails \/ A!Restart
  BY <1>6 DEF A!Proceed, A!CommitFails, A!Restart, A!Goto, A!Wanted, A!IInv, A!TypeOK, A!IndexInv, A!WorkInv,
              A!CleanInv, A!Operating
<1>7. CASE A!Add
  <2>1. /\ pc = "add" /\ pc' = "commit" /\ context' = context /\ before' = before
        /\ work' = work /\ head' = head /\ auto' = auto
        /\ index' = [f \in Files |-> IF f \in A!Pathspecs THEN work[f] ELSE index[f]]
    BY <1>7 DEF A!Add, A!Goto
  <2>2. index' \in [Files -> A!Versions] BY <1>0, <2>1 DEF A!TypeOK
  <2>3. A!TypeOK' BY <1>0, <2>1, <2>2 DEF A!TypeOK
  <2>4. A!IndexInv' BY <2>1 DEF A!IInv, A!IndexInv, A!Pathspecs
  <2> QED BY <2>1, <2>3, <2>4 DEF A!IInv, A!WorkInv, A!CleanInv, A!Operating
<1> QED BY <1>1, <1>2, <1>3, <1>4, <1>5, <1>6, <1>7

\* Steps of the user, between operations.
LEMMA UserKeeps ==
  ASSUME A!IInv,
         \/ \E f \in Files : A!UserEdits(f) \/ A!UserStages(f)
         \/ A!UserCommits \/ A!UserTogglesAuto
  PROVE  A!IInv'
<1>1. pc \in {"idle", "dead"} /\ pc' = pc /\ context' = context /\ before' = before
  BY DEF A!UserEdits, A!UserStages, A!UserCommits, A!UserTogglesAuto, A!UserMayAct
<1>2. A!TypeOK BY DEF A!IInv
<1>3. A!TypeOK'
  <2>1. ASSUME NEW f \in Files, A!UserEdits(f) PROVE A!TypeOK'
    <3>1. work' \in [Files -> A!Versions] BY <1>2, <2>1, WrittenType DEF A!UserEdits
    <3> QED BY <1>2, <2>1, <3>1 DEF A!UserEdits, A!TypeOK
  <2>2. ASSUME NEW f \in Files, A!UserStages(f) PROVE A!TypeOK'
    BY <1>2, <2>2 DEF A!UserStages, A!TypeOK
  <2>3. CASE A!UserCommits \/ A!UserTogglesAuto
    BY <1>2, <2>3 DEF A!UserCommits, A!UserTogglesAuto, A!TypeOK
  <2> QED BY <2>1, <2>2, <2>3
<1> QED BY <1>1, <1>3 DEF A!IInv, A!IndexInv, A!WorkInv, A!CleanInv, A!Operating

LEMMA CommitInvariance ==
  ASSUME A!Assumptions PROVE MCSpec => [](part = "commit" => A!IInv)
<1>1. ASSUME MCInit, part = "commit" PROVE A!IInv BY <1>1, CommitInit DEF MCInit
<1>2. ASSUME part = "commit" => A!IInv, [MCNext]_mcVars PROVE (part = "commit" => A!IInv)'
  <2> SUFFICES ASSUME part' = "commit" PROVE A!IInv'
    OBVIOUS
  <2>1. part = "commit" /\ A!IInv BY <1>2 DEF MCNext, mcVars
  <2>2. CASE UNCHANGED mcVars
    BY <2>1, <2>2, StillParts DEF A!IInv, A!TypeOK, A!IndexInv, A!WorkInv, A!CleanInv
  <2>3. CASE A!Next BY <2>1, <2>3, OperationKeeps, UserKeeps DEF A!Next
  <2> QED BY <1>2, <2>1, <2>2, <2>3 DEF MCNext
<1> QED BY <1>1, <1>2, PTL DEF MCSpec

\* The step that ends a commit.
LEMMA CommitStep ==
  ASSUME A!Next, pc = "commit", pc' = "idle" PROVE A!Commit
BY DEF A!Next, A!Prepare, A!Mutate, A!MutateFails, A!Skip, A!Proceed, A!Add, A!AddFails, A!CommitFails,
       A!Reset, A!Crash, A!Restart, A!Goto, A!Return, A!UserEdits, A!UserStages, A!UserCommits,
       A!UserTogglesAuto

LEMMA CommitOfItsWork ==
  ASSUME A!Assumptions, "status" \notin GitFails, Project = Files, A!IInv, A!Next
  PROVE  A!CommitIsOfItsWork
<1> SUFFICES ASSUME pc = "commit", pc' = "idle", NEW f \in Files, head'[f] # head[f]
             PROVE  /\ f \in Backlog \cup Outside
                    /\ head'[f].by = "op" /\ before.work[f] = head[f] /\ before.index[f] = head[f]
  BY DEF A!CommitIsOfItsWork
<1>1. head' = index BY CommitStep DEF A!Commit
<1>2. before.work[f] = head[f] /\ before.index[f] = head[f]
  BY DEF A!IInv, A!TypeOK, A!CleanInv, A!Operating
<1>3. index[f] = IF f \in A!Pathspecs THEN work[f] ELSE before.index[f]
  BY DEF A!IInv, A!IndexInv
<1>4. f \in A!Pathspecs BY <1>1, <1>2, <1>3
<1>5. work[f].by = "op" BY <1>1, <1>2, <1>3, <1>4 DEF A!IInv, A!WorkInv, A!Operating
<1> QED BY <1>1, <1>2, <1>3, <1>4, <1>5 DEF A!Pathspecs

LEMMA CommitOfAllItsWork ==
  ASSUME A!Assumptions, A!IInv, A!Next PROVE A!CommitIsOfAllItsWork
<1> SUFFICES ASSUME pc = "commit", pc' = "idle", head' # head, NEW f \in Backlog \cup Outside
             PROVE  head'[f] = work'[f]
  BY DEF A!CommitIsOfAllItsWork
<1>1. A!Commit BY CommitStep
<1>2. f \in Files /\ f \in A!Pathspecs BY DEF A!Assumptions, A!Pathspecs
<1>3. index[f] = work[f] BY <1>2 DEF A!IInv, A!IndexInv
<1> QED BY <1>1, <1>3 DEF A!Commit

LEMMA IndexComesBack ==
  ASSUME A!Assumptions, "status" \notin GitFails, A!IInv, A!Next PROVE A!RestoresIndex
<1> SUFFICES ASSUME pc \notin {"idle", "dead"}, pc' = "idle"
             PROVE  \/ head' # head
                    \/ index' = before.index
                    \/ pc = "reset" /\ index' = index
  BY DEF A!RestoresIndex
<1>1. A!MutateFails \/ A!Skip \/ A!AddFails \/ A!Commit \/ A!Reset
  BY DEF A!Next, A!Prepare, A!Mutate, A!Proceed, A!Add, A!CommitFails,
         A!Crash, A!Restart, A!Goto, A!UserEdits, A!UserStages, A!UserCommits, A!UserTogglesAuto
<1>2. CASE A!MutateFails \/ A!Skip \/ A!AddFails
  BY <1>2 DEF A!MutateFails, A!Skip, A!AddFails, A!Return, A!IInv, A!IndexInv
<1>3. CASE A!Commit BY <1>3 DEF A!Commit
<1>4. CASE A!Reset
  <2>1. pc = "reset" BY <1>4 DEF A!Reset, A!Return
  <2>2. CASE index' = [f \in Files |-> IF f \in A!Pathspecs THEN head[f] ELSE index[f]]
    <3>1. ASSUME NEW f \in Files PROVE index'[f] = before.index[f]
      <4>1. f \in A!Pathspecs => before.index[f] = head[f]
        BY <2>1 DEF A!IInv, A!TypeOK, A!CleanInv, A!Operating, A!Pathspecs, A!Assumptions
      <4>2. f \notin A!Pathspecs => index[f] = before.index[f]
        BY <2>1 DEF A!IInv, A!IndexInv
      <4> QED BY <2>2, <4>1, <4>2
    <3>2. index' \in [Files -> A!Versions] /\ before.index \in [Files -> A!Versions]
      BY <2>2 DEF A!IInv, A!TypeOK
    <3> QED BY <3>1, <3>2
  <2> QED BY <1>4, <2>1, <2>2 DEF A!Reset
<1> QED BY <1>1, <1>2, <1>3, <1>4

\* Every variable has its type, and git add is reached with a clean tree only.
THEOREM CommitTypeCorrect ==
  ASSUME A!Assumptions PROVE MCSpec => [](part = "commit" => A!TypeOK)
<1>1. (part = "commit" => A!IInv) => (part = "commit" => A!TypeOK) BY DEF A!IInv
<1> QED BY <1>1, CommitInvariance, PTL

\* An automatic commit leaves none of the operation's files dirty, whatever fails.
THEOREM CommitsAreWhole ==
  ASSUME A!Assumptions PROVE MCSpec => [][part = "commit" => A!CommitIsOfAllItsWork]_mcVars
<1>1. ASSUME part = "commit" => A!IInv, MCNext PROVE part = "commit" => A!CommitIsOfAllItsWork
  BY <1>1, CommitOfAllItsWork DEF MCNext
<1> QED BY <1>1, CommitInvariance, PTL DEF MCSpec

\* An operation that ends without a commit leaves the index as it found it, also
\* in files outside the project root, unless git reset fails too.
THEOREM IndexIsRestored ==
  ASSUME A!Assumptions, "status" \notin GitFails
  PROVE  MCSpec => [][part = "commit" => A!RestoresIndex]_mcVars
<1>1. ASSUME part = "commit" => A!IInv, MCNext PROVE part = "commit" => A!RestoresIndex
  BY <1>1, IndexComesBack DEF MCNext
<1> QED BY <1>1, CommitInvariance, PTL DEF MCSpec

\* Both, and when the project is the whole repository a commit holds only what the
\* operation wrote, in files of the backlog that were clean when it began
\* (maybe_auto_commit).  Outside the project root the user may have staged more.
THEOREM CommitsAreOfTheirWork ==
  ASSUME A!Assumptions, "status" \notin GitFails, Project = Files
  PROVE  MCSpec => CommitsItsWork
<1>1. ASSUME part = "commit" => A!IInv, MCNext
      PROVE  part = "commit" =>
               A!CommitIsOfItsWork /\ A!CommitIsOfAllItsWork /\ A!RestoresIndex
  BY <1>1, CommitOfItsWork, CommitOfAllItsWork, IndexComesBack DEF MCNext
<1> QED BY <1>1, CommitInvariance, PTL DEF MCSpec, CommitsItsWork

-----------------------------------------------------------------------------
(* The terminal board: ViewsProofs with the values of its four parts, whose *)
(* definitions are the same when they are expanded.                         *)
U1 == INSTANCE ViewsProofs WITH
        TaskCount <- 2, Creatable <- {}, LastColumn <- 1, Deps <- <<<<>>, <<>>>>, Sources <- {"local"},
        Dialogs <- {"archive"}, Filters <- {}, MaxChanges <- 1, MaxJobs <- 1, MaxJumps <- 0, MaxQueue <- 1

U2 == INSTANCE ViewsProofs WITH
        TaskCount <- 2, Creatable <- {2}, LastColumn <- 2, Deps <- <<<<>>, <<>>>>, Sources <- {"daemon"},
        Dialogs <- {"create"}, Filters <- {}, MaxChanges <- 0, MaxJobs <- 1, MaxJumps <- 0, MaxQueue <- 1

U3 == INSTANCE ViewsProofs WITH
        TaskCount <- 3, Creatable <- {}, LastColumn <- 2, Deps <- <<<<2, 3>>, <<>>, <<>>>>, Sources <- {"local"},
        Dialogs <- {"search"}, Filters <- {0, 1}, MaxChanges <- 1, MaxJobs <- 0, MaxJumps <- 1, MaxQueue <- 1

U4 == INSTANCE ViewsProofs WITH
        TaskCount <- 1, Creatable <- {}, LastColumn <- 2, Deps <- <<<<>>>>, Sources <- {"local"},
        Dialogs <- {"editor", "settings"}, Filters <- {}, MaxChanges <- 1, MaxJobs <- 1, MaxJumps <- 0, MaxQueue <- 1

LEMMA Tui1IsSame ==
  /\ (U1!Y!TuiInit <=> T1!TuiInit)
  /\ (U1!Y!TuiNext <=> T1!TuiNext)
<1>1. U1!Y!TuiInit <=> T1!TuiInit
  BY DEF T1!Tasks, U1!Y!Tasks, T1!None, U1!Y!None, T1!Blank, U1!Y!Blank, T1!NoSnap, U1!Y!NoSnap,
         T1!NoDialog, U1!Y!NoDialog, T1!Nothing, U1!Y!Nothing, T1!Starting, U1!Y!Starting,
         T1!TuiInit, U1!Y!TuiInit
<1>2. U1!Y!JumpBack <=> T1!JumpBack
  BY DEF T1!Tasks, U1!Y!Tasks, T1!None, U1!Y!None, T1!NoSnap, U1!Y!NoSnap, T1!NoDialog,
         U1!Y!NoDialog, T1!Matches, U1!Y!Matches, T1!Visible, U1!Y!Visible, T1!Shown, U1!Y!Shown,
         T1!Where, U1!Y!Where, T1!Busy, U1!Y!Busy, T1!Free, U1!Y!Free, T1!Showing, U1!Y!Showing,
         T1!Unjumped, U1!Y!Unjumped, T1!Select, U1!Y!Select, T1!JumpBack, U1!Y!JumpBack
<1>3. ASSUME NEW kind PROVE U1!Y!Jump(kind) <=> T1!Jump(kind)
  BY DEF T1!Tasks, U1!Y!Tasks, T1!None, U1!Y!None, T1!NoSnap, U1!Y!NoSnap, T1!NoDialog,
         U1!Y!NoDialog, T1!Matches, U1!Y!Matches, T1!Visible, U1!Y!Visible, T1!Shown, U1!Y!Shown,
         T1!Where, U1!Y!Where, T1!Selected, U1!Y!Selected, T1!Busy, U1!Y!Busy, T1!Free, U1!Y!Free,
         T1!Showing, U1!Y!Showing, T1!Select, U1!Y!Select, T1!RangeOf, U1!Y!RangeOf, T1!InOrder,
         U1!Y!InOrder, T1!After, U1!Y!After, T1!Record, U1!Y!Record, T1!Ahead, U1!Y!Ahead,
         T1!Jump, U1!Y!Jump
<1>4. U1!Y!Jumps <=> T1!Jumps
  BY <1>2, <1>3 DEF T1!Jumps, U1!Y!Jumps
<1>5. U1!Y!TuiNext <=> T1!TuiNext
  BY <1>4 DEF T1!Tasks, U1!Y!Tasks, T1!Columns, U1!Y!Columns, T1!None, U1!Y!None, T1!Blank, U1!Y!Blank,
         T1!NoSnap, U1!Y!NoSnap, T1!NoLoad, U1!Y!NoLoad, T1!NoDialog, U1!Y!NoDialog, T1!Nothing,
         U1!Y!Nothing, T1!Matches, U1!Y!Matches, T1!Visible, U1!Y!Visible, T1!Shown, U1!Y!Shown,
         T1!Clamp, U1!Y!Clamp, T1!At, U1!Y!At, T1!Where, U1!Y!Where, T1!NextFull, U1!Y!NextFull,
         T1!SelectAfterRefresh, U1!Y!SelectAfterRefresh, T1!Selected, U1!Y!Selected, T1!Ask,
         U1!Y!Ask, T1!Busy, U1!Y!Busy, T1!Cancelled, U1!Y!Cancelled, T1!Free, U1!Y!Free,
         T1!Starting, U1!Y!Starting, T1!Refresh, U1!Y!Refresh, T1!Post, U1!Y!Post, T1!Change,
         U1!Y!Change, T1!Tick, U1!Y!Tick, T1!LoadColumns, U1!Y!LoadColumns, T1!LoadView,
         U1!Y!LoadView, T1!LoadFails, U1!Y!LoadFails, T1!Carry, U1!Y!Carry, T1!End, U1!Y!End,
         T1!Apply, U1!Y!Apply, T1!Handle, U1!Y!Handle, T1!Showing, U1!Y!Showing, T1!Unjumped,
         U1!Y!Unjumped, T1!Select, U1!Y!Select, T1!MoveColumns, U1!Y!MoveColumns, T1!MoveRows,
         U1!Y!MoveRows, T1!SelectTask, U1!Y!SelectTask, T1!SetFilters, U1!Y!SetFilters,
         T1!MoveSelected, U1!Y!MoveSelected, T1!OpenDialog, U1!Y!OpenDialog, T1!Answer,
         U1!Y!Answer, T1!Reselect, U1!Y!Reselect, T1!Closed, U1!Y!Closed, T1!PutOff, U1!Y!PutOff,
         T1!CancelDialog, U1!Y!CancelDialog, T1!SubmitDialog, U1!Y!SubmitDialog, T1!SubmitEditor,
         U1!Y!SubmitEditor, T1!SubmitSearch, U1!Y!SubmitSearch, T1!User, U1!Y!User, T1!Threads,
         U1!Y!Threads, T1!TuiNext, U1!Y!TuiNext
<1> QED BY <1>1, <1>5

LEMMA Tui2IsSame ==
  /\ (U2!Y!TuiInit <=> T2!TuiInit)
  /\ (U2!Y!TuiNext <=> T2!TuiNext)
<1>1. U2!Y!TuiInit <=> T2!TuiInit
  BY DEF T2!Tasks, U2!Y!Tasks, T2!None, U2!Y!None, T2!Blank, U2!Y!Blank, T2!NoSnap, U2!Y!NoSnap,
         T2!NoDialog, U2!Y!NoDialog, T2!Nothing, U2!Y!Nothing, T2!Starting, U2!Y!Starting,
         T2!TuiInit, U2!Y!TuiInit
<1>2. U2!Y!JumpBack <=> T2!JumpBack
  BY DEF T2!Tasks, U2!Y!Tasks, T2!None, U2!Y!None, T2!NoSnap, U2!Y!NoSnap, T2!NoDialog,
         U2!Y!NoDialog, T2!Matches, U2!Y!Matches, T2!Visible, U2!Y!Visible, T2!Shown, U2!Y!Shown,
         T2!Where, U2!Y!Where, T2!Busy, U2!Y!Busy, T2!Free, U2!Y!Free, T2!Showing, U2!Y!Showing,
         T2!Unjumped, U2!Y!Unjumped, T2!Select, U2!Y!Select, T2!JumpBack, U2!Y!JumpBack
<1>3. ASSUME NEW kind PROVE U2!Y!Jump(kind) <=> T2!Jump(kind)
  BY DEF T2!Tasks, U2!Y!Tasks, T2!None, U2!Y!None, T2!NoSnap, U2!Y!NoSnap, T2!NoDialog,
         U2!Y!NoDialog, T2!Matches, U2!Y!Matches, T2!Visible, U2!Y!Visible, T2!Shown, U2!Y!Shown,
         T2!Where, U2!Y!Where, T2!Selected, U2!Y!Selected, T2!Busy, U2!Y!Busy, T2!Free, U2!Y!Free,
         T2!Showing, U2!Y!Showing, T2!Select, U2!Y!Select, T2!RangeOf, U2!Y!RangeOf, T2!InOrder,
         U2!Y!InOrder, T2!After, U2!Y!After, T2!Record, U2!Y!Record, T2!Ahead, U2!Y!Ahead,
         T2!Jump, U2!Y!Jump
<1>4. U2!Y!Jumps <=> T2!Jumps
  BY <1>2, <1>3 DEF T2!Jumps, U2!Y!Jumps
<1>5. U2!Y!TuiNext <=> T2!TuiNext
  BY <1>4 DEF T2!Tasks, U2!Y!Tasks, T2!Columns, U2!Y!Columns, T2!None, U2!Y!None, T2!Blank, U2!Y!Blank,
         T2!NoSnap, U2!Y!NoSnap, T2!NoLoad, U2!Y!NoLoad, T2!NoDialog, U2!Y!NoDialog, T2!Nothing,
         U2!Y!Nothing, T2!Matches, U2!Y!Matches, T2!Visible, U2!Y!Visible, T2!Shown, U2!Y!Shown,
         T2!Clamp, U2!Y!Clamp, T2!At, U2!Y!At, T2!Where, U2!Y!Where, T2!NextFull, U2!Y!NextFull,
         T2!SelectAfterRefresh, U2!Y!SelectAfterRefresh, T2!Selected, U2!Y!Selected, T2!Ask,
         U2!Y!Ask, T2!Busy, U2!Y!Busy, T2!Cancelled, U2!Y!Cancelled, T2!Free, U2!Y!Free,
         T2!Starting, U2!Y!Starting, T2!Refresh, U2!Y!Refresh, T2!Post, U2!Y!Post, T2!Change,
         U2!Y!Change, T2!Tick, U2!Y!Tick, T2!LoadColumns, U2!Y!LoadColumns, T2!LoadView,
         U2!Y!LoadView, T2!LoadFails, U2!Y!LoadFails, T2!Carry, U2!Y!Carry, T2!End, U2!Y!End,
         T2!Apply, U2!Y!Apply, T2!Handle, U2!Y!Handle, T2!Showing, U2!Y!Showing, T2!Unjumped,
         U2!Y!Unjumped, T2!Select, U2!Y!Select, T2!MoveColumns, U2!Y!MoveColumns, T2!MoveRows,
         U2!Y!MoveRows, T2!SelectTask, U2!Y!SelectTask, T2!SetFilters, U2!Y!SetFilters,
         T2!MoveSelected, U2!Y!MoveSelected, T2!OpenDialog, U2!Y!OpenDialog, T2!Answer,
         U2!Y!Answer, T2!Reselect, U2!Y!Reselect, T2!Closed, U2!Y!Closed, T2!PutOff, U2!Y!PutOff,
         T2!CancelDialog, U2!Y!CancelDialog, T2!SubmitDialog, U2!Y!SubmitDialog, T2!SubmitEditor,
         U2!Y!SubmitEditor, T2!SubmitSearch, U2!Y!SubmitSearch, T2!User, U2!Y!User, T2!Threads,
         U2!Y!Threads, T2!TuiNext, U2!Y!TuiNext
<1> QED BY <1>1, <1>5

LEMMA Tui3IsSame ==
  /\ (U3!Y!TuiInit <=> T3!TuiInit)
  /\ (U3!Y!TuiNext <=> T3!TuiNext)
<1>1. U3!Y!TuiInit <=> T3!TuiInit
  BY DEF T3!Tasks, U3!Y!Tasks, T3!None, U3!Y!None, T3!Blank, U3!Y!Blank, T3!NoSnap, U3!Y!NoSnap,
         T3!NoDialog, U3!Y!NoDialog, T3!Nothing, U3!Y!Nothing, T3!Starting, U3!Y!Starting,
         T3!TuiInit, U3!Y!TuiInit
<1>2. U3!Y!JumpBack <=> T3!JumpBack
  BY DEF T3!Tasks, U3!Y!Tasks, T3!None, U3!Y!None, T3!NoSnap, U3!Y!NoSnap, T3!NoDialog,
         U3!Y!NoDialog, T3!Matches, U3!Y!Matches, T3!Visible, U3!Y!Visible, T3!Shown, U3!Y!Shown,
         T3!Where, U3!Y!Where, T3!Busy, U3!Y!Busy, T3!Free, U3!Y!Free, T3!Showing, U3!Y!Showing,
         T3!Unjumped, U3!Y!Unjumped, T3!Select, U3!Y!Select, T3!JumpBack, U3!Y!JumpBack
<1>3. ASSUME NEW kind PROVE U3!Y!Jump(kind) <=> T3!Jump(kind)
  BY DEF T3!Tasks, U3!Y!Tasks, T3!None, U3!Y!None, T3!NoSnap, U3!Y!NoSnap, T3!NoDialog,
         U3!Y!NoDialog, T3!Matches, U3!Y!Matches, T3!Visible, U3!Y!Visible, T3!Shown, U3!Y!Shown,
         T3!Where, U3!Y!Where, T3!Selected, U3!Y!Selected, T3!Busy, U3!Y!Busy, T3!Free, U3!Y!Free,
         T3!Showing, U3!Y!Showing, T3!Select, U3!Y!Select, T3!RangeOf, U3!Y!RangeOf, T3!InOrder,
         U3!Y!InOrder, T3!After, U3!Y!After, T3!Record, U3!Y!Record, T3!Ahead, U3!Y!Ahead,
         T3!Jump, U3!Y!Jump
<1>4. U3!Y!Jumps <=> T3!Jumps
  BY <1>2, <1>3 DEF T3!Jumps, U3!Y!Jumps
<1>5. U3!Y!TuiNext <=> T3!TuiNext
  BY <1>4 DEF T3!Tasks, U3!Y!Tasks, T3!Columns, U3!Y!Columns, T3!None, U3!Y!None, T3!Blank, U3!Y!Blank,
         T3!NoSnap, U3!Y!NoSnap, T3!NoLoad, U3!Y!NoLoad, T3!NoDialog, U3!Y!NoDialog, T3!Nothing,
         U3!Y!Nothing, T3!Matches, U3!Y!Matches, T3!Visible, U3!Y!Visible, T3!Shown, U3!Y!Shown,
         T3!Clamp, U3!Y!Clamp, T3!At, U3!Y!At, T3!Where, U3!Y!Where, T3!NextFull, U3!Y!NextFull,
         T3!SelectAfterRefresh, U3!Y!SelectAfterRefresh, T3!Selected, U3!Y!Selected, T3!Ask,
         U3!Y!Ask, T3!Busy, U3!Y!Busy, T3!Cancelled, U3!Y!Cancelled, T3!Free, U3!Y!Free,
         T3!Starting, U3!Y!Starting, T3!Refresh, U3!Y!Refresh, T3!Post, U3!Y!Post, T3!Change,
         U3!Y!Change, T3!Tick, U3!Y!Tick, T3!LoadColumns, U3!Y!LoadColumns, T3!LoadView,
         U3!Y!LoadView, T3!LoadFails, U3!Y!LoadFails, T3!Carry, U3!Y!Carry, T3!End, U3!Y!End,
         T3!Apply, U3!Y!Apply, T3!Handle, U3!Y!Handle, T3!Showing, U3!Y!Showing, T3!Unjumped,
         U3!Y!Unjumped, T3!Select, U3!Y!Select, T3!MoveColumns, U3!Y!MoveColumns, T3!MoveRows,
         U3!Y!MoveRows, T3!SelectTask, U3!Y!SelectTask, T3!SetFilters, U3!Y!SetFilters,
         T3!MoveSelected, U3!Y!MoveSelected, T3!OpenDialog, U3!Y!OpenDialog, T3!Answer,
         U3!Y!Answer, T3!Reselect, U3!Y!Reselect, T3!Closed, U3!Y!Closed, T3!PutOff, U3!Y!PutOff,
         T3!CancelDialog, U3!Y!CancelDialog, T3!SubmitDialog, U3!Y!SubmitDialog, T3!SubmitEditor,
         U3!Y!SubmitEditor, T3!SubmitSearch, U3!Y!SubmitSearch, T3!User, U3!Y!User, T3!Threads,
         U3!Y!Threads, T3!TuiNext, U3!Y!TuiNext
<1> QED BY <1>1, <1>5

LEMMA Tui4IsSame ==
  /\ (U4!Y!TuiInit <=> T4!TuiInit)
  /\ (U4!Y!TuiNext <=> T4!TuiNext)
<1>1. U4!Y!TuiInit <=> T4!TuiInit
  BY DEF T4!Tasks, U4!Y!Tasks, T4!None, U4!Y!None, T4!Blank, U4!Y!Blank, T4!NoSnap, U4!Y!NoSnap,
         T4!NoDialog, U4!Y!NoDialog, T4!Nothing, U4!Y!Nothing, T4!Starting, U4!Y!Starting,
         T4!TuiInit, U4!Y!TuiInit
<1>2. U4!Y!JumpBack <=> T4!JumpBack
  BY DEF T4!Tasks, U4!Y!Tasks, T4!None, U4!Y!None, T4!NoSnap, U4!Y!NoSnap, T4!NoDialog,
         U4!Y!NoDialog, T4!Matches, U4!Y!Matches, T4!Visible, U4!Y!Visible, T4!Shown, U4!Y!Shown,
         T4!Where, U4!Y!Where, T4!Busy, U4!Y!Busy, T4!Free, U4!Y!Free, T4!Showing, U4!Y!Showing,
         T4!Unjumped, U4!Y!Unjumped, T4!Select, U4!Y!Select, T4!JumpBack, U4!Y!JumpBack
<1>3. ASSUME NEW kind PROVE U4!Y!Jump(kind) <=> T4!Jump(kind)
  BY DEF T4!Tasks, U4!Y!Tasks, T4!None, U4!Y!None, T4!NoSnap, U4!Y!NoSnap, T4!NoDialog,
         U4!Y!NoDialog, T4!Matches, U4!Y!Matches, T4!Visible, U4!Y!Visible, T4!Shown, U4!Y!Shown,
         T4!Where, U4!Y!Where, T4!Selected, U4!Y!Selected, T4!Busy, U4!Y!Busy, T4!Free, U4!Y!Free,
         T4!Showing, U4!Y!Showing, T4!Select, U4!Y!Select, T4!RangeOf, U4!Y!RangeOf, T4!InOrder,
         U4!Y!InOrder, T4!After, U4!Y!After, T4!Record, U4!Y!Record, T4!Ahead, U4!Y!Ahead,
         T4!Jump, U4!Y!Jump
<1>4. U4!Y!Jumps <=> T4!Jumps
  BY <1>2, <1>3 DEF T4!Jumps, U4!Y!Jumps
<1>5. U4!Y!TuiNext <=> T4!TuiNext
  BY <1>4 DEF T4!Tasks, U4!Y!Tasks, T4!Columns, U4!Y!Columns, T4!None, U4!Y!None, T4!Blank, U4!Y!Blank,
         T4!NoSnap, U4!Y!NoSnap, T4!NoLoad, U4!Y!NoLoad, T4!NoDialog, U4!Y!NoDialog, T4!Nothing,
         U4!Y!Nothing, T4!Matches, U4!Y!Matches, T4!Visible, U4!Y!Visible, T4!Shown, U4!Y!Shown,
         T4!Clamp, U4!Y!Clamp, T4!At, U4!Y!At, T4!Where, U4!Y!Where, T4!NextFull, U4!Y!NextFull,
         T4!SelectAfterRefresh, U4!Y!SelectAfterRefresh, T4!Selected, U4!Y!Selected, T4!Ask,
         U4!Y!Ask, T4!Busy, U4!Y!Busy, T4!Cancelled, U4!Y!Cancelled, T4!Free, U4!Y!Free,
         T4!Starting, U4!Y!Starting, T4!Refresh, U4!Y!Refresh, T4!Post, U4!Y!Post, T4!Change,
         U4!Y!Change, T4!Tick, U4!Y!Tick, T4!LoadColumns, U4!Y!LoadColumns, T4!LoadView,
         U4!Y!LoadView, T4!LoadFails, U4!Y!LoadFails, T4!Carry, U4!Y!Carry, T4!End, U4!Y!End,
         T4!Apply, U4!Y!Apply, T4!Handle, U4!Y!Handle, T4!Showing, U4!Y!Showing, T4!Unjumped,
         U4!Y!Unjumped, T4!Select, U4!Y!Select, T4!MoveColumns, U4!Y!MoveColumns, T4!MoveRows,
         U4!Y!MoveRows, T4!SelectTask, U4!Y!SelectTask, T4!SetFilters, U4!Y!SetFilters,
         T4!MoveSelected, U4!Y!MoveSelected, T4!OpenDialog, U4!Y!OpenDialog, T4!Answer,
         U4!Y!Answer, T4!Reselect, U4!Y!Reselect, T4!Closed, U4!Y!Closed, T4!PutOff, U4!Y!PutOff,
         T4!CancelDialog, U4!Y!CancelDialog, T4!SubmitDialog, U4!Y!SubmitDialog, T4!SubmitEditor,
         U4!Y!SubmitEditor, T4!SubmitSearch, U4!Y!SubmitSearch, T4!User, U4!Y!User, T4!Threads,
         U4!Y!Threads, T4!TuiNext, U4!Y!TuiNext
<1> QED BY <1>1, <1>5

LEMMA Tui1Part == MCSpec /\ part = "tui1" => U1!Y!TuiSpec
<1>1. MCInit /\ part = "tui1" => U1!Y!TuiInit BY Tui1IsSame DEF MCInit
<1>2. part = "tui1" /\ [MCNext]_mcVars => (part = "tui1")' /\ [U1!Y!TuiNext]_U1!Y!tuiVars
  <2>1. part = "tui1" /\ MCNext => part' = part /\ T1!TuiNext BY DEF MCNext
  <2>2. UNCHANGED mcVars => part' = part /\ UNCHANGED U1!Y!tuiVars
    BY DEF mcVars, From5, From6, U1!Y!tuiVars
  <2> QED BY <2>1, <2>2, Tui1IsSame
<1> QED BY <1>1, <1>2, PTL DEF MCSpec, U1!Y!TuiSpec

LEMMA Tui2Part == MCSpec /\ part = "tui2" => U2!Y!TuiSpec
<1>1. MCInit /\ part = "tui2" => U2!Y!TuiInit BY Tui2IsSame DEF MCInit
<1>2. part = "tui2" /\ [MCNext]_mcVars => (part = "tui2")' /\ [U2!Y!TuiNext]_U2!Y!tuiVars
  <2>1. part = "tui2" /\ MCNext => part' = part /\ T2!TuiNext BY DEF MCNext
  <2>2. UNCHANGED mcVars => part' = part /\ UNCHANGED U2!Y!tuiVars
    BY DEF mcVars, From5, From6, U2!Y!tuiVars
  <2> QED BY <2>1, <2>2, Tui2IsSame
<1> QED BY <1>1, <1>2, PTL DEF MCSpec, U2!Y!TuiSpec

LEMMA Tui3Part == MCSpec /\ part = "tui3" => U3!Y!TuiSpec
<1>1. MCInit /\ part = "tui3" => U3!Y!TuiInit BY Tui3IsSame DEF MCInit
<1>2. part = "tui3" /\ [MCNext]_mcVars => (part = "tui3")' /\ [U3!Y!TuiNext]_U3!Y!tuiVars
  <2>1. part = "tui3" /\ MCNext => part' = part /\ T3!TuiNext BY DEF MCNext
  <2>2. UNCHANGED mcVars => part' = part /\ UNCHANGED U3!Y!tuiVars
    BY DEF mcVars, From5, From6, U3!Y!tuiVars
  <2> QED BY <2>1, <2>2, Tui3IsSame
<1> QED BY <1>1, <1>2, PTL DEF MCSpec, U3!Y!TuiSpec

LEMMA Tui4Part == MCSpec /\ part = "tui4" => U4!Y!TuiSpec
<1>1. MCInit /\ part = "tui4" => U4!Y!TuiInit BY Tui4IsSame DEF MCInit
<1>2. part = "tui4" /\ [MCNext]_mcVars => (part = "tui4")' /\ [U4!Y!TuiNext]_U4!Y!tuiVars
  <2>1. part = "tui4" /\ MCNext => part' = part /\ T4!TuiNext BY DEF MCNext
  <2>2. UNCHANGED mcVars => part' = part /\ UNCHANGED U4!Y!tuiVars
    BY DEF mcVars, From5, From6, U4!Y!tuiVars
  <2> QED BY <2>1, <2>2, Tui4IsSame
<1> QED BY <1>1, <1>2, PTL DEF MCSpec, U4!Y!TuiSpec

\* What the user asks for is carried out at most once, once if it is reported done,
\* and the daemon is left only when a load has failed (tui/app.py).
THEOREM TuiIsTrue == MCSpec => TuiWrites
<1> DEFINE Step == part \in {"tui1", "tui2", "tui3", "tui4"} => T1!CarriedOutOnce' /\ T1!LeavesSource
<1>1. U1!Y!TuiSpec => [][U1!Y!CarriedOutOnce' /\ U1!Y!LeavesSource]_U1!Y!tuiVars
  BY U1!AskedOnceIsDoneOnce, FilesAssumption DEF T1!TuiAssumption, U1!Y!TuiAssumption, U1!Y!TuiWrites
<1>2. U2!Y!TuiSpec => [][U2!Y!CarriedOutOnce' /\ U2!Y!LeavesSource]_U2!Y!tuiVars
  BY U2!AskedOnceIsDoneOnce, FilesAssumption DEF T2!TuiAssumption, U2!Y!TuiAssumption, U2!Y!TuiWrites
<1>3. U3!Y!TuiSpec => [][U3!Y!CarriedOutOnce' /\ U3!Y!LeavesSource]_U3!Y!tuiVars
  BY U3!AskedOnceIsDoneOnce, FilesAssumption DEF T3!TuiAssumption, U3!Y!TuiAssumption, U3!Y!TuiWrites
<1>4. U4!Y!TuiSpec => [][U4!Y!CarriedOutOnce' /\ U4!Y!LeavesSource]_U4!Y!tuiVars
  BY U4!AskedOnceIsDoneOnce, FilesAssumption DEF T4!TuiAssumption, U4!Y!TuiAssumption, U4!Y!TuiWrites
<1>5. ASSUME part = "tui1", [MCNext]_mcVars, [U1!Y!CarriedOutOnce' /\ U1!Y!LeavesSource]_U1!Y!tuiVars
      PROVE  [Step]_mcVars
  BY <1>5 DEF MCNext, mcVars, From5, From6, From9, U1!Y!tuiVars, T1!CarriedOutOnce, T1!LeavesSource,
                U1!Y!CarriedOutOnce, U1!Y!LeavesSource
<1>6. ASSUME part = "tui2", [MCNext]_mcVars, [U2!Y!CarriedOutOnce' /\ U2!Y!LeavesSource]_U2!Y!tuiVars
      PROVE  [Step]_mcVars
  BY <1>6 DEF MCNext, mcVars, From5, From6, From9, U2!Y!tuiVars, T1!CarriedOutOnce, T1!LeavesSource,
                U2!Y!CarriedOutOnce, U2!Y!LeavesSource
<1>7. ASSUME part = "tui3", [MCNext]_mcVars, [U3!Y!CarriedOutOnce' /\ U3!Y!LeavesSource]_U3!Y!tuiVars
      PROVE  [Step]_mcVars
  BY <1>7 DEF MCNext, mcVars, From5, From6, From9, U3!Y!tuiVars, T1!CarriedOutOnce, T1!LeavesSource,
                U3!Y!CarriedOutOnce, U3!Y!LeavesSource
<1>8. ASSUME part = "tui4", [MCNext]_mcVars, [U4!Y!CarriedOutOnce' /\ U4!Y!LeavesSource]_U4!Y!tuiVars
      PROVE  [Step]_mcVars
  BY <1>8 DEF MCNext, mcVars, From5, From6, From9, U4!Y!tuiVars, T1!CarriedOutOnce, T1!LeavesSource,
                U4!Y!CarriedOutOnce, U4!Y!LeavesSource
<1>9. [MCNext]_mcVars => (part = "tui1" <=> (part = "tui1")') BY DEF MCNext, mcVars
<1>10. [MCNext]_mcVars => (part = "tui2" <=> (part = "tui2")') BY DEF MCNext, mcVars
<1>11. [MCNext]_mcVars => (part = "tui3" <=> (part = "tui3")') BY DEF MCNext, mcVars
<1>12. [MCNext]_mcVars => (part = "tui4" <=> (part = "tui4")') BY DEF MCNext, mcVars
<1>13. ~(part = "tui1") /\ ~(part = "tui2") /\ ~(part = "tui3") /\ ~(part = "tui4") => [Step]_mcVars OBVIOUS
<1> HIDE DEF Step
<1>14. MCSpec => [][Step]_mcVars
  BY <1>1, <1>2, <1>3, <1>4, <1>5, <1>6, <1>7, <1>8, <1>9, <1>10, <1>11, <1>12, <1>13,
     Tui1Part, Tui2Part, Tui3Part, Tui4Part, PTL DEF MCSpec
<1> QED BY <1>14 DEF Step, TuiWrites
=============================================================================
