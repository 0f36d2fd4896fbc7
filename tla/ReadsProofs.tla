---------------------------- MODULE ReadsProofs ----------------------------
(***************************************************************************)
(* Proofs about ReadIndex: whatever the files, the processes, the inodes   *)
(* of the database, the tick and the window, and however others write,     *)
(* publish, discard and break the database, a load returns nothing older   *)
(* than itself, but for the cases IndexAnswerIsRecent names.               *)
(*                                                                         *)
(* No transaction is open from the fingerprint of a load to its answer, so *)
(* what it finds in the database may have been published meanwhile, from   *)
(* rows that were read before it began.  The inductive invariant IInv is   *)
(* therefore about every pair of a signature and a row that is Described:  *)
(* published, or about to be.  PairsOK: each is ScanOK, as in              *)
(* WatchedFilesProofs.  SignsOK: a load that has signed a file may answer  *)
(* every row that is described by the same signature.  A step adds no pair *)
(* but of a row that is the file's content at that moment (StepKeeps).     *)
(* Both need that a rebuild reads the files after its fingerprint, which a *)
(* second one in the same load does not: ~reused.                          *)
(*                                                                         *)
(* The properties that the run of MCReads checks of its six parts follow   *)
(* from this and from the theorems of ViewsProofs, which are about any     *)
(* values of the constants: a part is an instance of its component.        *)
(***************************************************************************)
EXTENDS MCReads, WatchedFilesProofs

\* Those of Tui, which is no part of MCReads and which ViewsProofs is about too.
CONSTANTS TaskCount, Creatable, LastColumn, Deps, Sources, Dialogs, Filters,
          MaxJobs, MaxJumps, MaxQueue

-----------------------------------------------------------------------------
(* The invariant. *)

LoadSet == [pc : {"idle", "open", "sign", "rebuild", "publish", "markdown", "answer"},
            start : Nat, now : Nat, handle : Inodes \cup {NoInode},
            sig : Partial(Signatures), fp : Partial(Signatures), rows : Partial(Contents),
            rebuilds : 0..MaxRebuilds, retried : BOOLEAN]

Published == [fp : Fingerprints, rows : Rows]

Shape ==
  /\ path \in Inodes \cup {NoInode}
  /\ db \in [Inodes -> Published \cup {Empty, Broken}]
  /\ load \in [Loaders -> LoadSet]
  /\ reused \in BOOLEAN

\* The rows of l are being rebuilt, or will be published.
Pending(l) == l.pc \in {"rebuild", "publish"} \/ (l.pc = "sign" /\ l.rebuilds > 0)

\* What a load holds, reused or not.
Holds(l) ==
  /\ l.pc \in {"sign", "rebuild", "publish"} => l.handle \in Inodes
  /\ l.rebuilds > 0 => All(l.rows) /\ All(l.fp)
  /\ l.pc = "open" => l.rebuilds = 0
  /\ l.pc = "rebuild" => All(l.fp) /\ l.rebuilds < MaxRebuilds
  /\ l.pc = "publish" => l.rebuilds > 0
  /\ l.pc = "answer" => All(l.rows)
  /\ l.pc \in {"open", "sign"} => DOMAIN l.rows = {} \/ All(l.rows)
  /\ l.start <= clock
  /\ l.pc = "sign" => l.start <= l.now /\ l.now <= clock /\ clock < l.now + Window

\* s and d are the signature and the row of f, in a database or in a rebuild.
Described(f, s, d) ==
  \/ \E i \in Inodes : db[i] \notin {Empty, Broken} /\ s = db[i].fp[f] /\ d = db[i].rows[f]
  \/ \E q \in Loaders : /\ Pending(load[q]) /\ f \in DOMAIN load[q].rows
                        /\ s = load[q].fp[f] /\ d = load[q].rows[f]

PairsOK ==
  \A f \in Files, s \in Signatures, d \in Contents :
    Described(f, s, d) => SigOK(f, s) /\ ScanOK(f, s, d)

SignsOK(l) ==
  l.pc = "sign" => \A f \in DOMAIN l.sig, d \in Contents :
    Described(f, l.sig[f], d) => MayAnswer(f, l.sig[f], d, l.start)

\* d may be returned of f: by the fingerprint, or as it was just read.
MayReturn(l, f, d) ==
  Recent(f, d, l.start) \/ (f \in DOMAIN l.fp /\ MayAnswer(f, l.fp[f], d, l.start))

ReadsOK(l) ==
  /\ \A f \in DOMAIN l.sig : SigOK(f, l.sig[f])
  /\ \A f \in DOMAIN l.fp : SigOK(f, l.fp[f])
  /\ l.pc # "answer" => \A f \in DOMAIN l.rows : HadSince(f, l.rows[f], l.start)
  /\ l.pc = "answer" => \A f \in Files : MayReturn(l, f, l.rows[f])

IInv ==
  /\ FilesInv /\ Shape
  /\ \A p \in Loaders : Holds(load[p])
  /\ ~reused => PairsOK /\ \A p \in Loaders : ReadsOK(load[p]) /\ SignsOK(load[p])

-----------------------------------------------------------------------------
(* Records and their parts. *)

LEMMA LoadParts ==
  ASSUME NEW l \in LoadSet
  PROVE  /\ l.start \in Nat /\ l.now \in Nat /\ l.handle \in Inodes \cup {NoInode}
         /\ l.sig \in Partial(Signatures) /\ l.fp \in Partial(Signatures)
         /\ l.rows \in Partial(Contents) /\ l.rebuilds \in 0..MaxRebuilds
         /\ DOMAIN l.sig \subseteq Files /\ DOMAIN l.fp \subseteq Files
         /\ DOMAIN l.rows \subseteq Files
         /\ \A f \in DOMAIN l.sig : l.sig[f] \in Signatures
         /\ \A f \in DOMAIN l.fp : l.fp[f] \in Signatures
         /\ \A f \in DOMAIN l.rows : l.rows[f] \in Contents
<1>1. /\ l.sig \in Partial(Signatures) /\ l.fp \in Partial(Signatures)
      /\ l.rows \in Partial(Contents)
  BY DEF LoadSet
<1> QED BY <1>1, PartialIs DEF LoadSet

LEMMA DatabaseParts ==
  ASSUME Shape, NEW i \in Inodes, db[i] \notin {Empty, Broken}
  PROVE  /\ db[i].fp \in [Files -> Signatures] /\ db[i].rows \in [Files -> Contents]
         /\ db[i].rows \in Partial(Contents)
<1>1. db[i] \in Published BY DEF Shape
<1>2. db[i].fp \in [Files -> Signatures] /\ db[i].rows \in [Files -> Contents]
  BY <1>1 DEF Published, Fingerprints, Rows
<1>3. Files \in SUBSET Files OBVIOUS
<1> QED BY <1>2, <1>3 DEF Partial

LEMMA AllIsTotal ==
  ASSUME NEW S, NEW p \in Partial(S), All(p) PROVE p \in [Files -> S]
BY DEF Partial, All

\* A load of which nothing is known but when it began and what it has read.
LEMMA FreshLoad ==
  ASSUME IndexAssumption
  PROVE  /\ NoLoad \in LoadSet
         /\ NoLoad.pc = "idle" /\ NoLoad.start = 0 /\ NoLoad.sig = None /\ NoLoad.fp = None
         /\ NoLoad.rows = None /\ NoLoad.rebuilds = 0
         /\ DOMAIN None = {} /\ None \in Partial(Signatures) /\ None \in Partial(Contents)
<1>1. None \in Partial(Signatures) /\ None \in Partial(Contents) /\ DOMAIN None = {}
  BY NoneIsPartial
<1>2. 0 \in 0..MaxRebuilds BY DEF IndexAssumption
<1> QED BY <1>1, <1>2 DEF NoLoad, LoadSet

-----------------------------------------------------------------------------
(* What a step of the processes must show: the loads it changes are in order, *)
(* and a pair is described that was before, or is of the content that a file  *)
(* has now.                                                                   *)

LEMMA StepKeeps ==
  ASSUME IndexAssumption, IInv, UNCHANGED fileVars, Shape', reused => reused',
         \A p \in Loaders : load'[p] = load[p] \/
           (Holds(load'[p]) /\ (~reused' => ReadsOK(load'[p]) /\ SignsOK(load'[p]))),
         ~reused' => \A f \in Files, s \in Signatures, d \in Contents :
           Described(f, s, d)' => Described(f, s, d) \/ (SigOK(f, s) /\ d = file[f].data)
  PROVE  IInv'
<1>1. FilesInv' /\ clock' = clock BY StillFiles DEF IInv
<1>2. \A l : Holds(l)' <=> Holds(l) BY <1>1 DEF Holds
<1>3. ASSUME NEW p \in Loaders PROVE Holds(load[p])'
  <2>1. PICK l : l = load'[p] OBVIOUS
  <2>2. Holds(l) BY <2>1 DEF IInv
  <2>3. Holds(l)' BY <1>2, <2>2
  <2> QED BY <2>1, <2>3 DEF Holds
<1>4. ASSUME ~reused' PROVE PairsOK' /\ \A p \in Loaders : ReadsOK(load[p])' /\ SignsOK(load[p])'
  <2>1. ~reused /\ PairsOK BY <1>4 DEF IInv, Shape
  <2>2. ASSUME NEW f \in Files, NEW s \in Signatures, NEW d \in Contents, Described(f, s, d)'
        PROVE  /\ SigOK(f, s) /\ ScanOK(f, s, d)
               /\ Described(f, s, d) \/ \A t : MayAnswer(f, s, d, t)
    <3>1. CASE Described(f, s, d) BY <2>1, <3>1 DEF PairsOK
    <3>2. CASE SigOK(f, s) /\ d = file[f].data
      BY <3>2 DEF ScanOK, MayAnswer, Recent, HadSince
    <3> QED BY <1>4, <2>2, <3>1, <3>2
  <2>3. PairsOK'
    <3>1. SUFFICES ASSUME NEW f \in Files, NEW s \in Signatures, NEW d \in Contents,
                          Described(f, s, d)'
                   PROVE  SigOK(f, s)' /\ ScanOK(f, s, d)'
      BY DEF PairsOK, Signatures, Contents
    <3> QED BY <2>2, <3>1, StillFiles DEF IInv
  <2>4. ASSUME NEW p \in Loaders PROVE ReadsOK(load[p])' /\ SignsOK(load[p])'
    <3>1. PICK l \in LoadSet : l = load'[p] BY DEF Shape
    <3>2. ReadsOK(l) /\ SignsOK(l) BY <1>4, <2>1, <3>1 DEF IInv
    <3>3. ReadsOK(l)'
      BY <3>2, StillFiles DEF ReadsOK, MayReturn, IInv
    <3>4. ASSUME l.pc = "sign", NEW f \in DOMAIN l.sig, NEW d \in Contents,
                 Described(f, l.sig[f], d)'
          PROVE  MayAnswer(f, l.sig[f], d, l.start)'
      <4>1. PICK s \in Signatures : s = l.sig[f] BY LoadParts
      <4>2. f \in Files BY LoadParts
      <4>3. Described(f, s, d) \/ MayAnswer(f, s, d, l.start) BY <2>2, <3>4, <4>1, <4>2
      <4>4. MayAnswer(f, s, d, l.start) BY <3>2, <3>4, <4>1, <4>3 DEF SignsOK
      <4> QED BY <4>1, <4>4, StillFiles DEF IInv
    <3>5. SignsOK(l)' BY <3>4 DEF SignsOK
    <3> QED BY <3>1, <3>3, <3>5 DEF ReadsOK, SignsOK, MayReturn, Described
  <2> QED BY <2>3, <2>4
<1> QED BY <1>1, <1>3, <1>4 DEF IInv

\* The same, for a step of one load that keeps the database.
LEMMA LoadKeeps ==
  ASSUME IndexAssumption, IInv, UNCHANGED fileVars, NEW p \in Loaders, NEW n \in LoadSet,
         load' = [load EXCEPT ![p] = n], db' = db,
         path' \in Inodes \cup {NoInode}, reused' \in BOOLEAN, reused => reused',
         Holds(n), ~reused' => ReadsOK(n) /\ SignsOK(n),
         ~reused' /\ Pending(n) => \A f \in DOMAIN n.rows :
           \/ /\ Pending(load[p]) /\ f \in DOMAIN load[p].rows
              /\ n.fp[f] = load[p].fp[f] /\ n.rows[f] = load[p].rows[f]
           \/ SigOK(f, n.fp[f]) /\ n.rows[f] = file[f].data
  PROVE  IInv'
<1>1. load \in [Loaders -> LoadSet] /\ Shape' BY DEF IInv, Shape
<1>2. \A q \in Loaders : load'[q] = IF q = p THEN n ELSE load[q] BY <1>1
<1>3. ASSUME ~reused', NEW f \in Files, NEW s \in Signatures, NEW d \in Contents,
             Described(f, s, d)'
      PROVE  Described(f, s, d) \/ (SigOK(f, s) /\ d = file[f].data)
  <2>1. CASE \E i \in Inodes : db[i] \notin {Empty, Broken} /\ s = db[i].fp[f] /\ d = db[i].rows[f]
    BY <2>1 DEF Described
  <2>2. CASE \E q \in Loaders : /\ Pending(load'[q]) /\ f \in DOMAIN load'[q].rows
                                /\ s = load'[q].fp[f] /\ d = load'[q].rows[f]
    <3>1. PICK q \in Loaders : /\ Pending(load'[q]) /\ f \in DOMAIN load'[q].rows
                               /\ s = load'[q].fp[f] /\ d = load'[q].rows[f]
      BY <2>2
    <3>2. CASE q # p BY <3>1, <3>2, <1>2 DEF Described
    <3>3. CASE q = p
      <4>1. Pending(n) /\ f \in DOMAIN n.rows /\ s = n.fp[f] /\ d = n.rows[f]
        BY <3>1, <3>3, <1>2
      <4> QED BY <4>1, <1>3 DEF Described
    <3> QED BY <3>2, <3>3
  <2> QED BY <1>3, <2>1, <2>2 DEF Described, Pending
<1>4. \A q \in Loaders : load'[q] = load[q] \/
        (Holds(load'[q]) /\ (~reused' => ReadsOK(load'[q]) /\ SignsOK(load'[q])))
  BY <1>2
<1> QED BY <1>1, <1>3, <1>4, StepKeeps

\* A load that starts over, or ends.
LEMMA FreshKeeps ==
  ASSUME IndexAssumption, IInv, UNCHANGED fileVars, NEW p \in Loaders, NEW n \in LoadSet,
         load' = [load EXCEPT ![p] = n], db' = db,
         path' \in Inodes \cup {NoInode}, reused' = reused,
         n.pc \in {"idle", "open", "markdown"}, n.sig = None, n.fp = None, n.rebuilds = 0,
         n.start <= clock,
         n.pc = "open" => DOMAIN n.rows = {} \/ All(n.rows),
         ~reused => \A f \in DOMAIN n.rows : HadSince(f, n.rows[f], n.start)
  PROVE  IInv'
<1>1. Holds(n) BY DEF Holds
<1>2. ~reused => ReadsOK(n) /\ SignsOK(n) BY FreshLoad DEF ReadsOK, SignsOK
<1>3. ~Pending(n) BY DEF Pending
<1>4. reused' \in BOOLEAN BY DEF IInv, Shape
<1> QED BY <1>1, <1>2, <1>3, <1>4, LoadKeeps

-----------------------------------------------------------------------------
(* The steps of a load. *)

LEMMA LoadActionKeeps ==
  ASSUME IndexAssumption, IInv, UNCHANGED fileVars, NEW p \in Loaders, Load(p) \/ Finish(p)
  PROVE  IInv'
<1>1. clock \in Nat /\ path \in Inodes \cup {NoInode} BY DEF IInv, FilesInv, Shape
<1>2. CASE Load(p)
  <2> DEFINE m == [NoLoad EXCEPT !.pc = "open", !.start = clock]
  <2>1. m \in LoadSet
    <3>1. PICK q \in LoadSet : q = NoLoad BY FreshLoad
    <3>2. [q EXCEPT !.pc = "open", !.start = clock] \in LoadSet BY <1>1 DEF LoadSet
    <3> QED BY <3>1, <3>2
  <2>2. /\ m.pc = "open" /\ m.start = clock /\ m.sig = None /\ m.fp = None
        /\ m.rows = None /\ m.rebuilds = 0
    BY DEF NoLoad
  <2>3. PICK n \in LoadSet : n = m BY <2>1
  <2>4. /\ load' = [load EXCEPT ![p] = n] /\ db' = db /\ path' = path /\ reused' = reused
    BY <1>2, <2>3 DEF Load, Set
  <2> HIDE DEF m
  <2>5. /\ n.pc = "open" /\ n.start = clock /\ n.sig = None /\ n.fp = None
        /\ n.rows = None /\ n.rebuilds = 0
    BY <2>2, <2>3
  <2>6. n.start <= clock /\ DOMAIN n.rows = {} BY <1>1, <2>5, FreshLoad
  <2> QED BY <1>1, <2>4, <2>5, <2>6, FreshKeeps
<1>3. CASE Finish(p)
  <2>1. /\ NoLoad.pc = "idle" /\ NoLoad.start = 0 /\ NoLoad.sig = None /\ NoLoad.fp = None
        /\ NoLoad.rows = None /\ NoLoad.rebuilds = 0 /\ NoLoad \in LoadSet
    BY FreshLoad
  <2>2. PICK n \in LoadSet : n = NoLoad BY <2>1
  <2>3. load' = [load EXCEPT ![p] = n] /\ db' = db /\ path' = path /\ reused' = reused
    BY <1>3, <2>2 DEF Finish, Set
  <2>4. /\ n.pc = "idle" /\ n.start <= clock /\ n.sig = None /\ n.fp = None
        /\ DOMAIN n.rows = {} /\ n.rebuilds = 0
    BY <1>1, <2>1, <2>2, FreshLoad
  <2> QED BY <1>1, <2>3, <2>4, FreshKeeps
<1> QED BY <1>2, <1>3

LEMMA SignKeeps ==
  ASSUME IndexAssumption, IInv, UNCHANGED fileVars, NEW p \in Loaders, Sign(p)
  PROVE  IInv'
<1>1. PICK q \in LoadSet : q = load[p] BY DEF IInv, Shape
<1>2. q.pc = "sign" /\ Holds(q) /\ ~All(q.sig) BY <1>1 DEF Sign, IInv
<1>3. PICK f \in Files : f = First(Files \ DOMAIN q.sig) /\ f \notin DOMAIN q.sig
  BY <1>2, LoadParts, FirstIsIn DEF All
<1>4. PICK s : s = FileSignature(f, q.now) OBVIOUS
<1>5. s \in Signatures /\ SigOK(f, s)
  BY <1>2, <1>4, LoadParts, SignatureIsOf DEF Holds, IInv, IndexAssumption
<1>6. PICK sig : sig = Put(q.sig, f, s) OBVIOUS
<1>7. /\ sig \in Partial(Signatures) /\ DOMAIN sig = DOMAIN q.sig \cup {f} /\ sig[f] = s
      /\ \A g \in DOMAIN q.sig \ {f} : sig[g] = q.sig[g]
  <2>1. PICK u \in Partial(Signatures) : u = q.sig BY LoadParts
  <2>2. PICK x \in Signatures : x = s BY <1>5
  <2>3. sig = Put(u, f, x) BY <1>6, <2>1, <2>2
  <2>4. /\ Put(u, f, x) \in Partial(Signatures) /\ DOMAIN Put(u, f, x) = DOMAIN u \cup {f}
        /\ Put(u, f, x)[f] = x /\ \A g \in DOMAIN u \ {f} : Put(u, f, x)[g] = u[g]
    BY PutIsPartial
  <2> QED BY <2>1, <2>2, <2>3, <2>4
<1> DEFINE m == [q EXCEPT !.sig = sig]
<1>8. /\ m.pc = "sign" /\ m.now = q.now /\ m.start = q.start /\ m.sig = sig /\ m.fp = q.fp
      /\ m.rows = q.rows /\ m.rebuilds = q.rebuilds /\ m.handle = q.handle
  BY <1>2 DEF LoadSet
<1>9. m \in LoadSet BY <1>7 DEF LoadSet
<1>10. PICK n \in LoadSet : n = m BY <1>9
<1>11. load' = [load EXCEPT ![p] = n]
  BY <1>1, <1>3, <1>4, <1>6, <1>10 DEF Sign, Set
<1>12. path' = path /\ db' = db /\ reused' = reused BY DEF Sign
<1> HIDE DEF m
<1>13. Holds(n) BY <1>2, <1>8, <1>10 DEF Holds
<1>14. ASSUME ~reused PROVE ReadsOK(n) /\ SignsOK(n)
  <2>1. PairsOK /\ ReadsOK(q) /\ SignsOK(q) BY <1>1, <1>14 DEF IInv
  <2>2. ReadsOK(n) BY <1>2, <1>5, <1>7, <1>8, <1>10, <2>1 DEF ReadsOK
  <2>3. ASSUME NEW g \in DOMAIN sig, NEW d \in Contents, Described(g, sig[g], d)
        PROVE  MayAnswer(g, sig[g], d, q.start)
    <3>1. CASE g # f BY <1>2, <1>7, <2>1, <2>3, <3>1 DEF SignsOK
    <3>2. CASE g = f
      <4>1. ScanOK(f, s, d) BY <1>5, <1>7, <2>1, <2>3, <3>2 DEF PairsOK
      <4>2. q.start <= q.now /\ q.now <= clock /\ clock < q.now + Window BY <1>2 DEF Holds
      <4>3. MayAnswer(f, s, d, q.start)
        BY <1>4, <4>1, <4>2, LoadParts, SameSignature DEF IInv, IndexAssumption
      <4> QED BY <1>7, <3>2, <4>3
    <3> QED BY <3>1, <3>2
  <2> QED BY <1>8, <1>10, <2>2, <2>3 DEF SignsOK
<1>15. Pending(n) <=> Pending(q) BY <1>2, <1>8, <1>10 DEF Pending
<1>16. Pending(n) => \A g \in DOMAIN n.rows :
         /\ Pending(load[p]) /\ g \in DOMAIN load[p].rows
         /\ n.fp[g] = load[p].fp[g] /\ n.rows[g] = load[p].rows[g]
  BY <1>1, <1>8, <1>10, <1>15
<1>17. path \in Inodes \cup {NoInode} /\ reused \in BOOLEAN BY DEF IInv, Shape
<1> QED BY <1>11, <1>12, <1>13, <1>14, <1>16, <1>17, LoadKeeps

\* A row is read after the fingerprint, and while the load lasts.
LEMMA ReadRowKeeps ==
  ASSUME IndexAssumption, IInv, UNCHANGED fileVars, NEW p \in Loaders, ReadRow(p)
  PROVE  IInv'
<1>1. PICK q \in LoadSet : q = load[p] BY DEF IInv, Shape
<1>2. q.pc \in {"rebuild", "markdown"} /\ Holds(q) /\ ~All(q.rows) BY <1>1 DEF ReadRow, IInv
<1>3. PICK f \in Files : f = First(Files \ DOMAIN q.rows) /\ f \notin DOMAIN q.rows
  BY <1>2, LoadParts, FirstIsIn DEF All
<1>4. PICK d \in Contents : d = file[f].data BY DEF IInv, FilesInv
<1>5. PICK rows : rows = Put(q.rows, f, d) OBVIOUS
<1>6. /\ rows \in Partial(Contents) /\ DOMAIN rows = DOMAIN q.rows \cup {f} /\ rows[f] = d
      /\ \A g \in DOMAIN q.rows \ {f} : rows[g] = q.rows[g]
  <2>1. PICK u \in Partial(Contents) : u = q.rows BY LoadParts
  <2>2. rows = Put(u, f, d) BY <1>5, <2>1
  <2>3. /\ Put(u, f, d) \in Partial(Contents) /\ DOMAIN Put(u, f, d) = DOMAIN u \cup {f}
        /\ Put(u, f, d)[f] = d /\ \A g \in DOMAIN u \ {f} : Put(u, f, d)[g] = u[g]
    BY PutIsPartial
  <2> QED BY <2>1, <2>2, <2>3
<1> DEFINE m == [q EXCEPT !.rows = rows]
<1>7. /\ m.pc = q.pc /\ m.now = q.now /\ m.start = q.start /\ m.sig = q.sig /\ m.fp = q.fp
      /\ m.rows = rows /\ m.rebuilds = q.rebuilds /\ m.handle = q.handle
  BY DEF LoadSet
<1>8. m \in LoadSet BY <1>6 DEF LoadSet
<1>9. PICK n \in LoadSet : n = m BY <1>8
<1>10. load' = [load EXCEPT ![p] = n]
  BY <1>1, <1>3, <1>4, <1>5, <1>9 DEF ReadRow, Set
<1>11. path' = path /\ db' = db /\ reused' = reused BY DEF ReadRow
<1> HIDE DEF m
<1>12. Holds(n) BY <1>2, <1>7, <1>9 DEF Holds
<1>13. ASSUME ~reused PROVE ReadsOK(n) /\ SignsOK(n)
  <2>1. ReadsOK(q) BY <1>1, <1>13 DEF IInv
  <2>2. HadSince(f, d, q.start) BY <1>4 DEF HadSince
  <2>3. \A g \in DOMAIN rows : HadSince(g, rows[g], q.start)
    BY <1>2, <1>6, <2>1, <2>2 DEF ReadsOK
  <2> QED BY <1>2, <1>7, <1>9, <2>1, <2>3 DEF ReadsOK, SignsOK
<1>14. ASSUME ~reused, Pending(n), NEW g \in DOMAIN n.rows
       PROVE  \/ /\ Pending(load[p]) /\ g \in DOMAIN load[p].rows
                 /\ n.fp[g] = load[p].fp[g] /\ n.rows[g] = load[p].rows[g]
              \/ SigOK(g, n.fp[g]) /\ n.rows[g] = file[g].data
  <2>1. q.pc = "rebuild" /\ Pending(q) /\ DOMAIN q.fp = Files
    BY <1>2, <1>7, <1>9, <1>14 DEF Pending, Holds, All
  <2>2. CASE g # f BY <1>1, <1>6, <1>7, <1>9, <1>14, <2>1, <2>2
  <2>3. CASE g = f
    <3>1. SigOK(f, q.fp[f]) BY <1>1, <1>14, <2>1 DEF IInv, ReadsOK
    <3> QED BY <1>4, <1>6, <1>7, <1>9, <2>3, <3>1
  <2> QED BY <2>2, <2>3
<1>15. path \in Inodes \cup {NoInode} /\ reused \in BOOLEAN BY DEF IInv, Shape
<1> QED BY <1>10, <1>11, <1>12, <1>13, <1>14, <1>15, LoadKeeps

LEMMA RebuiltKeeps ==
  ASSUME IndexAssumption, IInv, UNCHANGED fileVars, NEW p \in Loaders, Rebuilt(p)
  PROVE  IInv'
<1>1. PICK q \in LoadSet : q = load[p] BY DEF IInv, Shape
<1>2. q.pc = "rebuild" /\ Holds(q) /\ All(q.rows) BY <1>1 DEF Rebuilt, IInv
<1> DEFINE m == [q EXCEPT !.pc = "sign", !.rebuilds = @ + 1, !.sig = None, !.now = clock]
<1>3. clock \in Nat /\ q.rebuilds + 1 \in 0..MaxRebuilds /\ q.rebuilds + 1 > 0
  BY <1>2, LoadParts DEF IInv, FilesInv, Holds, IndexAssumption
<1>4. /\ m.pc = "sign" /\ m.now = clock /\ m.start = q.start /\ m.sig = None /\ m.fp = q.fp
      /\ m.rows = q.rows /\ m.rebuilds = q.rebuilds + 1 /\ m.handle = q.handle
  BY DEF LoadSet
<1>5. m \in LoadSet BY <1>3, FreshLoad DEF LoadSet
<1>6. PICK n \in LoadSet : n = m BY <1>5
<1>7. load' = [load EXCEPT ![p] = n] BY <1>1, <1>6 DEF Rebuilt, Set
<1>8. path' = path /\ db' = db /\ reused' = reused BY DEF Rebuilt
<1> HIDE DEF m
<1>9. clock < clock + Window BY <1>3 DEF IndexAssumption, FilesAssumption
<1>10. Holds(n) BY <1>2, <1>3, <1>4, <1>6, <1>9 DEF Holds
<1>11. DOMAIN n.sig = {} BY <1>4, <1>6, FreshLoad
<1>12. ASSUME ~reused PROVE ReadsOK(n) /\ SignsOK(n)
  <2>1. ReadsOK(q) BY <1>1, <1>12 DEF IInv
  <2> QED BY <1>2, <1>4, <1>6, <1>11, <2>1 DEF ReadsOK, SignsOK
<1>13. \A g \in DOMAIN n.rows : /\ Pending(load[p]) /\ g \in DOMAIN load[p].rows
                                /\ n.fp[g] = load[p].fp[g] /\ n.rows[g] = load[p].rows[g]
  BY <1>1, <1>2, <1>4, <1>6 DEF Pending
<1>14. path \in Inodes \cup {NoInode} /\ reused \in BOOLEAN BY DEF IInv, Shape
<1> QED BY <1>7, <1>8, <1>10, <1>12, <1>13, <1>14, LoadKeeps

\* A load that returns rows.
LEMMA AnswerKeeps ==
  ASSUME IndexAssumption, IInv, UNCHANGED fileVars, NEW p \in Loaders,
         NEW l \in LoadSet, NEW rows \in Partial(Contents), All(rows),
         load' = [load EXCEPT ![p] = Answering(l, rows)],
         path' = path, db' = db, reused' = reused,
         l.start <= clock,
         ~reused => /\ \A f \in DOMAIN l.fp : SigOK(f, l.fp[f])
                    /\ \A f \in Files : MayReturn(l, f, rows[f])
  PROVE  IInv'
<1> DEFINE m == Answering(l, rows)
<1>1. /\ m.pc = "answer" /\ m.start = l.start /\ m.sig = None /\ m.fp = l.fp
      /\ m.rows = rows /\ m.rebuilds = 0
  BY DEF Answering, NoLoad
<1>2. m \in LoadSet
  <2>1. PICK q \in LoadSet : q = NoLoad BY FreshLoad
  <2>2. [q EXCEPT !.pc = "answer", !.start = l.start, !.fp = l.fp, !.rows = rows] \in LoadSet
    BY LoadParts DEF LoadSet
  <2> QED BY <2>1, <2>2 DEF Answering
<1>3. PICK n \in LoadSet : n = m BY <1>2
<1> HIDE DEF m
<1>4. load' = [load EXCEPT ![p] = n] BY <1>3 DEF m
<1>5. Holds(n) BY <1>1, <1>3 DEF Holds
<1>6. DOMAIN n.sig = {} BY <1>1, <1>3, FreshLoad
<1>7. ASSUME ~reused PROVE ReadsOK(n) /\ SignsOK(n)
  BY <1>1, <1>3, <1>6, <1>7 DEF ReadsOK, SignsOK, MayReturn
<1>8. ~Pending(n) BY <1>1, <1>3 DEF Pending
<1>9. path \in Inodes \cup {NoInode} /\ reused \in BOOLEAN BY DEF IInv, Shape
<1> QED BY <1>4, <1>5, <1>7, <1>8, <1>9, LoadKeeps

LEMMA MarkdownKeeps ==
  ASSUME IndexAssumption, IInv, UNCHANGED fileVars, NEW p \in Loaders, Markdown(p)
  PROVE  IInv'
<1>1. PICK q \in LoadSet : q = load[p] BY DEF IInv, Shape
<1>2. q.pc = "markdown" /\ Holds(q) /\ All(q.rows) BY <1>1 DEF Markdown, IInv
<1>3. /\ load' = [load EXCEPT ![p] = Answering(q, q.rows)]
      /\ path' = path /\ db' = db /\ reused' = reused
  BY <1>1 DEF Markdown, Set
<1>4. ASSUME ~reused, NEW f \in Files PROVE Recent(f, q.rows[f], q.start)
  BY <1>1, <1>2, <1>4 DEF IInv, ReadsOK, Recent, All
<1>5. ~reused => /\ \A f \in DOMAIN q.fp : SigOK(f, q.fp[f])
                 /\ \A f \in Files : MayReturn(q, f, q.rows[f])
  BY <1>1, <1>4 DEF IInv, ReadsOK, MayReturn
<1>6. q.start <= clock /\ q.rows \in Partial(Contents) BY <1>2, LoadParts DEF Holds
<1> QED BY <1>2, <1>3, <1>5, <1>6, AnswerKeeps

\* Rows of the database are returned by the fingerprint, rows that were rebuilt
\* because they were read in this load; or they are rebuilt, or published.
LEMMA LookupKeeps ==
  ASSUME IndexAssumption, IInv, UNCHANGED fileVars, NEW p \in Loaders, Lookup(p)
  PROVE  IInv'
<1>1. PICK q \in LoadSet : q = load[p] BY DEF IInv, Shape
<1>2. q.pc = "sign" /\ Holds(q) /\ All(q.sig) /\ q.handle \in Inodes
  BY <1>1 DEF Lookup, IInv, Holds
<1> DEFINE l == [q EXCEPT !.fp = q.sig]
<1>3. /\ l.pc = "sign" /\ l.now = q.now /\ l.start = q.start /\ l.sig = q.sig /\ l.fp = q.sig
      /\ l.rows = q.rows /\ l.rebuilds = q.rebuilds /\ l.handle = q.handle
  BY <1>2 DEF LoadSet
<1>4. l \in LoadSet BY LoadParts DEF LoadSet
<1>5. PICK r \in LoadSet : r = l BY <1>4
<1>6. path' = path /\ db' = db /\ reused' = (reused \/ (load'[p].pc = "rebuild" /\ All(q.rows)))
  BY <1>1 DEF Lookup
<1>7. \/ Revalidates(p) /\ load' = [load EXCEPT ![p] = [r EXCEPT !.pc = "publish"]]
      \/ /\ db[q.handle] \notin {Empty, Broken} /\ db[q.handle].fp = q.sig
         /\ load' = [load EXCEPT ![p] = Answering(r, db[q.handle].rows)]
      \/ q.rebuilds = MaxRebuilds /\ load' = [load EXCEPT ![p] = Answering(r, q.rows)]
      \/ /\ q.rebuilds # MaxRebuilds
         /\ load' = [load EXCEPT ![p] = [r EXCEPT !.pc = "rebuild"]]
  <2>1. CASE Revalidates(p) BY <1>1, <1>5, <2>1 DEF Lookup, Set
  <2>2. CASE ~Revalidates(p) /\ Cached(p, q.sig)
    <3>1. load' = [load EXCEPT ![p] = Answering(r, db[r.handle].rows)]
      BY <1>1, <1>3, <1>5, <2>2 DEF Lookup, Set
    <3>2. db[q.handle] \notin {Empty, Broken} /\ db[q.handle].fp = q.sig
      BY <1>1, <2>2 DEF Cached
    <3> QED BY <1>3, <1>5, <3>1, <3>2
  <2>3. CASE ~Revalidates(p) /\ ~Cached(p, q.sig)
    BY <1>1, <1>3, <1>5, <2>3 DEF Lookup, Set
  <2> QED BY <2>1, <2>2, <2>3
<1> HIDE DEF l
<1>8. /\ r.pc = "sign" /\ r.now = q.now /\ r.start = q.start /\ r.sig = q.sig /\ r.fp = q.sig
      /\ r.rows = q.rows /\ r.rebuilds = q.rebuilds /\ r.handle = q.handle
  BY <1>3, <1>5
<1>9. path \in Inodes \cup {NoInode} /\ reused \in BOOLEAN /\ load \in [Loaders -> LoadSet]
  BY DEF IInv, Shape
<1>10. \A f \in DOMAIN r.fp : r.fp[f] \in Signatures BY LoadParts
<1>11. ~reused => PairsOK /\ ReadsOK(q) /\ SignsOK(q) BY <1>1 DEF IInv
<1>12. ~reused => \A f \in DOMAIN r.fp : SigOK(f, r.fp[f]) BY <1>8, <1>11 DEF ReadsOK
<1>13. q.start <= clock BY <1>2 DEF Holds
<1>14. CASE Revalidates(p) /\ load' = [load EXCEPT ![p] = [r EXCEPT !.pc = "publish"]]
  <2>1. q.rebuilds > 0 /\ q.sig = q.fp BY <1>1, <1>14 DEF Revalidates
  <2> DEFINE m == [r EXCEPT !.pc = "publish"]
  <2>2. /\ m.pc = "publish" /\ m.start = r.start /\ m.sig = r.sig /\ m.fp = r.fp
        /\ m.rows = r.rows /\ m.rebuilds = r.rebuilds /\ m.handle = r.handle
    BY DEF LoadSet
  <2>3. m \in LoadSet BY DEF LoadSet
  <2>4. PICK n \in LoadSet : n = m BY <2>3
  <2>5. load' = [load EXCEPT ![p] = n] BY <1>14, <2>4
  <2> HIDE DEF m
  <2>6. Holds(n) BY <1>2, <1>8, <2>1, <2>2, <2>4 DEF Holds
  <2>7. ASSUME ~reused PROVE ReadsOK(n) /\ SignsOK(n)
    BY <1>2, <1>8, <1>11, <1>12, <2>2, <2>4, <2>7 DEF ReadsOK, SignsOK
  <2>8. \A g \in DOMAIN n.rows : /\ Pending(load[p]) /\ g \in DOMAIN load[p].rows
                                 /\ n.fp[g] = load[p].fp[g] /\ n.rows[g] = load[p].rows[g]
    BY <1>1, <1>2, <1>8, <2>1, <2>2, <2>4 DEF Pending
  <2>9. reused' = reused
    <3>1. load'[p].pc = "publish" BY <1>9, <2>2, <2>4, <2>5
    <3> QED BY <1>6, <1>9, <3>1
  <2> QED BY <1>6, <1>9, <2>5, <2>6, <2>7, <2>8, <2>9, LoadKeeps
<1>15. CASE /\ db[q.handle] \notin {Empty, Broken} /\ db[q.handle].fp = q.sig
            /\ load' = [load EXCEPT ![p] = Answering(r, db[q.handle].rows)]
  <2>1. PICK rows \in Partial(Contents) : rows = db[q.handle].rows /\ rows \in [Files -> Contents]
    BY <1>2, <1>15, DatabaseParts DEF IInv
  <2>2. load' = [load EXCEPT ![p] = Answering(r, rows)] /\ All(rows) BY <1>15, <2>1 DEF All
  <2>3. ASSUME ~reused, NEW f \in Files PROVE MayReturn(r, f, rows[f])
    <3>1. f \in DOMAIN q.sig BY <1>2 DEF All
    <3>2. Described(f, q.sig[f], rows[f]) BY <1>2, <1>15, <2>1 DEF Described
    <3>3. rows[f] \in Contents BY <2>1
    <3>4. MayAnswer(f, q.sig[f], rows[f], q.start) BY <1>2, <1>11, <2>3, <3>1, <3>2, <3>3 DEF SignsOK
    <3> QED BY <1>8, <3>1, <3>4 DEF MayReturn
  <2>4. reused' = reused
    <3>1. Answering(r, rows).pc = "answer" BY DEF Answering, NoLoad
    <3>2. load'[p].pc = "answer" BY <1>9, <2>2, <3>1
    <3> QED BY <1>6, <1>9, <3>2
  <2>5. r.start <= clock BY <1>8, <1>13
  <2> QED BY <1>6, <1>12, <2>2, <2>3, <2>4, <2>5, AnswerKeeps
<1>16. CASE q.rebuilds = MaxRebuilds /\ load' = [load EXCEPT ![p] = Answering(r, q.rows)]
  <2>1. PICK rows \in Partial(Contents) : rows = q.rows BY LoadParts
  <2>2. MaxRebuilds > 0 BY DEF IndexAssumption
  <2>3. All(rows) BY <1>2, <1>16, <2>1, <2>2 DEF Holds
  <2>4. load' = [load EXCEPT ![p] = Answering(r, rows)] BY <1>16, <2>1
  <2>5. ASSUME ~reused, NEW f \in Files PROVE MayReturn(r, f, rows[f])
    BY <1>2, <1>8, <1>11, <2>1, <2>3, <2>5 DEF ReadsOK, MayReturn, Recent, All
  <2>6. reused' = reused
    <3>1. Answering(r, rows).pc = "answer" BY DEF Answering, NoLoad
    <3>2. load'[p].pc = "answer" BY <1>9, <2>4, <3>1
    <3> QED BY <1>6, <1>9, <3>2
  <2>7. r.start <= clock BY <1>8, <1>13
  <2> QED BY <1>6, <1>12, <2>3, <2>4, <2>5, <2>6, <2>7, AnswerKeeps
<1>17. CASE /\ q.rebuilds # MaxRebuilds
            /\ load' = [load EXCEPT ![p] = [r EXCEPT !.pc = "rebuild"]]
  <2> DEFINE m == [r EXCEPT !.pc = "rebuild"]
  <2>1. /\ m.pc = "rebuild" /\ m.start = r.start /\ m.sig = r.sig /\ m.fp = r.fp
        /\ m.rows = r.rows /\ m.rebuilds = r.rebuilds /\ m.handle = r.handle
    BY DEF LoadSet
  <2>2. m \in LoadSet BY DEF LoadSet
  <2>3. PICK n \in LoadSet : n = m BY <2>2
  <2>4. load' = [load EXCEPT ![p] = n] BY <1>17, <2>3
  <2> HIDE DEF m
  <2>5. q.rebuilds < MaxRebuilds BY <1>17, LoadParts DEF IndexAssumption
  <2>6. Holds(n) BY <1>2, <1>8, <2>1, <2>3, <2>5 DEF Holds
  <2>7. reused' = (reused \/ All(q.rows))
    <3>1. load'[p].pc = "rebuild" BY <1>9, <2>1, <2>3, <2>4
    <3> QED BY <1>6, <3>1
  <2>8. ASSUME ~reused' PROVE ReadsOK(n) /\ SignsOK(n)
    BY <1>2, <1>8, <1>11, <1>12, <2>1, <2>3, <2>7, <2>8 DEF ReadsOK, SignsOK
  <2>9. ~reused' => DOMAIN n.rows = {} BY <1>2, <1>8, <2>1, <2>3, <2>7 DEF Holds
  <2>10. reused' \in BOOLEAN BY <1>9, <2>7 DEF All
  <2>11. reused => reused' BY <2>7
  <2> QED BY <1>6, <1>9, <2>4, <2>6, <2>8, <2>9, <2>10, <2>11, LoadKeeps
<1> QED BY <1>7, <1>14, <1>15, <1>16, <1>17

\* A statement fails: the load starts over with what it has read, or reads the files.
LEMMA RetryKeeps ==
  ASSUME IndexAssumption, IInv, UNCHANGED fileVars, NEW p \in Loaders, Busy(p) \/ Discard(p)
  PROVE  IInv'
<1>1. PICK q \in LoadSet : q = load[p] BY DEF IInv, Shape
<1>2. Holds(q) /\ q.pc \in {"open", "publish", "sign"}
  BY <1>1 DEF Busy, Discard, AtDatabase, IInv
<1> DEFINE m == [NoLoad EXCEPT !.pc = IF q.retried THEN "markdown" ELSE "open",
                               !.start = q.start, !.rows = q.rows, !.retried = TRUE]
<1>3. /\ m.pc \in {"open", "markdown"} /\ m.start = q.start /\ m.sig = None /\ m.fp = None
      /\ m.rows = q.rows /\ m.rebuilds = 0
  BY DEF NoLoad
<1>4. m \in LoadSet
  <2>1. PICK l \in LoadSet : l = NoLoad BY FreshLoad
  <2>2. [l EXCEPT !.pc = IF q.retried THEN "markdown" ELSE "open",
                  !.start = q.start, !.rows = q.rows, !.retried = TRUE] \in LoadSet
    BY LoadParts DEF LoadSet
  <2> QED BY <2>1, <2>2
<1>5. PICK n \in LoadSet : n = m BY <1>4
<1>6. Retry(p) /\ db' = db /\ reused' = reused BY DEF Busy, Discard
<1>7. load' = [load EXCEPT ![p] = n] BY <1>1, <1>5, <1>6 DEF Retry, Set
<1> HIDE DEF m
<1>8. path' \in Inodes \cup {NoInode} BY DEF Busy, Discard, IInv, Shape
<1>9. DOMAIN n.rows = {} \/ All(n.rows) BY <1>2, <1>3, <1>5 DEF Holds
<1>10. ~reused => \A f \in DOMAIN n.rows : HadSince(f, n.rows[f], n.start)
  BY <1>1, <1>2, <1>3, <1>5 DEF IInv, ReadsOK
<1>11. n.start <= clock BY <1>2, <1>3, <1>5 DEF Holds
<1> QED BY <1>3, <1>5, <1>6, <1>7, <1>8, <1>9, <1>10, <1>11, FreshKeeps

-----------------------------------------------------------------------------
(* The steps that change a database. *)

\* The pairs of a database that is emptied or broken are gone.
LEMMA OpenKeeps ==
  ASSUME IndexAssumption, IInv, UNCHANGED fileVars, NEW p \in Loaders, Open(p)
  PROVE  IInv'
<1>1. PICK q \in LoadSet : q = load[p] BY DEF IInv, Shape
<1>2. q.pc = "open" /\ Holds(q) BY <1>1 DEF Open, IInv
<1>3. PICK i \in Inodes :
        /\ db' = db \/ db' = [db EXCEPT ![i] = Empty]
        /\ path' = i /\ reused' = reused
        /\ load' = [load EXCEPT ![p] = [q EXCEPT !.pc = "sign", !.handle = i, !.now = clock, !.sig = None]]
  BY <1>1 DEF Open, Set
<1> DEFINE m == [q EXCEPT !.pc = "sign", !.handle = i, !.now = clock, !.sig = None]
<1>4. /\ m.pc = "sign" /\ m.now = clock /\ m.start = q.start /\ m.sig = None /\ m.fp = q.fp
      /\ m.rows = q.rows /\ m.rebuilds = q.rebuilds /\ m.handle = i
  BY DEF LoadSet
<1>5. clock \in Nat BY DEF IInv, FilesInv
<1>6. m \in LoadSet BY <1>5, FreshLoad DEF LoadSet
<1>7. PICK n \in LoadSet : n = m BY <1>6
<1>8. load' = [load EXCEPT ![p] = n] BY <1>3, <1>7
<1> HIDE DEF m
<1>9. load \in [Loaders -> LoadSet] /\ db \in [Inodes -> Published \cup {Empty, Broken}]
      /\ reused \in BOOLEAN
  BY DEF IInv, Shape
<1>10. \A r \in Loaders : load'[r] = IF r = p THEN n ELSE load[r] BY <1>8, <1>9
<1>11. Shape' BY <1>3, <1>8, <1>9 DEF Shape
<1>12. clock < clock + Window BY <1>5 DEF IndexAssumption, FilesAssumption
<1>13. Holds(n) BY <1>2, <1>4, <1>5, <1>7, <1>12 DEF Holds
<1>14. DOMAIN n.sig = {} BY <1>4, <1>7, FreshLoad
<1>15. ASSUME ~reused PROVE ReadsOK(n) /\ SignsOK(n)
  <2>1. ReadsOK(q) BY <1>1, <1>15 DEF IInv
  <2> QED BY <1>2, <1>4, <1>7, <1>14, <2>1 DEF ReadsOK, SignsOK
<1>16. ~Pending(n) BY <1>2, <1>4, <1>7 DEF Pending, Holds
<1>17. \A j \in Inodes : db'[j] \notin {Empty, Broken} => db'[j] = db[j] BY <1>3, <1>9
<1>18. \A f \in Files, s \in Signatures, d \in Contents : Described(f, s, d)' => Described(f, s, d)
  <2> SUFFICES ASSUME NEW f \in Files, NEW s \in Signatures, NEW d \in Contents, Described(f, s, d)'
               PROVE  Described(f, s, d)
    BY DEF Signatures, Contents
  <2> QED BY <1>10, <1>16, <1>17 DEF Described, Pending
<1> QED BY <1>3, <1>10, <1>11, <1>13, <1>15, <1>18, StepKeeps

\* What is published was described before.
LEMMA PublishKeeps ==
  ASSUME IndexAssumption, IInv, UNCHANGED fileVars, NEW p \in Loaders, Publish(p)
  PROVE  IInv'
<1>1. PICK q \in LoadSet : q = load[p] BY DEF IInv, Shape
<1>2. q.pc = "publish" /\ Holds(q) /\ q.handle \in Inodes /\ All(q.rows) /\ All(q.fp)
  BY <1>1 DEF Publish, IInv, Holds
<1>3. PICK new : new = [fp |-> q.fp, rows |-> q.rows] OBVIOUS
<1>4. /\ db' = [db EXCEPT ![q.handle] = new]
      /\ load' = [load EXCEPT ![p] = Answering(q, q.rows)] /\ path' = path /\ reused' = reused
  BY <1>1, <1>3 DEF Publish, Set
<1>5. new \in Published /\ new.fp = q.fp /\ new.rows = q.rows
  BY <1>2, <1>3, LoadParts, AllIsTotal DEF Published, Fingerprints, Rows
<1> DEFINE m == Answering(q, q.rows)
<1>6. /\ m.pc = "answer" /\ m.start = q.start /\ m.sig = None /\ m.fp = q.fp
      /\ m.rows = q.rows /\ m.rebuilds = 0
  BY DEF Answering, NoLoad
<1>7. m \in LoadSet
  <2>1. PICK l \in LoadSet : l = NoLoad BY FreshLoad
  <2>2. [l EXCEPT !.pc = "answer", !.start = q.start, !.fp = q.fp, !.rows = q.rows] \in LoadSet
    BY LoadParts DEF LoadSet
  <2> QED BY <2>1, <2>2 DEF Answering
<1>8. PICK n \in LoadSet : n = m BY <1>7
<1>9. load' = [load EXCEPT ![p] = n] BY <1>4, <1>8
<1> HIDE DEF m
<1>10. load \in [Loaders -> LoadSet] /\ db \in [Inodes -> Published \cup {Empty, Broken}]
       /\ path \in Inodes \cup {NoInode} /\ reused \in BOOLEAN
  BY DEF IInv, Shape
<1>11. \A r \in Loaders : load'[r] = IF r = p THEN n ELSE load[r] BY <1>9, <1>10
<1>12. Shape' BY <1>4, <1>5, <1>9, <1>10 DEF Shape
<1>13. Holds(n) BY <1>2, <1>6, <1>8 DEF Holds
<1>14. DOMAIN n.sig = {} BY <1>6, <1>8, FreshLoad
<1>15. ASSUME ~reused PROVE ReadsOK(n) /\ SignsOK(n)
  <2>1. ReadsOK(q) BY <1>1, <1>15 DEF IInv
  <2> QED BY <1>2, <1>6, <1>8, <1>14, <2>1 DEF ReadsOK, SignsOK, MayReturn, Recent, All
<1>16. ~Pending(n) /\ Pending(q) BY <1>2, <1>6, <1>8 DEF Pending
<1>17. \A j \in Inodes : db'[j] = IF j = q.handle THEN new ELSE db[j] BY <1>4, <1>10
<1>18. \A f \in Files, s \in Signatures, d \in Contents : Described(f, s, d)' => Described(f, s, d)
  <2> SUFFICES ASSUME NEW f \in Files, NEW s \in Signatures, NEW d \in Contents, Described(f, s, d)'
               PROVE  Described(f, s, d)
    BY DEF Signatures, Contents
  <2>1. CASE \E j \in Inodes : db'[j] \notin {Empty, Broken} /\ s = db'[j].fp[f] /\ d = db'[j].rows[f]
    <3>1. PICK j \in Inodes : /\ db'[j] \notin {Empty, Broken}
                              /\ s = db'[j].fp[f] /\ d = db'[j].rows[f]
      BY <2>1
    <3>2. CASE j # q.handle BY <1>17, <3>1, <3>2 DEF Described
    <3>3. CASE j = q.handle
      <4>1. s = q.fp[f] /\ d = q.rows[f] /\ f \in DOMAIN q.rows
        BY <1>2, <1>5, <1>17, <3>1, <3>3 DEF All
      <4> QED BY <1>1, <1>16, <4>1 DEF Described
    <3> QED BY <3>2, <3>3
  <2>2. CASE \E r \in Loaders : /\ Pending(load'[r]) /\ f \in DOMAIN load'[r].rows
                                /\ s = load'[r].fp[f] /\ d = load'[r].rows[f]
    BY <1>11, <1>16, <2>2 DEF Described
  <2> QED BY <2>1, <2>2 DEF Described, Pending
<1> QED BY <1>4, <1>11, <1>12, <1>13, <1>15, <1>18, StepKeeps

LEMMA BreakKeeps ==
  ASSUME IndexAssumption, IInv, UNCHANGED fileVars, NEW i \in Inodes, Break(i)
  PROVE  IInv'
<1>1. /\ path' = path /\ db' = [db EXCEPT ![i] = Broken] /\ load' = load /\ reused' = reused
  BY DEF Break
<1>2. Shape' BY <1>1 DEF IInv, Shape
<1>3. \A j \in Inodes : db'[j] \notin {Empty, Broken} => db'[j] = db[j] BY <1>1 DEF IInv, Shape
<1>4. \A f \in Files, s \in Signatures, d \in Contents : Described(f, s, d)' => Described(f, s, d)
  <2> SUFFICES ASSUME NEW f \in Files, NEW s \in Signatures, NEW d \in Contents, Described(f, s, d)'
               PROVE  Described(f, s, d)
    BY DEF Signatures, Contents
  <2> QED BY <1>1, <1>3 DEF Described, Pending
<1> QED BY <1>1, <1>2, <1>4, StepKeeps

-----------------------------------------------------------------------------
(* Time passes, or another process writes: nothing is described anew, and the *)
(* pairs stay as they are.                                                    *)

LEMMA EnvKeepsReads ==
  ASSUME IndexAssumption, FilesInv, EnvStep, NEW l \in LoadSet, Holds(l), ReadsOK(l)
  PROVE  ReadsOK(l)'
<1> USE DEF IndexAssumption
<1>1. /\ l.start \in Nat /\ l.start \in Int /\ l.start <= clock
      /\ l.pc = "answer" => All(l.rows)
  BY LoadParts DEF Holds
<1>2. \A f \in DOMAIN l.sig : SigOK(f, l.sig[f])'
  BY LoadParts, EnvKeepsSig DEF ReadsOK
<1>3. \A f \in DOMAIN l.fp : SigOK(f, l.fp[f])'
  BY LoadParts, EnvKeepsSig DEF ReadsOK
<1>4. ASSUME l.pc # "answer", NEW f \in DOMAIN l.rows PROVE HadSince(f, l.rows[f], l.start)'
  <2>1. f \in Files /\ l.rows[f] \in Contents BY LoadParts
  <2>2. HadSince(f, l.rows[f], l.start) BY <1>4 DEF ReadsOK
  <2> QED BY <1>1, <2>1, <2>2, EnvKeepsHad
<1>5. ASSUME l.pc = "answer", NEW f \in Files PROVE MayReturn(l, f, l.rows[f])'
  <2>1. PICK d \in Contents : d = l.rows[f] BY <1>1, <1>5, LoadParts DEF All
  <2>2. MayReturn(l, f, d) BY <1>5, <2>1 DEF ReadsOK
  <2>3. CASE Recent(f, d, l.start)
    <3>1. MayAnswer(f, [mtime |-> 0, hash |-> NoHash], d, l.start) BY <2>3 DEF MayAnswer
    <3>2. MayAnswer(f, [mtime |-> 0, hash |-> NoHash], d, l.start)'
      BY <1>1, <3>1, EnvKeepsRecent
    <3>3. Recent(f, d, l.start)' BY <3>2 DEF MayAnswer, Missing
    <3> QED BY <2>1, <3>3 DEF MayReturn, Recent, HadSince
  <2>4. CASE f \in DOMAIN l.fp /\ MayAnswer(f, l.fp[f], d, l.start)
    <3>1. MayAnswer(f, l.fp[f], d, l.start)' BY <1>1, <2>4, EnvKeepsRecent
    <3> QED BY <2>1, <2>4, <3>1 DEF MayReturn, MayAnswer, Recent, HadSince
  <2> QED BY <2>2, <2>3, <2>4 DEF MayReturn
<1> QED BY <1>2, <1>3, <1>4, <1>5 DEF ReadsOK

LEMMA EnvKeepsIInv ==
  ASSUME IndexAssumption, IInv, Advance \/ \E f \in Files : WriteFile(f), UNCHANGED indexVars
  PROVE  IInv'
<1>1. path' = path /\ db' = db /\ load' = load /\ reused' = reused BY DEF indexVars
<1>2. EnvStep BY DEF EnvStep, Passes, Advance
<1>3. FilesInv' /\ clock <= clock' /\ clock \in Nat /\ clock' \in Nat
  BY <1>2, EnvKeepsFiles DEF IInv, IndexAssumption, FilesInv
<1>4. Shape' BY <1>1 DEF IInv, Shape
<1>5. \A f, s, d : Described(f, s, d)' <=> Described(f, s, d)
  BY <1>1 DEF Described, Pending
<1>6. ASSUME NEW p \in Loaders PROVE Holds(load[p])'
  <2>1. PICK l \in LoadSet : l = load[p] BY DEF IInv, Shape
  <2>2. Holds(l) BY <2>1 DEF IInv
  <2>3. l.start \in Nat /\ l.now \in Nat BY LoadParts
  <2>4. l.pc = "sign" => clock' < l.now + Window
    <3>1. CASE clock' = clock BY <2>2, <3>1 DEF Holds
    <3>2. CASE Advance BY <2>1, <2>3, <3>2, <1>3 DEF Advance, IndexAssumption, FilesAssumption
    <3> QED BY <3>1, <3>2 DEF WriteFile
  <2>5. Holds(l)' BY <1>3, <2>2, <2>3, <2>4 DEF Holds
  <2>6. l = load'[p] BY <1>1, <2>1
  <2> QED BY <2>5, <2>6
<1>7. ASSUME ~reused PROVE PairsOK' /\ \A p \in Loaders : ReadsOK(load[p])' /\ SignsOK(load[p])'
  <2>1. PairsOK BY <1>7 DEF IInv
  <2>2. ASSUME NEW f \in Files, NEW s \in Signatures, NEW d \in Contents, Described(f, s, d)
        PROVE  SigOK(f, s)' /\ ScanOK(f, s, d)'
    <3>1. SigOK(f, s) /\ ScanOK(f, s, d) BY <2>1, <2>2 DEF PairsOK
    <3>2. FilesAssumption /\ FilesInv BY DEF IndexAssumption, IInv
    <3>3. SigOK(f, s)' BY <1>2, <3>1, <3>2, EnvKeepsSig
    <3> QED BY <1>2, <3>1, <3>2, <3>3, EnvKeepsScan
  <2>3. PairsOK'
    <3>1. SUFFICES ASSUME NEW f \in Files, NEW s \in Signatures, NEW d \in Contents,
                          Described(f, s, d)'
                   PROVE  SigOK(f, s)' /\ ScanOK(f, s, d)'
      BY DEF PairsOK, Signatures, Contents
    <3> QED BY <1>5, <2>2, <3>1
  <2>4. ASSUME NEW p \in Loaders PROVE ReadsOK(load[p])' /\ SignsOK(load[p])'
    <3>1. PICK l \in LoadSet : l = load[p] BY DEF IInv, Shape
    <3>2. ReadsOK(l) /\ SignsOK(l) /\ Holds(l) /\ l.start <= clock /\ l.start \in Nat
      BY <1>7, <3>1, LoadParts DEF IInv, Holds
    <3>3. ReadsOK(l)' BY <1>2, <3>2, EnvKeepsReads DEF IInv
    <3>4. ASSUME l.pc = "sign", NEW f \in DOMAIN l.sig, NEW d \in Contents,
                 Described(f, l.sig[f], d)'
          PROVE  MayAnswer(f, l.sig[f], d, l.start)'
      <4>1. f \in Files BY LoadParts
      <4>2. MayAnswer(f, l.sig[f], d, l.start) BY <1>5, <3>2, <3>4 DEF SignsOK
      <4> QED BY <1>2, <3>2, <4>1, <4>2, EnvKeepsRecent DEF IInv, IndexAssumption
    <3>5. SignsOK(l)' BY <3>4 DEF SignsOK
    <3>6. l = load'[p] BY <1>1, <3>1
    <3> QED BY <3>3, <3>5, <3>6
  <2> QED BY <2>3, <2>4
<1> QED BY <1>1, <1>3, <1>4, <1>6, <1>7 DEF IInv

-----------------------------------------------------------------------------
(* The invariant. *)

LEMMA InitIInv ==
  ASSUME IndexAssumption, Init PROVE IInv
<1>1. /\ path = NoInode /\ db = [i \in Inodes |-> Empty]
      /\ load = [p \in Loaders |-> NoLoad] /\ reused = FALSE
  BY DEF Init, IndexInit
<1>2. FilesInv /\ clock \in Nat BY InitFilesInv DEF Init, IndexAssumption, FilesInv
<1>3. Shape BY <1>1, FreshLoad DEF Shape
<1>4. \A p \in Loaders : load[p] = NoLoad BY <1>1
<1>5. Holds(NoLoad) BY <1>2, FreshLoad DEF Holds
<1>6. ReadsOK(NoLoad) /\ SignsOK(NoLoad) BY FreshLoad DEF ReadsOK, SignsOK
<1>7. ~Pending(NoLoad) BY FreshLoad DEF Pending
<1>8. PairsOK BY <1>1, <1>4, <1>7 DEF PairsOK, Described
<1> QED BY <1>2, <1>3, <1>4, <1>5, <1>6, <1>8 DEF IInv

LEMMA NextKeepsIInv ==
  ASSUME IndexAssumption, IInv, [Next]_<<fileVars, indexVars>> PROVE IInv'
<1>1. CASE UNCHANGED <<fileVars, indexVars>>
  <2>1. UNCHANGED fileVars /\ path' = path /\ db' = db /\ load' = load /\ reused' = reused
    BY <1>1 DEF indexVars
  <2>2. Shape' BY <2>1 DEF IInv, Shape
  <2>3. \A f, s, d : Described(f, s, d)' <=> Described(f, s, d)
    BY <2>1 DEF Described, Pending
  <2> QED BY <2>1, <2>2, <2>3, StepKeeps
<1>2. CASE (Advance \/ \E f \in Files : WriteFile(f)) /\ UNCHANGED indexVars
  BY <1>2, EnvKeepsIInv
<1>3. ASSUME NEW p \in Loaders, UNCHANGED fileVars,
             \/ Load(p) \/ Open(p) \/ Sign(p) \/ Lookup(p) \/ ReadRow(p) \/ Rebuilt(p)
             \/ Publish(p) \/ Busy(p) \/ Discard(p) \/ Markdown(p) \/ Finish(p)
      PROVE  IInv'
  <2>1. CASE Load(p) \/ Finish(p) BY <1>3, <2>1, LoadActionKeeps
  <2>2. CASE Open(p) BY <1>3, <2>2, OpenKeeps
  <2>3. CASE Sign(p) BY <1>3, <2>3, SignKeeps
  <2>4. CASE Lookup(p) BY <1>3, <2>4, LookupKeeps
  <2>5. CASE ReadRow(p) BY <1>3, <2>5, ReadRowKeeps
  <2>6. CASE Rebuilt(p) BY <1>3, <2>6, RebuiltKeeps
  <2>7. CASE Publish(p) BY <1>3, <2>7, PublishKeeps
  <2>8. CASE Busy(p) \/ Discard(p) BY <1>3, <2>8, RetryKeeps
  <2>9. CASE Markdown(p) BY <1>3, <2>9, MarkdownKeeps
  <2> QED BY <1>3, <2>1, <2>2, <2>3, <2>4, <2>5, <2>6, <2>7, <2>8, <2>9
<1>4. ASSUME NEW i \in Inodes, UNCHANGED fileVars, Break(i) PROVE IInv'
  BY <1>4, BreakKeeps
<1> QED BY <1>1, <1>2, <1>3, <1>4 DEF Next, IndexStep

\* Whatever others write meanwhile, a rebuild is published with a fingerprint that
\* describes it, and no load holds rows older than it may return.
THEOREM Invariance ==
  ASSUME IndexAssumption PROVE Spec => []IInv
<1>1. Init => IInv BY InitIInv
<1>2. IInv /\ [Next]_<<fileVars, indexVars>> => IInv' BY NextKeepsIInv
<1> QED BY <1>1, <1>2, PTL DEF Spec

-----------------------------------------------------------------------------
(* What follows. *)

\* Loads are where the code can be, with the database open while they sign, rebuild
\* and publish, and never rebuild more than MAX_REBUILD_ATTEMPTS times.
THEOREM TypeCorrect ==
  ASSUME IndexAssumption PROVE Spec => []IndexTypeOK
<1>1. ASSUME IInv PROVE IndexTypeOK
  <2>1. ASSUME NEW i \in Inodes PROVE db[i] \in {Empty, Broken} \/ DOMAIN db[i].rows = Files
    BY <1>1, DatabaseParts DEF IInv
  <2>2. ASSUME NEW p \in Loaders
        PROVE  /\ load[p].pc \in {"idle", "open", "sign", "rebuild", "publish", "markdown", "answer"}
               /\ load[p].rebuilds \in 0..MaxRebuilds
               /\ load[p].pc \in {"sign", "rebuild", "publish"} => load[p].handle \in Inodes
    <3>1. PICK l \in LoadSet : l = load[p] BY <1>1 DEF IInv, Shape
    <3>2. Holds(l) BY <1>1, <3>1 DEF IInv
    <3> QED BY <3>1, <3>2 DEF Holds, LoadSet
  <2> QED BY <1>1, <2>1, <2>2 DEF IndexTypeOK, IInv, Shape
<1> QED BY <1>1, Invariance, PTL

LEMMA FilesStayInBounds ==
  ASSUME IndexAssumption, FilesBounds PROVE Spec => [](FilesInv /\ InBounds)
<1>1. Init => InBounds BY BoundsHoldFirst DEF Init, IndexAssumption
<1>2. IInv /\ InBounds /\ [Next]_<<fileVars, indexVars>> => InBounds'
  <2> SUFFICES ASSUME IInv, InBounds, [Next]_<<fileVars, indexVars>> PROVE InBounds'
    OBVIOUS
  <2>1. FilesInv BY DEF IInv
  <2>2. \/ UNCHANGED fileVars \/ Advance \/ \E f \in Files : WriteFile(f) BY DEF Next
  <2> QED BY <2>1, <2>2, BoundsHold DEF Advance, IndexAssumption
<1>3. IInv => FilesInv BY DEF IInv
<1> QED BY <1>1, <1>2, <1>3, Invariance, PTL DEF Spec

\* What a load returns each file had since the load began, in the limits the
\* property names (ReadOnlyRepository._load_task_sources).
THEOREM AnswersAreRecent ==
  ASSUME IndexAssumption, FilesBounds PROVE Spec => [](IndexTypeOK /\ FilesTypeOK /\ IndexAnswerIsRecent)
<1>1. ASSUME IInv PROVE IndexAnswerIsRecent
  <2>1. SUFFICES ASSUME ~reused, NEW p \in Loaders, load[p].pc = "answer", NEW f \in Files
                 PROVE  \/ Recent(f, load[p].rows[f], load[p].start)
                        \/ /\ f \in DOMAIN load[p].fp /\ load[p].fp[f] = Missing
                           /\ load[p].rows[f] # NoFile
    BY DEF IndexAnswerIsRecent
  <2>2. MayReturn(load[p], f, load[p].rows[f]) BY <1>1, <2>1 DEF IInv, ReadsOK
  <2> QED BY <2>2 DEF MayReturn, MayAnswer
<1>2. FilesInv /\ InBounds => FilesTypeOK BY FilesAreTyped DEF IndexAssumption
<1> QED BY <1>1, <1>2, Invariance, TypeCorrect, FilesStayInBounds, PTL

\* What is left of the claim that makes publishing safe: as long as rebuilds read
\* the files, a file that still has the published mtime has the published row, or
\* lost it in a tick for which the fingerprint holds a hash.
PublishedIsOfItsTick ==
  ~reused => \A i \in Inodes : db[i] \notin {Empty, Broken} =>
    \A f \in Files : ScanOK(f, db[i].fp[f], db[i].rows[f])

THEOREM PublishedRowsAreOfTheirTick ==
  ASSUME IndexAssumption PROVE Spec => []PublishedIsOfItsTick
<1>1. ASSUME IInv PROVE PublishedIsOfItsTick
  <2>1. SUFFICES ASSUME ~reused, NEW i \in Inodes, db[i] \notin {Empty, Broken}, NEW f \in Files
                 PROVE  ScanOK(f, db[i].fp[f], db[i].rows[f])
    BY DEF PublishedIsOfItsTick
  <2>2. db[i].fp[f] \in Signatures /\ db[i].rows[f] \in Contents
    BY <1>1, <2>1, DatabaseParts DEF IInv
  <2>3. Described(f, db[i].fp[f], db[i].rows[f]) BY <2>1 DEF Described
  <2> QED BY <1>1, <2>1, <2>2, <2>3 DEF IInv, PairsOK
<1> QED BY <1>1, Invariance, PTL

-----------------------------------------------------------------------------
(* The parts of MCReads.  ViewsProofs is used twice, with the values of its *)
(* parts; that its components are those of MCReads shows when all of their  *)
(* definitions are expanded.                                                *)
P == INSTANCE ViewsProofs WITH
       Files <- Scanned, Requests <- Threads,
       Tick <- 2, Window <- 2, MaxClock <- 5, MaxWrites <- 2,
       mutex <- path, cache <- db, req <- load,
       Checkouts <- {1, 2}, Spare <- {}, Viewer <- 1, Below <- FALSE, Days <- 1,
       MaxId <- 1, MaxEdits <- 2, MaxTime <- 2, MaxScans <- 1, MaxCreates <- 0,
       Pages <- Narrow, Filtered <- Narrow, LastId <- 2, NoPage <- NoTab, MaxChanges <- 2, MaxFaults <- 1,
       x1 <- clock, x2 <- file, x3 <- lastHad, x4 <- writes, x5 <- path, x6 <- db, x7 <- load,
       x8 <- errors, x9 <- reused

Q == INSTANCE ViewsProofs WITH
       Requests <- Threads, mutex <- path, cache <- db, req <- load,
       Checkouts <- {1, 2}, Spare <- {3}, Viewer <- 1, Below <- TRUE, Days <- 0,
       MaxId <- 3, MaxEdits <- 0, MaxTime <- 1, MaxScans <- 0, MaxCreates <- 2,
       Pages <- Tabs, Filtered <- Narrow, LastId <- 1, NoPage <- NoTab, MaxChanges <- 2, MaxFaults <- 0,
       x1 <- clock, x2 <- file, x3 <- lastHad, x4 <- writes, x5 <- path, x6 <- db, x7 <- load,
       x8 <- errors, x9 <- reused

LEMMA CacheIsSame ==
  /\ (P!Init <=> C!Init)
  /\ (P!Next <=> C!Next)
  /\ (P!ScanAnswerIsRecent <=> C!ScanAnswerIsRecent)
  /\ (P!CacheAssumption <=> C!CacheAssumption)
  /\ (P!FilesBounds <=> C!FilesBounds)
  BY DEF C!FilesAssumption, P!FilesAssumption, C!FilesBounds, P!FilesBounds, C!fileVars,
         P!fileVars, C!Contents, P!Contents, C!Signatures, P!Signatures, C!Missing, P!Missing,
         C!None, P!None, C!FilesTypeOK, P!FilesTypeOK, C!FilesInit, P!FilesInit, C!Stamp, P!Stamp,
         C!WriteFile, P!WriteFile, C!Racy, P!Racy, C!FileSignature, P!FileSignature, C!First,
         P!First, C!Put, P!Put, C!HadSince, P!HadSince, C!Recent, P!Recent, C!CacheAssumption,
         P!CacheAssumption, C!cacheVars, P!cacheVars, C!NoReq, P!NoReq, C!CacheInit, P!CacheInit,
         C!CacheTypeOK, P!CacheTypeOK, C!Request, P!Request, C!Enter, P!Enter, C!Sign, P!Sign,
         C!IsCurrent, P!IsCurrent, C!IsFiles, P!IsFiles, C!Hit, P!Hit, C!Miss, P!Miss, C!Scan,
         P!Scan, C!Store, P!Store, C!ScanRaises, P!ScanRaises, C!Answer, P!Answer, C!CacheStep,
         P!CacheStep, C!Advance, P!Advance, C!Init, P!Init, C!Next, P!Next, C!AnswerIsRecent,
         P!AnswerIsRecent, C!ScanAnswerIsRecent, P!ScanAnswerIsRecent

LEMMA VisibleIsSame ==
  /\ (P!V!BranchInit <=> V!BranchInit)
  /\ (P!V!BranchNext <=> V!BranchNext)
  /\ (P!V!BranchesAssumption <=> V!BranchesAssumption)
  /\ (P!V!ShowsLatestCopy <=> V!ShowsLatestCopy)
  BY DEF V!BranchesAssumption, P!V!BranchesAssumption, V!Branches, P!V!Branches, V!Ids, P!V!Ids,
         V!NoCopy, P!V!NoCopy, V!Inf, P!V!Inf, V!Dirs, P!V!Dirs, V!Copy, P!V!Copy, V!Dirty,
         P!V!Dirty, V!Seen, P!V!Seen, V!NamesIn, P!V!NamesIn, V!Recent, P!V!Recent, V!Changed,
         P!V!Changed, V!Has, P!V!Has, V!Idle, P!V!Idle, V!NoAlloc, P!V!NoAlloc, V!BranchInit,
         P!V!BranchInit, V!Touched, P!V!Touched, V!Locked, P!V!Locked, V!Edit, P!V!Edit, V!Commit,
         P!V!Commit, V!CommitOther, P!V!CommitOther, V!Fork, P!V!Fork, V!Advance, P!V!Advance,
         V!Scanning, P!V!Scanning, V!ScanFiles, P!V!ScanFiles, V!ScanStatus, P!V!ScanStatus,
         V!ScanLog, P!V!ScanLog, V!ScanRefs, P!V!ScanRefs, V!ScanTree, P!V!ScanTree, V!Stamp,
         P!V!Stamp, V!Found, P!V!Found, V!ScanRefLog, P!V!ScanRefLog, V!Answered, P!V!Answered,
         V!Candidates, P!V!Candidates, V!Winner, P!V!Winner, V!RefNames, P!V!RefNames, V!Used,
         P!V!Used, V!Largest, P!V!Largest, V!Creating, P!V!Creating, V!BeginCreate,
         P!V!BeginCreate, V!ReadRefs, P!V!ReadRefs, V!ReadWorktrees, P!V!ReadWorktrees, V!NewId,
         P!V!NewId, V!WriteNew, P!V!WriteNew, V!BranchNext, P!V!BranchNext, V!BranchTypeOK,
         P!V!BranchTypeOK, V!VisibleIsLatest, P!V!VisibleIsLatest, V!ShowsLatestCopy,
         P!V!ShowsLatestCopy

LEMMA NewIdIsSame ==
  /\ (Q!V!BranchInit <=> N!BranchInit)
  /\ (Q!V!BranchNext <=> N!BranchNext)
  /\ (Q!V!BranchesAssumption <=> N!BranchesAssumption)
  /\ (Q!V!AllocatesFresh <=> N!AllocatesFresh)
  BY DEF N!BranchesAssumption, Q!V!BranchesAssumption, N!Branches, Q!V!Branches, N!Ids, Q!V!Ids,
         N!NoCopy, Q!V!NoCopy, N!Inf, Q!V!Inf, N!Dirs, Q!V!Dirs, N!Copy, Q!V!Copy, N!Dirty,
         Q!V!Dirty, N!Seen, Q!V!Seen, N!NamesIn, Q!V!NamesIn, N!Recent, Q!V!Recent, N!Idle,
         Q!V!Idle, N!NoAlloc, Q!V!NoAlloc, N!BranchInit, Q!V!BranchInit, N!Touched, Q!V!Touched,
         N!Locked, Q!V!Locked, N!Edit, Q!V!Edit, N!Commit, Q!V!Commit, N!CommitOther,
         Q!V!CommitOther, N!Fork, Q!V!Fork, N!Advance, Q!V!Advance, N!Scanning, Q!V!Scanning,
         N!ScanFiles, Q!V!ScanFiles, N!ScanStatus, Q!V!ScanStatus, N!ScanLog, Q!V!ScanLog,
         N!ScanRefs, Q!V!ScanRefs, N!ScanTree, Q!V!ScanTree, N!Stamp, Q!V!Stamp, N!Found,
         Q!V!Found, N!ScanRefLog, Q!V!ScanRefLog, N!Answered, Q!V!Answered, N!RefNames,
         Q!V!RefNames, N!Used, Q!V!Used, N!Largest, Q!V!Largest, N!Creating, Q!V!Creating,
         N!BeginCreate, Q!V!BeginCreate, N!ReadRefs, Q!V!ReadRefs, N!ReadWorktrees,
         Q!V!ReadWorktrees, N!NewId, Q!V!NewId, N!WriteNew, Q!V!WriteNew, N!BranchNext,
         Q!V!BranchNext, N!AllocatesFresh, Q!V!AllocatesFresh

LEMMA BrowserIsSame ==
  /\ (P!W!BrowserInit <=> W1!BrowserInit)
  /\ (P!W!BrowserNext <=> W1!BrowserNext)
  /\ (P!W!BrowserAssumption <=> W1!BrowserAssumption)
  /\ (P!W!BrowserTypeOK <=> W1!BrowserTypeOK)
  /\ (P!W!StalePagesAreTold <=> W1!StalePagesAreTold)
  /\ (P!W!ReloadsForChange <=> W1!ReloadsForChange)
  /\ (P!W!AnswersAreTrue <=> W1!AnswersAreTrue)
  /\ (P!W!WritesWhatItChecked <=> W1!WritesWhatItChecked)
  BY DEF W1!BrowserAssumption, P!W!BrowserAssumption, W1!project, P!W!project, W1!Ids, P!W!Ids,
         W1!Places, P!W!Places, W1!Kinds, P!W!Kinds, W1!NoCard, P!W!NoCard, W1!Card, P!W!Card,
         W1!Board, P!W!Board, W1!Revision, P!W!Revision, W1!References, P!W!References,
         W1!NoRequest, P!W!NoRequest, W1!NoBoard, P!W!NoBoard, W1!NewPage, P!W!NewPage,
         W1!Answers, P!W!Answers, W1!BrowserTypeOK, P!W!BrowserTypeOK, W1!BrowserInit,
         P!W!BrowserInit, W1!Change, P!W!Change, W1!Fault, P!W!Fault, W1!Reload, P!W!Reload,
         W1!Load, P!W!Load, W1!Open, P!W!Open, W1!Alive, P!W!Alive, W1!OpenDialog, P!W!OpenDialog,
         W1!CloseDialog, P!W!CloseDialog, W1!HandleBoardRevision, P!W!HandleBoardRevision,
         W1!BoardEvent, P!W!BoardEvent, W1!Poll, P!W!Poll, W1!Sent, P!W!Sent, W1!Submit,
         P!W!Submit, W1!At, P!W!At, W1!AnswerWith, P!W!AnswerWith, W1!Refuse, P!W!Refuse,
         W1!TakeLock, P!W!TakeLock, W1!LockTimeout, P!W!LockTimeout, W1!Mutable, P!W!Mutable,
         W1!TaskObjection, P!W!TaskObjection, W1!MilestoneObjection, P!W!MilestoneObjection,
         W1!Objection, P!W!Objection, W1!ReadsConfig, P!W!ReadsConfig, W1!Check, P!W!Check,
         W1!EditTask, P!W!EditTask, W1!CheckItem, P!W!CheckItem, W1!ArchiveTask, P!W!ArchiveTask,
         W1!NextId, P!W!NextId, W1!CreateTask, P!W!CreateTask, W1!RemoveMilestone,
         P!W!RemoveMilestone, W1!Write, P!W!Write, W1!Raise, P!W!Raise, W1!Answer, P!W!Answer,
         W1!Deliver, P!W!Deliver, W1!AskShutdown, P!W!AskShutdown, W1!ScheduleShutdown,
         P!W!ScheduleShutdown, W1!Stop, P!W!Stop, W1!OtherWrites, P!W!OtherWrites, W1!Moved,
         P!W!Moved, W1!BranchMoves, P!W!BranchMoves, W1!Spoil, P!W!Spoil, W1!Mend, P!W!Mend,
         W1!BrowserNext, P!W!BrowserNext, W1!StalePagesAreTold, P!W!StalePagesAreTold,
         W1!ReloadsForChange, P!W!ReloadsForChange, W1!AnswersAreTrue, P!W!AnswersAreTrue,
         W1!WritesWhatItChecked, P!W!WritesWhatItChecked

LEMMA PagesAreSame ==
  /\ (Q!W!BrowserInit <=> W2!BrowserInit)
  /\ (Q!W!BrowserNext <=> W2!BrowserNext)
  /\ (Q!W!BrowserAssumption <=> W2!BrowserAssumption)
  /\ (Q!W!BrowserTypeOK <=> W2!BrowserTypeOK)
  /\ (Q!W!StalePagesAreTold <=> W2!StalePagesAreTold)
  /\ (Q!W!ReloadsForChange <=> W2!ReloadsForChange)
  /\ (Q!W!AnswersAreTrue <=> W2!AnswersAreTrue)
  /\ (Q!W!WritesWhatItChecked <=> W2!WritesWhatItChecked)
  BY DEF W2!BrowserAssumption, Q!W!BrowserAssumption, W2!project, Q!W!project, W2!Ids, Q!W!Ids,
         W2!Places, Q!W!Places, W2!Kinds, Q!W!Kinds, W2!NoCard, Q!W!NoCard, W2!Card, Q!W!Card,
         W2!Board, Q!W!Board, W2!Revision, Q!W!Revision, W2!References, Q!W!References,
         W2!NoRequest, Q!W!NoRequest, W2!NoBoard, Q!W!NoBoard, W2!NewPage, Q!W!NewPage,
         W2!Answers, Q!W!Answers, W2!BrowserTypeOK, Q!W!BrowserTypeOK, W2!BrowserInit,
         Q!W!BrowserInit, W2!Change, Q!W!Change, W2!Fault, Q!W!Fault, W2!Reload, Q!W!Reload,
         W2!Load, Q!W!Load, W2!Open, Q!W!Open, W2!Alive, Q!W!Alive, W2!OpenDialog, Q!W!OpenDialog,
         W2!CloseDialog, Q!W!CloseDialog, W2!HandleBoardRevision, Q!W!HandleBoardRevision,
         W2!BoardEvent, Q!W!BoardEvent, W2!Poll, Q!W!Poll, W2!Sent, Q!W!Sent, W2!Submit,
         Q!W!Submit, W2!At, Q!W!At, W2!AnswerWith, Q!W!AnswerWith, W2!Refuse, Q!W!Refuse,
         W2!TakeLock, Q!W!TakeLock, W2!LockTimeout, Q!W!LockTimeout, W2!Mutable, Q!W!Mutable,
         W2!TaskObjection, Q!W!TaskObjection, W2!MilestoneObjection, Q!W!MilestoneObjection,
         W2!Objection, Q!W!Objection, W2!ReadsConfig, Q!W!ReadsConfig, W2!Check, Q!W!Check,
         W2!EditTask, Q!W!EditTask, W2!CheckItem, Q!W!CheckItem, W2!ArchiveTask, Q!W!ArchiveTask,
         W2!NextId, Q!W!NextId, W2!CreateTask, Q!W!CreateTask, W2!RemoveMilestone,
         Q!W!RemoveMilestone, W2!Write, Q!W!Write, W2!Raise, Q!W!Raise, W2!Answer, Q!W!Answer,
         W2!Deliver, Q!W!Deliver, W2!AskShutdown, Q!W!AskShutdown, W2!ScheduleShutdown,
         Q!W!ScheduleShutdown, W2!Stop, Q!W!Stop, W2!OtherWrites, Q!W!OtherWrites, W2!Moved,
         Q!W!Moved, W2!BranchMoves, Q!W!BranchMoves, W2!Spoil, Q!W!Spoil, W2!Mend, Q!W!Mend,
         W2!BrowserNext, Q!W!BrowserNext, W2!StalePagesAreTold, Q!W!StalePagesAreTold,
         W2!ReloadsForChange, Q!W!ReloadsForChange, W2!AnswersAreTrue, Q!W!AnswersAreTrue,
         W2!WritesWhatItChecked, Q!W!WritesWhatItChecked


\* A part is the component's specification, and stays one.
LEMMA CachePart == MCSpec /\ part = "cache" => P!Spec
<1>1. MCInit /\ part = "cache" => P!Init BY CacheIsSame DEF MCInit
<1>2. part = "cache" /\ [MCNext]_mcVars => (part = "cache")' /\ [P!Next]_<<P!fileVars, P!cacheVars>>
  <2>1. part = "cache" /\ MCNext => part' = part /\ C!Next BY DEF MCNext
  <2>2. UNCHANGED mcVars => part' = part /\ UNCHANGED <<P!fileVars, P!cacheVars>>
    BY DEF mcVars, fileVars, indexVars, P!fileVars, P!cacheVars
  <2> QED BY <2>1, <2>2, CacheIsSame
<1> QED BY <1>1, <1>2, PTL DEF MCSpec, P!Spec

LEMMA IndexPart == MCSpec /\ part = "index" => Spec
<1>1. MCInit /\ part = "index" => Init BY DEF MCInit
<1>2. part = "index" /\ [MCNext]_mcVars => (part = "index")' /\ [Next]_<<fileVars, indexVars>>
  <2>1. part = "index" /\ MCNext => part' = part /\ Next BY DEF MCNext
  <2>2. UNCHANGED mcVars => part' = part /\ UNCHANGED <<fileVars, indexVars>>
    BY DEF mcVars, fileVars, indexVars
  <2> QED BY <2>1, <2>2
<1> QED BY <1>1, <1>2, PTL DEF MCSpec, Spec

LEMMA VisiblePart == MCSpec /\ part = "visible" => P!V!BranchSpec
<1>1. MCInit /\ part = "visible" => P!V!BranchInit BY VisibleIsSame DEF MCInit
<1>2. part = "visible" /\ [MCNext]_mcVars => (part = "visible")' /\ [P!V!BranchNext]_P!V!branchVars
  <2>1. part = "visible" /\ MCNext => part' = part /\ V!BranchNext BY DEF MCNext
  <2>2. UNCHANGED mcVars => part' = part /\ UNCHANGED P!V!branchVars
    BY DEF mcVars, fileVars, indexVars, P!V!branchVars
  <2> QED BY <2>1, <2>2, VisibleIsSame
<1> QED BY <1>1, <1>2, PTL DEF MCSpec, P!V!BranchSpec

LEMMA NewIdPart == MCSpec /\ part = "new id" => Q!V!BranchSpec
<1>1. MCInit /\ part = "new id" => Q!V!BranchInit BY NewIdIsSame DEF MCInit
<1>2. part = "new id" /\ [MCNext]_mcVars => (part = "new id")' /\ [Q!V!BranchNext]_Q!V!branchVars
  <2>1. part = "new id" /\ MCNext => part' = part /\ N!BranchNext BY DEF MCNext
  <2>2. UNCHANGED mcVars => part' = part /\ UNCHANGED Q!V!branchVars
    BY DEF mcVars, fileVars, indexVars, Q!V!branchVars
  <2> QED BY <2>1, <2>2, NewIdIsSame
<1> QED BY <1>1, <1>2, PTL DEF MCSpec, Q!V!BranchSpec

LEMMA BrowserPart == MCSpec /\ part = "browser" => P!W!Spec
<1>1. MCInit /\ part = "browser" => P!W!BrowserInit BY BrowserIsSame DEF MCInit
<1>2. part = "browser" /\ [MCNext]_mcVars => (part = "browser")' /\ [P!W!BrowserNext]_P!W!browserVars
  <2>1. part = "browser" /\ MCNext => part' = part /\ W1!BrowserNext BY DEF MCNext
  <2>2. UNCHANGED mcVars => part' = part /\ UNCHANGED P!W!browserVars
    BY DEF mcVars, fileVars, indexVars, P!W!browserVars
  <2> QED BY <2>1, <2>2, BrowserIsSame
<1> QED BY <1>1, <1>2, PTL DEF MCSpec, P!W!Spec

LEMMA PagesPart == MCSpec /\ part = "pages" => Q!W!Spec
<1>1. MCInit /\ part = "pages" => Q!W!BrowserInit BY PagesAreSame DEF MCInit
<1>2. part = "pages" /\ [MCNext]_mcVars => (part = "pages")' /\ [Q!W!BrowserNext]_Q!W!browserVars
  <2>1. part = "pages" /\ MCNext => part' = part /\ W2!BrowserNext BY DEF MCNext
  <2>2. UNCHANGED mcVars => part' = part /\ UNCHANGED Q!W!browserVars
    BY DEF mcVars, fileVars, indexVars, Q!W!browserVars
  <2> QED BY <2>1, <2>2, PagesAreSame
<1> QED BY <1>1, <1>2, PTL DEF MCSpec, Q!W!Spec

LEMMA PartStays == ASSUME NEW CONSTANT n PROVE [MCNext]_mcVars => (part = n <=> (part = n)')
  BY DEF MCNext, mcVars

\* A request of the scan cache answers nothing older than itself (ProjectScanCache).
THEOREM ScanAnswersAreRecent == MCSpec => []ScanAnswerIsRecent
<1>1. P!Spec => []P!ScanAnswerIsRecent BY P!AnswersAreRecent, ReadsAssumption, CacheIsSame
<1>2. P!ScanAnswerIsRecent => ScanAnswerIsRecent BY CacheIsSame DEF ScanAnswerIsRecent
<1>3. ~(part = "cache") => ScanAnswerIsRecent BY DEF ScanAnswerIsRecent
<1>4. [MCNext]_mcVars => (part = "cache" <=> (part = "cache")') BY PartStays
<1> QED BY <1>1, <1>2, <1>3, <1>4, CachePart, PTL DEF MCSpec

\* A load of the index returns nothing older than itself
\* (ReadOnlyRepository._load_task_sources).
THEOREM LoadAnswersAreRecent == MCSpec => []LoadAnswerIsRecent
<1>1. Spec => [](IndexTypeOK /\ FilesTypeOK /\ IndexAnswerIsRecent) BY AnswersAreRecent, ReadsAssumption
<1>2. IndexTypeOK /\ FilesTypeOK /\ IndexAnswerIsRecent => LoadAnswerIsRecent BY DEF LoadAnswerIsRecent
<1>3. ~(part = "index") => LoadAnswerIsRecent BY DEF LoadAnswerIsRecent
<1>4. [MCNext]_mcVars => (part = "index" <=> (part = "index")') BY PartStays
<1> QED BY <1>1, <1>2, <1>3, <1>4, IndexPart, PTL DEF MCSpec

\* Of a task's copies the latest is shown (core/repository.py, runtime/git.py).
THEOREM LatestCopiesAreShown == MCSpec => []ShowsLatestCopy
<1>1. P!V!BranchSpec => []P!V!ShowsLatestCopy
  BY P!ShownCopiesAreLatest, ReadsAssumption, VisibleIsSame
<1>2. P!V!ShowsLatestCopy => ShowsLatestCopy BY VisibleIsSame DEF ShowsLatestCopy
<1>3. ~(part = "visible") => ShowsLatestCopy BY DEF ShowsLatestCopy
<1>4. [MCNext]_mcVars => (part = "visible" <=> (part = "visible")') BY PartStays
<1> QED BY <1>1, <1>2, <1>3, <1>4, VisiblePart, PTL DEF MCSpec

\* A creation takes no id that another checkout or branch uses
\* (core/repository.py, _next_task_id).
THEOREM CreationsTakeFreshIds == MCSpec => NewIdIsFresh
<1> DEFINE Step == part = "new id" => N!AllocatesFresh
<1>1. Q!V!BranchSpec => [][Q!V!AllocatesFresh]_Q!V!branchVars
  BY Q!NewIdsAreFresh, ReadsAssumption, NewIdIsSame DEF Q!V!NewIdIsFresh
<1>2. [MCNext]_mcVars /\ [Q!V!AllocatesFresh]_Q!V!branchVars => [Step]_mcVars
  BY NewIdIsSame DEF MCNext, mcVars, fileVars, indexVars, Q!V!branchVars
<1>3. ~(part = "new id") => [Step]_mcVars OBVIOUS
<1>4. [MCNext]_mcVars => (part = "new id" <=> (part = "new id")') BY PartStays
<1> HIDE DEF Step
<1>5. MCSpec => [][Step]_mcVars BY <1>1, <1>2, <1>3, <1>4, NewIdPart, PTL DEF MCSpec
<1> QED BY <1>5 DEF Step, NewIdIsFresh

\* No page is left with an older board and none loads itself for nothing
\* (browser/assets/board.js, browser/service.py).
THEOREM PagesFollowTheBoard == MCSpec => PagesFollowBoard
<1> DEFINE Step == /\ part = "browser" => W1!ReloadsForChange
                   /\ part = "pages"   => W2!ReloadsForChange
<1>1. P!W!Spec => [](P!W!BrowserTypeOK /\ P!W!StalePagesAreTold) /\ [][P!W!ReloadsForChange]_P!W!browserVars
  BY P!PagesAreTold, ReadsAssumption, BrowserIsSame DEF P!W!PagesFollowBoard
<1>2. Q!W!Spec => [](Q!W!BrowserTypeOK /\ Q!W!StalePagesAreTold) /\ [][Q!W!ReloadsForChange]_Q!W!browserVars
  BY Q!PagesAreTold, ReadsAssumption, PagesAreSame DEF Q!W!PagesFollowBoard
<1>3. /\ part = "browser" => P!W!BrowserTypeOK /\ P!W!StalePagesAreTold
      /\ part = "pages"   => Q!W!BrowserTypeOK /\ Q!W!StalePagesAreTold
      => PageIsArmed
  BY BrowserIsSame, PagesAreSame DEF PageIsArmed
<1>4. /\ [MCNext]_mcVars
      /\ part = "browser" => [P!W!ReloadsForChange]_P!W!browserVars
      /\ part = "pages"   => [Q!W!ReloadsForChange]_Q!W!browserVars
      => [Step]_mcVars
  BY BrowserIsSame, PagesAreSame DEF MCNext, mcVars, fileVars, indexVars, P!W!browserVars, Q!W!browserVars
<1>5. [MCNext]_mcVars => (part = "browser" <=> (part = "browser")') BY PartStays
<1>6. [MCNext]_mcVars => (part = "pages" <=> (part = "pages")') BY PartStays
<1> HIDE DEF Step
<1>7. MCSpec => []PageIsArmed /\ [][Step]_mcVars
  BY <1>1, <1>2, <1>3, <1>4, <1>5, <1>6, BrowserPart, PagesPart, PTL DEF MCSpec
<1> QED BY <1>7 DEF Step, PagesFollowBoard

\* What an answer says was done, and on what was checked (browser/service.py).
THEOREM RequestsAreDone == MCSpec => BrowserWrites
<1> DEFINE Step == /\ part = "browser" => W1!WritesWhatItChecked
                   /\ part = "pages"   => W2!WritesWhatItChecked
<1>1. P!W!Spec => []P!W!AnswersAreTrue /\ [][P!W!WritesWhatItChecked]_P!W!browserVars
  BY P!RequestsAreAnsweredAsDone, ReadsAssumption, BrowserIsSame DEF P!W!BrowserWrites
<1>2. Q!W!Spec => []Q!W!AnswersAreTrue /\ [][Q!W!WritesWhatItChecked]_Q!W!browserVars
  BY Q!RequestsAreAnsweredAsDone, ReadsAssumption, PagesAreSame DEF Q!W!BrowserWrites
<1>3. /\ part = "browser" => P!W!AnswersAreTrue
      /\ part = "pages"   => Q!W!AnswersAreTrue
      => RequestsAreAnswered
  BY BrowserIsSame, PagesAreSame DEF RequestsAreAnswered
<1>4. /\ [MCNext]_mcVars
      /\ part = "browser" => [P!W!WritesWhatItChecked]_P!W!browserVars
      /\ part = "pages"   => [Q!W!WritesWhatItChecked]_Q!W!browserVars
      => [Step]_mcVars
  BY BrowserIsSame, PagesAreSame DEF MCNext, mcVars, fileVars, indexVars, P!W!browserVars, Q!W!browserVars
<1>5. [MCNext]_mcVars => (part = "browser" <=> (part = "browser")') BY PartStays
<1>6. [MCNext]_mcVars => (part = "pages" <=> (part = "pages")') BY PartStays
<1> HIDE DEF Step
<1>7. MCSpec => []RequestsAreAnswered /\ [][Step]_mcVars
  BY <1>1, <1>2, <1>3, <1>4, <1>5, <1>6, BrowserPart, PagesPart, PTL DEF MCSpec
<1> QED BY <1>7 DEF Step, BrowserWrites
=============================================================================
