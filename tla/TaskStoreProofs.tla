-------------------------- MODULE TaskStoreProofs --------------------------
(***************************************************************************)
(* For all tasks, titles, ids and numbers of faults: the store is type     *)
(* correct, no step loses a task, no id names two tasks, a rollback leaves *)
(* nothing behind, a success adds no duplicate, a renumbering keeps every  *)
(* reference, and a scan finds its task.                                   *)
(*                                                                         *)
(* NothingLost rests on facts about the writes an operation still has to   *)
(* do, has done and may have to undo, which no state predicate of          *)
(* TaskStore mentions: what a write replaces and what undoing it puts back *)
(* are files of the same task, and an old name goes only when a new one is *)
(* there.  Sound says so.  Each later section states what its property     *)
(* needs beyond that, and every step that could disturb it.                *)
(***************************************************************************)
EXTENDS TaskStore, FiniteSetTheorems, WellFoundedInduction, TLAPS

\* The writes of the operation, done or not.
Pending == Range(op.todo) \cup Range(op.done)

\* What the operation writes, whatever the files are.
Coherent(writes, unlinks) ==
  /\ \A w \in writes : w.undo.born = w.content.born
  /\ \A v, w \in writes : v.to = w.to => v.content.born = w.content.born
  /\ \A v, w \in writes : v.from # v.to => w.from # v.to
  /\ \A w \in writes, p \in unlinks : w.from # w.to => w.to # p

\* A write replaces a file of its own task, and the file it moves is there.
Fits(writes) ==
  \A w \in writes :
    /\ w.to \in DOMAIN files => files[w.to].born = w.content.born
    /\ w.from # w.to => w.from \in DOMAIN files /\ files[w.from].born = w.content.born

\* What is to be unlinked is there, and its task is written under another name.
Covered(writes, unlinks) ==
  \A p \in unlinks : \E w \in writes : w.to # p /\ w.content.born = files[p].born

Sound ==
  /\ op \in Op
  /\ Coherent(Pending, Range(op.unlinks))
  /\ Fits(Pending)
  /\ Len(op.unlinks) <= 1
  /\ Range(op.unlinks) \subseteq DOMAIN files
  /\ op.rolling => op.done # <<>>
  /\ ~op.rolling => /\ \A w \in Range(op.done) : w.to \in DOMAIN files
                    /\ Covered(Pending, Range(op.unlinks))

FilesOK == files \in FileMaps /\ IsFiniteSet(DOMAIN files)

IInv == FilesOK /\ (op # NoOp => Sound)

-----------------------------------------------------------------------------
(* Files and sequences. *)

LEMMA FileMapsDef ==
  \A fs : fs \in FileMaps <=> /\ DOMAIN fs \subseteq Paths
                              /\ fs \in [DOMAIN fs -> Contents]
<1>. SUFFICES ASSUME NEW fs
             PROVE  fs \in FileMaps <=> /\ DOMAIN fs \subseteq Paths
                                        /\ fs \in [DOMAIN fs -> Contents]
  OBVIOUS
<1>1. fs \in FileMaps <=> \E D \in SUBSET Paths : fs \in [D -> Contents]
  BY DEF FileMaps
<1>2. \A D : fs \in [D -> Contents] => DOMAIN fs = D
  OBVIOUS
<1>. QED
  BY <1>1, <1>2

LEMMA PutFiles ==
  ASSUME FilesOK, NEW p \in Paths, NEW c \in Contents, Put(p, c)
  PROVE  /\ FilesOK'
         /\ DOMAIN files' = DOMAIN files \cup {p}
         /\ \A q \in DOMAIN files' : files'[q] = IF q = p THEN c ELSE files[q]
<1>1. DOMAIN files' = DOMAIN files \cup {p}
  BY DEF Put
<1>2. \A q \in DOMAIN files' : files'[q] = IF q = p THEN c ELSE files[q]
  BY <1>1 DEF Put
<1>3. IsFiniteSet(DOMAIN files')
  BY <1>1, FS_AddElement DEF FilesOK
<1>4. files' \in [DOMAIN files' -> Contents] /\ DOMAIN files' \subseteq Paths
  <2>1. files \in [DOMAIN files -> Contents] /\ DOMAIN files \subseteq Paths
    BY FileMapsDef DEF FilesOK
  <2>. QED
    BY <1>1, <2>1 DEF Put
<1>. QED
  BY <1>1, <1>2, <1>3, <1>4, FileMapsDef DEF FilesOK

LEMMA UnlinkFiles ==
  ASSUME FilesOK, NEW p, files' = Unlinked(p)
  PROVE  /\ FilesOK'
         /\ DOMAIN files' = DOMAIN files \ {p}
         /\ \A q \in DOMAIN files' : files'[q] = files[q]
<1>1. DOMAIN files' = DOMAIN files \ {p} /\ \A q \in DOMAIN files' : files'[q] = files[q]
  BY DEF Unlinked
<1>2. IsFiniteSet(DOMAIN files')
  BY <1>1, FS_RemoveElement DEF FilesOK
<1>3. files \in [DOMAIN files -> Contents] /\ DOMAIN files \subseteq Paths
  BY FileMapsDef DEF FilesOK
<1>4. files' \in [DOMAIN files' -> Contents] /\ DOMAIN files' \subseteq Paths
  BY <1>1, <1>3 DEF Unlinked
<1>. QED
  BY <1>1, <1>2, <1>4, FileMapsDef DEF FilesOK

LEMMA RenameFiles ==
  ASSUME FilesOK, NEW p \in DOMAIN files, NEW q \in Paths, files' = Renamed(p, q)
  PROVE  /\ FilesOK'
         /\ DOMAIN files' = (DOMAIN files \ {p}) \cup {q}
         /\ \A r \in DOMAIN files' : files'[r] = IF r = q THEN files[p] ELSE files[r]
<1>1. DOMAIN files' = (DOMAIN files \ {p}) \cup {q}
  BY DEF Renamed
<1>2. \A r \in DOMAIN files' : files'[r] = IF r = q THEN files[p] ELSE files[r]
  BY <1>1 DEF Renamed
<1>3. IsFiniteSet(DOMAIN files')
  <2>1. IsFiniteSet(DOMAIN files \ {p})
    BY FS_RemoveElement DEF FilesOK
  <2>. QED
    BY <1>1, <2>1, FS_AddElement
<1>4. files \in [DOMAIN files -> Contents] /\ DOMAIN files \subseteq Paths
  BY FileMapsDef DEF FilesOK
<1>5. files' \in [DOMAIN files' -> Contents] /\ DOMAIN files' \subseteq Paths
  BY <1>1, <1>4 DEF Renamed
<1>. QED
  BY <1>1, <1>2, <1>3, <1>5, FileMapsDef DEF FilesOK

LEMMA TakeHead ==
  ASSUME NEW S, NEW s \in Seq(S), s # <<>>
  PROVE  /\ Head(s) \in S /\ Tail(s) \in Seq(S) /\ Len(s) \in Nat \ {0}
         /\ Range(s) = {Head(s)} \cup Range(Tail(s))
<1>1. Head(s) \in S /\ Tail(s) \in Seq(S) /\ Len(s) \in Nat \ {0}
  OBVIOUS
<1>2. /\ DOMAIN Tail(s) = 1..(Len(s) - 1) /\ DOMAIN s = 1..Len(s)
      /\ \A n \in 1..(Len(s) - 1) : Tail(s)[n] = s[n + 1]
      /\ Head(s) = s[1]
  BY <1>1
<1>3. Range(s) \subseteq {Head(s)} \cup Range(Tail(s))
  <2>. SUFFICES ASSUME NEW n \in 1..Len(s), n # 1 PROVE s[n] \in Range(Tail(s))
    BY <1>2 DEF Range
  <2>1. n - 1 \in 1..(Len(s) - 1) /\ (n - 1) + 1 = n
    BY <1>1
  <2>. QED
    BY <1>2, <2>1 DEF Range
<1>4. Range(Tail(s)) \subseteq Range(s) /\ Head(s) \in Range(s)
  <2>1. \A n \in 1..(Len(s) - 1) : n + 1 \in 1..Len(s)
    BY <1>1
  <2>. QED
    BY <1>1, <1>2, <2>1 DEF Range
<1>. QED
  BY <1>1, <1>3, <1>4

LEMMA Appended ==
  ASSUME NEW S, NEW s \in Seq(S), NEW x \in S
  PROVE  Append(s, x) \in Seq(S) /\ Range(Append(s, x)) = Range(s) \cup {x}
<1>1. /\ Append(s, x) \in Seq(S) /\ Len(s) \in Nat
      /\ DOMAIN Append(s, x) = 1..(Len(s) + 1) /\ DOMAIN s = 1..Len(s)
      /\ \A n \in 1..Len(s) : Append(s, x)[n] = s[n]
      /\ Append(s, x)[Len(s) + 1] = x
  OBVIOUS
<1>2. 1..(Len(s) + 1) = 1..Len(s) \cup {Len(s) + 1}
  BY <1>1
<1>. QED
  BY <1>1, <1>2 DEF Range

LEMMA DropLast ==
  ASSUME NEW S, NEW s \in Seq(S), s # <<>>
  PROVE  /\ Last(s) \in Range(s) /\ Front(s) \in Seq(S) /\ Range(Front(s)) \subseteq Range(s)
         /\ Len(s) # 1 => Front(s) # <<>>
<1>1. Len(s) \in Nat \ {0} /\ DOMAIN s = 1..Len(s)
  OBVIOUS
<1>2. /\ Front(s) \in Seq(S) /\ DOMAIN Front(s) = 1..(Len(s) - 1) /\ Len(Front(s)) = Len(s) - 1
      /\ \A n \in 1..(Len(s) - 1) : Front(s)[n] = s[n]
  BY <1>1 DEF Front
<1>3. 1..(Len(s) - 1) \subseteq 1..Len(s) /\ Len(s) \in 1..Len(s)
  BY <1>1
<1>. QED
  BY <1>1, <1>2, <1>3 DEF Range, Last

-----------------------------------------------------------------------------
(* The steps of an operation. *)

\* An operation begins with writes that are coherent and fit the files.
LEMMA BeginIInv ==
  ASSUME IInv, NEW kind \in Kinds, NEW writes \in Seq(Writes), NEW unlinks \in Seq(Paths),
         Begin(kind, writes, unlinks),
         Coherent(Range(writes), Range(unlinks)), Fits(Range(writes)),
         Len(unlinks) <= 1, Range(unlinks) \subseteq DOMAIN files,
         Covered(Range(writes), Range(unlinks))
  PROVE  IInv'
<1>1. UNCHANGED files /\ op' = [kind |-> kind, before |-> files, todo |-> writes, done |-> <<>>,
                               unlinks |-> unlinks, rolling |-> FALSE, spoilt |-> FALSE]
  BY DEF Begin
<1>2. op' \in Op
  BY <1>1 DEF Op, IInv, FilesOK
<1>3. /\ op'.todo = writes /\ op'.done = <<>> /\ op'.unlinks = unlinks /\ op'.rolling = FALSE
      /\ Range(op'.done) = {} /\ Pending' = Range(writes)
  BY <1>1 DEF Pending, Range
<1>. QED
  BY <1>1, <1>2, <1>3 DEF IInv, FilesOK, Sound, Coherent, Fits, Covered

\* An operation that writes one file, and unlinks the one it comes from.
LEMMA BeginMove ==
  ASSUME IInv, NEW kind \in Kinds, NEW p \in DOMAIN files, NEW q \in Paths,
         NEW c \in Contents, c.born = files[p].born,
         q = p \/ q \notin DOMAIN files,
         NEW unlinks, unlinks = <<>> \/ (unlinks = <<p>> /\ q # p),
         Begin(kind, <<MoveTo(p, q, c)>>, unlinks)
  PROVE  IInv'
<1>1. p \in Paths /\ files[p] \in Contents
  BY FileMapsDef DEF IInv, FilesOK
<1>. DEFINE w == MoveTo(p, q, c)
<1>2. w \in Writes /\ w.from = p /\ w.to = q /\ w.content = c /\ w.undo = files[p]
  BY <1>1 DEF MoveTo, Writes
<1>3. Range(<<w>>) = {w} /\ <<w>> \in Seq(Writes)
  BY <1>2 DEF Range
<1>4. unlinks \in Seq(Paths) /\ Len(unlinks) <= 1 /\ Range(unlinks) \subseteq {p}
      /\ (q = p => Range(unlinks) = {})
  <2>1. CASE unlinks = <<>>
    BY <2>1 DEF Range
  <2>2. CASE unlinks = <<p>> /\ q # p
    <3>1. <<p>> \in Seq(Paths) /\ Len(<<p>>) = 1
      BY <1>1
    <3>2. Range(<<p>>) = {p}
      BY DEF Range
    <3>. QED
      BY <2>2, <3>1, <3>2
  <2>. QED
    BY <2>1, <2>2
<1>. HIDE DEF w
<1>5. Coherent({w}, Range(unlinks)) /\ Fits({w}) /\ Covered({w}, Range(unlinks))
  BY <1>2, <1>4 DEF Coherent, Fits, Covered
<1>6. Begin(kind, <<w>>, unlinks)
  BY DEF w
<1>. QED
  BY <1>3, <1>4, <1>5, <1>6, BeginIInv

\* An operation that writes a new file.
LEMMA BeginCreate ==
  ASSUME IInv, NEW p \in Paths, p \notin DOMAIN files, NEW c \in Contents,
         Begin("create", <<[from |-> p, to |-> p, content |-> c, undo |-> c]>>, <<>>)
  PROVE  IInv'
<1>. DEFINE w == [from |-> p, to |-> p, content |-> c, undo |-> c]
<1>1. w \in Writes /\ w.from = p /\ w.to = p /\ w.content = c /\ w.undo = c
  BY DEF Writes
<1>2. Range(<<w>>) = {w} /\ <<w>> \in Seq(Writes)
  BY <1>1 DEF Range
<1>3. <<>> \in Seq(Paths) /\ Range(<<>>) = {} /\ Len(<<>>) <= 1 /\ "create" \in Kinds
  BY DEF Range, Kinds
<1>. HIDE DEF w
<1>4. Coherent({w}, {}) /\ Fits({w}) /\ Covered({w}, {})
  BY <1>1 DEF Coherent, Fits, Covered
<1>5. Begin("create", <<w>>, <<>>)
  BY DEF w
<1>. QED
  BY <1>2, <1>3, <1>4, <1>5, BeginIInv

\* After End nothing is left to be sound.
LEMMA EndIInv ==
  ASSUME FilesOK', End
  PROVE  IInv'
  BY DEF IInv, End

LEMMA WriteIInv ==
  ASSUME IInv, Write
  PROVE  IInv' /\ Lineages(files) \subseteq Lineages(files')
<1>. DEFINE w == Head(op.todo)
<1>1. op # NoOp /\ ~op.rolling /\ op.todo # <<>> /\ Sound /\ op \in Op
  BY DEF Write, AtWrite, IInv, Sound
<1>2. /\ op.todo \in Seq(Writes) /\ op.done \in Seq(Writes)
      /\ w \in Writes /\ Tail(op.todo) \in Seq(Writes)
      /\ Range(op.todo) = {w} \cup Range(Tail(op.todo))
  BY <1>1, TakeHead DEF Op
<1>3. Put(w.to, w.content) /\ w.to \in Paths /\ w.content \in Contents
  BY <1>2 DEF Write, Writes
<1>4. w \in Pending
  BY <1>2 DEF Pending
<1>. HIDE DEF w
<1>5. /\ FilesOK' /\ DOMAIN files' = DOMAIN files \cup {w.to}
      /\ \A q \in DOMAIN files' : files'[q] = IF q = w.to THEN w.content ELSE files[q]
  BY <1>3, PutFiles DEF IInv
<1>6. \A q \in DOMAIN files : files'[q].born = files[q].born
  BY <1>1, <1>4, <1>5 DEF Sound, Fits
<1>7. Lineages(files) \subseteq Lineages(files')
  BY <1>5, <1>6 DEF Lineages
<1>8. CASE Tail(op.todo) = <<>> /\ op.unlinks = <<>>
  BY <1>5, <1>7, <1>8, EndIInv DEF Write
<1>9. CASE ~(Tail(op.todo) = <<>> /\ op.unlinks = <<>>)
  <2>1. op' = [op EXCEPT !.todo = Tail(@), !.done = Append(@, w)]
    BY <1>9 DEF Write, w
  <2>2. Append(op.done, w) \in Seq(Writes) /\ Range(Append(op.done, w)) = Range(op.done) \cup {w}
    BY <1>2, Appended
  <2>3. /\ op'.todo = Tail(op.todo) /\ op'.done = Append(op.done, w)
        /\ op'.unlinks = op.unlinks /\ op'.rolling = op.rolling /\ op' \in Op
    BY <1>1, <1>2, <2>1, <2>2 DEF Op
  <2>4. Pending' = Pending
    BY <1>2, <2>2, <2>3 DEF Pending
  <2>5. Fits(Pending)'
    <3>1. \A v \in Pending : v.to \in DOMAIN files' => files'[v.to].born = v.content.born
      BY <1>1, <1>4, <1>5 DEF Sound, Fits, Coherent
    <3>2. \A v \in Pending : v.from # v.to =>
            v.from \in DOMAIN files' /\ files'[v.from].born = v.content.born
      BY <1>1, <1>5, <1>6 DEF Sound, Fits
    <3>. QED
      BY <2>4, <3>1, <3>2 DEF Fits
  <2>6. \A v \in Range(op'.done) : v.to \in DOMAIN files'
    BY <1>1, <1>5, <2>2, <2>3 DEF Sound
  <2>7. Covered(Pending, Range(op.unlinks))'
    BY <1>1, <1>5, <1>6, <2>3, <2>4 DEF Sound, Covered
  <2>8. Sound'
    BY <1>1, <1>5, <2>3, <2>4, <2>5, <2>6, <2>7 DEF Sound, Coherent
  <2>. QED
    BY <1>5, <1>7, <2>8 DEF IInv
<1>. QED
  BY <1>8, <1>9

LEMMA UndoIInv ==
  ASSUME IInv, UndoWrite
  PROVE  IInv' /\ Lineages(files) \subseteq Lineages(files')
<1>. DEFINE w == Last(op.done)
<1>1. op # NoOp /\ op.rolling /\ op.done # <<>> /\ Sound /\ op \in Op
  BY DEF UndoWrite, AtUndo, IInv, Sound
<1>2. /\ op.done \in Seq(Writes) /\ w \in Range(op.done)
      /\ Front(op.done) \in Seq(Writes) /\ (Len(op.done) # 1 => Front(op.done) # <<>>)
      /\ Range(Front(op.done)) \subseteq Range(op.done)
  BY <1>1, DropLast DEF Op
<1>3. w \in Pending /\ w \in Writes
  BY <1>2 DEF Pending, Range
<1>4. IF w.from = w.to THEN Put(w.to, w.undo) ELSE files' = Unlinked(w.to)
  BY DEF UndoWrite
<1>. HIDE DEF w
<1>5. w.to \in Paths /\ w.undo \in Contents /\ w.undo.born = w.content.born
  BY <1>1, <1>3 DEF Writes, Sound, Coherent
<1>6. /\ FilesOK'
      /\ \A q \in DOMAIN files : q # w.to => q \in DOMAIN files' /\ files'[q] = files[q]
      /\ \A q \in DOMAIN files' : q # w.to => q \in DOMAIN files
      /\ IF w.from = w.to THEN w.to \in DOMAIN files' /\ files'[w.to] = w.undo
         ELSE w.to \notin DOMAIN files'
  <2>1. CASE w.from = w.to
    <3>1. /\ FilesOK' /\ DOMAIN files' = DOMAIN files \cup {w.to}
          /\ \A q \in DOMAIN files' : files'[q] = IF q = w.to THEN w.undo ELSE files[q]
      BY <1>4, <1>5, <2>1, PutFiles DEF IInv
    <3>. QED
      BY <2>1, <3>1
  <2>2. CASE w.from # w.to
    <3>1. /\ FilesOK' /\ DOMAIN files' = DOMAIN files \ {w.to}
          /\ \A q \in DOMAIN files' : files'[q] = files[q]
      BY <1>4, <2>2, UnlinkFiles DEF IInv
    <3>. QED
      BY <2>2, <3>1
  <2>. QED
    BY <2>1, <2>2
<1>7. Lineages(files) \subseteq Lineages(files')
  <2>1. \A q \in DOMAIN files : \E r \in DOMAIN files' : files'[r].born = files[q].born
    <3>. SUFFICES ASSUME NEW q \in DOMAIN files, q = w.to
                 PROVE  \E r \in DOMAIN files' : files'[r].born = files[q].born
      BY <1>6
    <3>1. files[q].born = w.content.born
      BY <1>1, <1>3 DEF Sound, Fits
    <3>2. CASE w.from = w.to
      BY <1>5, <1>6, <3>1, <3>2
    <3>3. CASE w.from # w.to
      BY <1>1, <1>3, <1>6, <3>1, <3>3 DEF Sound, Fits
    <3>. QED
      BY <3>2, <3>3
  <2>. QED
    BY <2>1 DEF Lineages
<1>8. CASE Len(op.done) = 1
  BY <1>6, <1>7, <1>8, EndIInv DEF UndoWrite
<1>9. CASE Len(op.done) # 1
  <2>1. op' = [op EXCEPT !.done = Front(@)]
    BY <1>9 DEF UndoWrite
  <2>2. /\ op'.todo = op.todo /\ op'.done = Front(op.done) /\ op'.done # <<>>
        /\ op'.unlinks = op.unlinks /\ op'.rolling = op.rolling /\ op' \in Op
    BY <1>1, <1>2, <1>9, <2>1 DEF Op
  <2>3. Pending' \subseteq Pending
    BY <1>2, <2>2 DEF Pending
  <2>4. Fits(Pending)'
    <3>1. \A v \in Pending : v.to \in DOMAIN files' => files'[v.to].born = v.content.born
      BY <1>1, <1>3, <1>5, <1>6 DEF Sound, Fits, Coherent
    <3>2. \A v \in Pending : v.from # v.to =>
            v.from \in DOMAIN files' /\ files'[v.from].born = v.content.born
      <4>. SUFFICES ASSUME NEW v \in Pending, v.from # v.to
                   PROVE  v.from \in DOMAIN files' /\ files'[v.from].born = v.content.born
        OBVIOUS
      <4>1. v.from \in DOMAIN files /\ files[v.from].born = v.content.born
        BY <1>1 DEF Sound, Fits
      <4>2. CASE v.from = w.to
        <5>1. w.from = w.to /\ files[w.to].born = w.content.born
          BY <1>1, <1>3, <4>1, <4>2 DEF Sound, Coherent, Fits
        <5>. QED
          BY <1>5, <1>6, <4>1, <4>2, <5>1
      <4>3. CASE v.from # w.to
        BY <1>6, <4>1, <4>3
      <4>. QED
        BY <4>2, <4>3
    <3>. QED
      BY <2>3, <3>1, <3>2 DEF Fits
  <2>5. Range(op.unlinks) \subseteq DOMAIN files'
    BY <1>1, <1>3, <1>6 DEF Sound, Coherent
  <2>6. Coherent(Pending, Range(op.unlinks))'
    BY <1>1, <2>2, <2>3 DEF Sound, Coherent
  <2>7. Sound'
    BY <1>1, <2>2, <2>4, <2>5, <2>6 DEF Sound
  <2>. QED
    BY <1>6, <1>7, <2>7 DEF IInv
<1>. QED
  BY <1>8, <1>9

\* The steps that change no file: a write or a rollback step fails.
LEMMA FailIInv ==
  ASSUME IInv, WriteFails \/ UndoFails \/ UnlinkFails \/ Crash
  PROVE  IInv' /\ UNCHANGED files
<1>1. UNCHANGED files /\ op # NoOp /\ FilesOK' /\ Sound /\ op \in Op
  BY DEF WriteFails, UndoFails, UnlinkFails, Crash, AtWrite, AtUndo, AtUnlink, IInv, FilesOK, Sound
<1>2. CASE End
  BY <1>1, <1>2, EndIInv
<1>3. CASE WriteFails /\ ~End
  <2>1. op' = [op EXCEPT !.rolling = TRUE] /\ op.done # <<>>
    BY <1>3 DEF WriteFails
  <2>2. /\ op'.todo = op.todo /\ op'.done = op.done /\ op'.unlinks = op.unlinks
        /\ op'.rolling = TRUE /\ op' \in Op
    BY <1>1, <2>1 DEF Op
  <2>. QED
    BY <1>1, <2>1, <2>2 DEF IInv, Sound, Pending, Coherent, Fits
<1>4. CASE UndoFails /\ ~End
  <2>1. op' = [op EXCEPT !.done = Front(@), !.spoilt = TRUE] /\ Len(op.done) # 1 /\ op.rolling
    BY <1>4 DEF UndoFails, AtUndo
  <2>2. /\ Front(op.done) \in Seq(Writes) /\ Front(op.done) # <<>>
        /\ Range(Front(op.done)) \subseteq Range(op.done)
    BY <1>1, <2>1, DropLast DEF Op, Sound
  <2>3. /\ op'.todo = op.todo /\ op'.done = Front(op.done) /\ op'.unlinks = op.unlinks
        /\ op'.rolling = op.rolling /\ op' \in Op
    BY <1>1, <2>1, <2>2 DEF Op
  <2>4. Pending' \subseteq Pending
    BY <2>2, <2>3 DEF Pending
  <2>5. Coherent(Pending, Range(op.unlinks))' /\ Fits(Pending)'
    BY <1>1, <2>3, <2>4 DEF Sound, Coherent, Fits
  <2>. QED
    BY <1>1, <2>1, <2>2, <2>3, <2>5 DEF IInv, Sound
<1>. QED
  BY <1>1, <1>2, <1>3, <1>4 DEF UnlinkFails, Crash

\* There is at most one name to unlink, and the operation ends with it.
LEMMA UnlinkEnds ==
  ASSUME IInv, Unlink
  PROVE  End /\ Range(op.unlinks) = {Head(op.unlinks)}
<1>1. op \in Op /\ Len(op.unlinks) <= 1 /\ op.unlinks # <<>> /\ op.unlinks \in Seq(Paths)
  BY DEF Unlink, AtUnlink, IInv, Sound, Op
<1>2. Len(op.unlinks) = 1
  <2>1. Len(op.unlinks) \in Nat \ {0}
    BY <1>1, TakeHead
  <2>2. \A n \in Nat \ {0} : n <= 1 => n = 1
    OBVIOUS
  <2>. QED
    BY <1>1, <2>1, <2>2
<1>3. Range(op.unlinks) = {Head(op.unlinks)}
  <2>1. DOMAIN op.unlinks = {1} /\ Head(op.unlinks) = op.unlinks[1]
    BY <1>1, <1>2
  <2>. QED
    BY <2>1 DEF Range
<1>. QED
  BY <1>2, <1>3 DEF Unlink

LEMMA UnlinkIInv ==
  ASSUME IInv, Unlink
  PROVE  IInv' /\ Lineages(files) \subseteq Lineages(files')
<1>. DEFINE p == Head(op.unlinks)
<1>1. /\ op # NoOp /\ ~op.rolling /\ op.todo = <<>> /\ op.unlinks # <<>>
      /\ Sound /\ op \in Op /\ files' = Unlinked(p)
  BY DEF Unlink, AtUnlink, IInv, Sound
<1>2. op.unlinks \in Seq(Paths) /\ Len(op.unlinks) <= 1
  BY <1>1 DEF Op, Sound
<1>3. End /\ p \in Range(op.unlinks)
  BY UnlinkEnds
<1>. HIDE DEF p
<1>4. /\ FilesOK' /\ DOMAIN files' = DOMAIN files \ {p}
      /\ \A q \in DOMAIN files' : files'[q] = files[q]
  BY <1>1, UnlinkFiles DEF IInv
<1>5. Pending = Range(op.done)
  BY <1>1 DEF Pending, Range
<1>6. PICK w \in Range(op.done) : w.to # p /\ w.content.born = files[p].born
  BY <1>1, <1>3, <1>5 DEF Sound, Covered
<1>7. w.to \in DOMAIN files' /\ files'[w.to].born = files[p].born
  BY <1>1, <1>4, <1>5, <1>6 DEF Sound, Fits
<1>. QED
  BY <1>3, <1>4, <1>7, EndIInv DEF Lineages

LEMMA MoveIInv ==
  ASSUME IInv, NEW p \in DOMAIN files, NEW dir \in Dirs, Move(p, dir)
  PROVE  IInv' /\ Lineages(files) \subseteq Lineages(files')
<1>. DEFINE q == [p EXCEPT !.dir = dir]
<1>1. p \in Paths
  BY FileMapsDef DEF IInv, FilesOK
<1>2. q \in Paths
  BY <1>1 DEF Paths
<1>3. op = NoOp /\ op' = NoOp /\ q \notin DOMAIN files /\ files' = Renamed(p, q)
  BY DEF Move
<1>. HIDE DEF q
<1>4. /\ FilesOK' /\ DOMAIN files' = (DOMAIN files \ {p}) \cup {q}
      /\ \A r \in DOMAIN files' : files'[r] = IF r = q THEN files[p] ELSE files[r]
  BY <1>2, <1>3, RenameFiles DEF IInv
<1>. QED
  BY <1>3, <1>4 DEF IInv, Lineages

-----------------------------------------------------------------------------
(* The operations. *)

LEMMA ResolveFiles == \A i : \A p \in Resolve(i) : p \in DOMAIN files /\ p.id = i
  BY DEF Resolve, Here

LEMMA CreateIInv ==
  ASSUME IInv, CreateTask \/ CreateDraft
  PROVE  IInv' /\ UNCHANGED files
<1>1. CASE CreateTask
  <2>1. PICK i \in Ids \ Reserved, s \in Slugs, b \in Unborn, deps \in DepSets :
          LET p == [dir |-> "tasks", id |-> i, slug |-> s]
              c == Content(b, deps)
          IN  /\ p \notin DOMAIN files
              /\ Begin("create", <<[from |-> p, to |-> p, content |-> c, undo |-> c]>>, <<>>)
    BY <1>1 DEF CreateTask
  <2>2. [dir |-> "tasks", id |-> i, slug |-> s] \in Paths /\ Content(b, deps) \in Contents
    BY DEF Paths, Dirs, Lookup, Contents, Content, Unborn
  <2>. QED
    BY <2>1, <2>2, BeginCreate DEF Begin
<1>2. CASE CreateDraft
  <2>1. PICK p \in Paths, c \in Contents :
          /\ p \notin DOMAIN files
          /\ Begin("create", <<[from |-> p, to |-> p, content |-> c, undo |-> c]>>, <<>>)
    BY <1>2 DEF CreateDraft
  <2>. QED
    BY <2>1, BeginCreate DEF Begin
<1>. QED
  BY <1>1, <1>2

\* The operations that write one file under one name or another.
LEMMA OneFileIInv ==
  ASSUME IInv, EditTask \/ PromoteDraft \/ DemoteTask \/ RenumberFile
  PROVE  IInv' /\ UNCHANGED files
<1>1. \A p \in DOMAIN files : p \in Paths /\ files[p] \in Contents
  BY FileMapsDef DEF IInv, FilesOK
<1>2. CASE EditTask
  <2>1. PICK i \in Reserved, s \in Slugs, deps \in DepSets, p \in DOMAIN files :
          LET q == [p EXCEPT !.slug = s]
              c == [files[p] EXCEPT !.deps = deps]
          IN  /\ q = p \/ q \notin DOMAIN files
              /\ Begin("edit", <<MoveTo(p, q, c)>>, IF q = p THEN <<>> ELSE <<p>>)
    BY <1>2, ResolveFiles DEF EditTask
  <2>. DEFINE q == [p EXCEPT !.slug = s]
              c == [files[p] EXCEPT !.deps = deps]
              u == IF q = p THEN <<>> ELSE <<p>>
  <2>2. q \in Paths
    BY <1>1 DEF Paths
  <2>3. c \in Contents /\ c.born = files[p].born
    BY <1>1 DEF Contents
  <2>4. "edit" \in Kinds /\ (u = <<>> \/ (u = <<p>> /\ q # p))
    BY DEF Kinds
  <2>5. (q = p \/ q \notin DOMAIN files) /\ Begin("edit", <<MoveTo(p, q, c)>>, u)
    BY <2>1
  <2>. HIDE DEF q, c, u
  <2>. QED
    BY <2>2, <2>3, <2>4, <2>5, BeginMove DEF Begin
<1>3. CASE PromoteDraft \/ DemoteTask \/ RenumberFile
  <2>1. PICK kind \in Kinds, p \in DOMAIN files, q \in Paths :
          /\ q # p /\ q \notin DOMAIN files
          /\ Begin(kind, <<MoveTo(p, q, files[p])>>, <<p>>)
    <3>1. \A p \in DOMAIN files : \A q : q \notin DOMAIN files => q # p
      OBVIOUS
    <3>2. CASE PromoteDraft
      BY <3>1, <3>2 DEF PromoteDraft, Here, Kinds
    <3>3. CASE DemoteTask
      BY <3>1, <3>3, ResolveFiles DEF DemoteTask, Kinds
    <3>4. CASE RenumberFile
      <4>1. PICK p \in Tasks, new \in Ids :
              LET q == [p EXCEPT !.id = new]
              IN  q \notin DOMAIN files
                  /\ Begin("renumberFile", <<MoveTo(p, q, files[p])>>, <<p>>)
        BY <3>4 DEF RenumberFile
      <4>2. p \in DOMAIN files /\ [p EXCEPT !.id = new] \in Paths
        BY <1>1 DEF Tasks, Paths
      <4>3. "renumberFile" \in Kinds
        BY DEF Kinds
      <4>. QED
        BY <3>1, <4>1, <4>2, <4>3
    <3>. QED
      BY <1>3, <3>2, <3>3, <3>4
  <2>. QED
    BY <1>1, <2>1, BeginMove DEF Begin
<1>. QED
  BY <1>2, <1>3

\* Renaming an id in a set of dependencies adds none to them.
LEMMA RepointedContent ==
  ASSUME NEW c \in Contents, NEW old, NEW new \in Ids
  PROVE  Repointed(c, old, new) \in Contents /\ Repointed(c, old, new).born = c.born
<1>. DEFINE Swap(d) == IF d = old THEN new ELSE d
            deps    == {Swap(d) : d \in c.deps}
<1>1. c.deps \subseteq Ids /\ Cardinality(c.deps) <= MaxDeps
  BY DEF Contents, DepSets
<1>2. IsFiniteSet(c.deps)
  <2>1. IsFiniteSet(1..MaxId)
    BY BoundsAssumption, FS_Interval
  <2>. QED
    BY <1>1, <2>1, FS_Subset DEF Ids
<1>3. Cardinality(deps) <= Cardinality(c.deps) /\ IsFiniteSet(deps)
  <2>1. [d \in c.deps |-> Swap(d)] \in Surjection(c.deps, deps)
    BY DEF Surjection
  <2>. QED
    BY <1>2, <2>1, FS_Surjection
<1>4. Cardinality(deps) <= MaxDeps
  BY <1>1, <1>2, <1>3, BoundsAssumption, FS_CardinalityType
<1>5. deps \in DepSets
  BY <1>1, <1>4 DEF DepSets
<1>. QED
  BY <1>5 DEF Repointed, Contents

\* The sequences of SetToSeqs list every element.
LEMMA SetToSeqsRange ==
  ASSUME NEW S, IsFiniteSet(S), NEW s \in SetToSeqs(S)
  PROVE  s \in Seq(S) /\ Range(s) = S
<1>. DEFINE D == 1..Cardinality(S)
<1>1. Cardinality(S) \in Nat
  BY FS_CardinalityType
<1>2. s \in [D -> S] /\ \A i, j \in D : i # j => s[i] # s[j]
  BY DEF SetToSeqs
<1>3. s \in Seq(S)
  BY <1>1, <1>2
<1>4. Range(s) \subseteq S /\ s \in Bijection(D, Range(s))
  <2>1. Range(s) \subseteq S /\ s \in [D -> Range(s)]
    BY <1>2 DEF Range
  <2>2. \A t \in Range(s) : \E i \in D : s[i] = t
    BY <1>2 DEF Range
  <2>3. IsInjective(s)
    BY <1>2 DEF IsInjective
  <2>. QED
    BY <2>1, <2>2, <2>3 DEF Bijection, Injection, Surjection
<1>5. IsFiniteSet(D) /\ Cardinality(D) = Cardinality(S)
  <2>1. IsFiniteSet(1..Cardinality(S))
        /\ Cardinality(1..Cardinality(S)) =
             IF 1 > Cardinality(S) THEN 0 ELSE Cardinality(S) - 1 + 1
    BY <1>1, FS_Interval
  <2>. QED
    BY <1>1, <2>1
<1>6. Cardinality(Range(s)) = Cardinality(S)
  <2>1. ExistsBijection(D, Range(s))
    BY <1>4 DEF ExistsBijection
  <2>. QED
    BY <1>5, <2>1, FS_Bijection
<1>. QED
  BY <1>3, <1>4, <1>6, FS_Subset

LEMMA RenumberIInv ==
  ASSUME IInv, RenumberTask
  PROVE  IInv' /\ UNCHANGED files
<1>1. PICK old \in Reserved, new \in Ids \ Reserved :
        LET root    == CHOOSE p \in Tasks : p.id = old
            target  == [root EXCEPT !.id = new]
            Change(p) == MoveTo(p, IF p = root THEN target ELSE p, Repointed(files[p], old, new))
        IN  /\ target \notin DOMAIN files
            /\ \E order \in ScanOrders({root} \cup Referrers(old)) :
                 Begin("renumber", [n \in DOMAIN order |-> Change(order[n])], <<root>>)
  BY DEF RenumberTask
<1>. DEFINE root   == CHOOSE p \in Tasks : p.id = old
            target == [root EXCEPT !.id = new]
            moved  == {root} \cup Referrers(old)
            To(p)  == IF p = root THEN target ELSE p
            Change(p) == MoveTo(p, To(p), Repointed(files[p], old, new))
<1>2. PICK order \in ScanOrders(moved) :
        Begin("renumber", [n \in DOMAIN order |-> Change(order[n])], <<root>>)
  BY <1>1
<1>3. \A p \in DOMAIN files : p \in Paths /\ files[p] \in Contents
  BY FileMapsDef DEF IInv, FilesOK
<1>4. root \in DOMAIN files /\ target \in Paths /\ target \notin DOMAIN files
  <2>1. root \in Tasks
    BY DEF Reserved
  <2>2. root \in DOMAIN files
    BY <2>1 DEF Tasks
  <2>. QED
    BY <1>1, <1>3, <2>2 DEF Paths
<1>5. moved \subseteq DOMAIN files /\ root \in moved
  BY <1>4 DEF Referrers, Tasks, Here
<1>6. order \in Seq(moved) /\ Range(order) = moved
  <2>1. IsFiniteSet(moved)
    BY <1>5, FS_Subset DEF IInv, FilesOK
  <2>2. order \in SetToSeqs(moved)
    BY DEF ScanOrders
  <2>. QED
    BY <2>1, <2>2, SetToSeqsRange
<1>. HIDE DEF root, target, moved
<1>7. \A p \in moved : /\ Repointed(files[p], old, new) \in Contents
                       /\ Repointed(files[p], old, new).born = files[p].born
  BY <1>1, <1>3, <1>5, RepointedContent
<1>8. \A p \in moved : /\ Change(p) \in Writes
                       /\ Change(p).from = p /\ Change(p).to = To(p)
                       /\ Change(p).content.born = files[p].born
                       /\ Change(p).undo.born = files[p].born
  BY <1>3, <1>4, <1>5, <1>7 DEF MoveTo, Writes
<1>. HIDE DEF Change
<1>. DEFINE writes == [n \in DOMAIN order |-> Change(order[n])]
<1>9. writes \in Seq(Writes) /\ Range(writes) = {Change(p) : p \in moved}
  <2>1. Len(order) \in Nat /\ DOMAIN order = 1..Len(order) /\ \A n \in DOMAIN order : order[n] \in moved
    BY <1>6
  <2>2. writes \in [1..Len(order) -> Writes]
    BY <1>8, <2>1
  <2>3. writes \in Seq(Writes)
    BY <2>1, <2>2
  <2>4. \A p \in moved : \E n \in DOMAIN order : order[n] = p
    BY <1>6 DEF Range
  <2>. QED
    BY <2>1, <2>3, <2>4 DEF Range
<1>10. Begin("renumber", writes, <<root>>)
  BY <1>2
<1>. HIDE DEF writes
<1>11. <<root>> \in Seq(Paths) /\ Len(<<root>>) <= 1 /\ Range(<<root>>) = {root}
  BY <1>3, <1>4 DEF Range
<1>12. \A p \in moved : /\ p = root => To(p) = target
                        /\ p # root => To(p) = p
  OBVIOUS
<1>. HIDE DEF To
<1>13. Coherent(Range(writes), {root})
  <2>1. \A p, q \in moved : To(p) = To(q) => p = q
    BY <1>4, <1>5, <1>12
  <2>2. \A p, q \in moved : p # To(p) => q # To(p)
    BY <1>4, <1>5, <1>12
  <2>3. \A p \in moved : p # To(p) => To(p) # root
    BY <1>4, <1>5, <1>12
  <2>. QED
    BY <1>8, <1>9, <2>1, <2>2, <2>3 DEF Coherent
<1>14. Fits(Range(writes))
  BY <1>4, <1>5, <1>8, <1>9, <1>12 DEF Fits
<1>15. Covered(Range(writes), {root})
  BY <1>4, <1>5, <1>8, <1>9, <1>12 DEF Covered
<1>16. "renumber" \in Kinds /\ {root} \subseteq DOMAIN files
  BY <1>4 DEF Kinds
<1>. QED
  BY <1>9, <1>10, <1>11, <1>13, <1>14, <1>15, <1>16, BeginIInv DEF Begin

-----------------------------------------------------------------------------
(* The invariant. *)

LEMMA InitIInv == Init => IInv
<1>. SUFFICES ASSUME Init PROVE IInv
  OBVIOUS
<1>1. op = NoOp /\ DOMAIN files = {} /\ files \in [{} -> Contents]
  BY DEF Init
<1>. QED
  BY <1>1, FileMapsDef, FS_EmptySet DEF IInv, FilesOK

\* One step keeps the invariant and every task.
LEMMA NextIInv ==
  ASSUME IInv, [Next]_vars
  PROVE  IInv' /\ Lineages(files) \subseteq Lineages(files')
<1>1. CASE UNCHANGED <<files, op>>
  BY <1>1 DEF IInv, FilesOK, Sound, Pending, Coherent, Fits, Covered, Lineages
<1>2. CASE ScanBegin \/ ScanRead \/ ScanNextDir \/ ScanEnd \/ UNCHANGED vars
  BY <1>1, <1>2 DEF ScanBegin, ScanRead, ScanNextDir, ScanEnd, vars
<1>3. CASE CreateTask \/ CreateDraft
  BY <1>3, CreateIInv DEF Lineages
<1>4. CASE EditTask \/ PromoteDraft \/ DemoteTask \/ RenumberFile
  BY <1>4, OneFileIInv DEF Lineages
<1>5. CASE RenumberTask
  BY <1>5, RenumberIInv DEF Lineages
<1>6. CASE ArchiveTask \/ CompleteTask \/ ArchiveDraft
  <2>1. PICK p \in DOMAIN files, dir \in Dirs : Move(p, dir)
    <3>1. {"archive", "completed", "archivedDrafts"} \subseteq Dirs
      BY DEF Dirs, Lookup
    <3>. QED
      BY <1>6, <3>1, ResolveFiles DEF ArchiveTask, CompleteTask, ArchiveDraft, Here
  <2>. QED
    BY <2>1, MoveIInv
<1>7. CASE Write
  BY <1>7, WriteIInv
<1>8. CASE WriteFails \/ UndoFails \/ UnlinkFails \/ Crash
  BY <1>8, FailIInv DEF Lineages
<1>9. CASE UndoWrite
  BY <1>9, UndoIInv
<1>10. CASE Unlink
  BY <1>10, UnlinkIInv
<1>. QED
  BY <1>2, <1>3, <1>4, <1>5, <1>6, <1>7, <1>8, <1>9, <1>10 DEF Next

\* The files are files and the operation at work is sound: a write replaces a file
\* of its own task, and an old name goes only when a new one is there
\* (repository.py:817-819, 1205-1238).
THEOREM Invariance == Spec => []IInv
<1>. QED
  BY InitIInv, NextIInv, PTL DEF Spec

-----------------------------------------------------------------------------
(* Ids.  While an operation works, no file has the id of one of its writes      *)
(* unless it is of the same task, and no two of its writes have one id unless   *)
(* they are of one task.                                                        *)

Names(writes) ==
  \A w \in writes : w.to.dir \in Lookup =>
    /\ \A p \in Tasks : p.id = w.to.id => files[p].born = w.content.born
    /\ \A v \in writes : v.to.dir \in Lookup /\ v.to.id = w.to.id => v.content.born = w.content.born

IdsOK == IdsNameOneTask /\ (op # NoOp => Names(Pending))

\* A bounded, non-empty set of numbers has a maximum.
LEMMA MaxIsMax ==
  ASSUME NEW n \in Nat, NEW S, S \subseteq 0..n, S # {}
  PROVE  Max(S) \in S /\ \A x \in S : Max(S) >= x
<1>. DEFINE T == {n - x : x \in S}
<1>a. \A x \in S : x \in Nat /\ x <= n /\ n - x \in Nat
  <2>1. \A x \in 0..n : x \in Nat /\ x <= n /\ n - x \in Nat
    OBVIOUS
  <2>. QED
    BY <2>1
<1>1. T \subseteq Nat /\ T # {}
  BY <1>a
<1>2. PICK t \in T : \A u \in T : ~(<<u, t>> \in OpToRel(<, Nat))
  BY <1>1, WFMin, NatLessThanWellFounded
<1>3. \A u \in T : ~(u < t)
  BY <1>1, <1>2 DEF OpToRel
<1>4. PICK m \in S : t = n - m
  BY <1>2
<1>5. \A x \in S : m >= x
  <2>. SUFFICES ASSUME NEW x \in S PROVE m >= x
    OBVIOUS
  <2>1. ~(n - x < n - m)
    BY <1>3, <1>4
  <2>2. m \in Nat /\ x \in Nat
    BY <1>a
  <2>3. \A i, j \in Nat : ~(n - i < n - j) => j >= i
    OBVIOUS
  <2>. QED
    BY <2>1, <2>2, <2>3
<1>. QED
  BY <1>4, <1>5 DEF Max

\* The id that promote_draft allocates names no task.
LEMMA NextTaskIdIsFree ==
  ASSUME FilesOK
  PROVE  NextTaskId \notin Reserved
<1>1. Reserved \subseteq Ids
  BY FileMapsDef DEF FilesOK, Reserved, Tasks, Paths
<1>2. Reserved \cup {0} \subseteq 0..MaxId /\ Reserved \cup {0} # {}
  BY <1>1, BoundsAssumption DEF Ids
<1>3. \A x \in Reserved : Max(Reserved \cup {0}) >= x
  BY <1>2, MaxIsMax, BoundsAssumption
<1>4. Max(Reserved \cup {0}) \in Nat
  BY <1>2, MaxIsMax, BoundsAssumption
<1>5. Reserved \subseteq Nat
  BY <1>1, BoundsAssumption DEF Ids
<1>. QED
  BY <1>3, <1>4, <1>5 DEF NextTaskId

LEMMA BeginIdsOK ==
  ASSUME IdsNameOneTask, NEW kind, NEW writes, NEW unlinks,
         Begin(kind, writes, unlinks), Names(Range(writes))
  PROVE  IdsOK'
<1>1. UNCHANGED files /\ op'.todo = writes /\ op'.done = <<>>
  BY DEF Begin
<1>2. Pending' = Range(writes)
  BY <1>1 DEF Pending, Range
<1>. QED
  BY <1>1, <1>2 DEF IdsOK, IdsNameOneTask, Names, Tasks

\* A file of one of the operation's tasks is written.
LEMMA PutIdsNameOneTask ==
  ASSUME IdsOK, op # NoOp, NEW w \in Pending, NEW c, c.born = w.content.born,
         DOMAIN files' = DOMAIN files \cup {w.to},
         \A q \in DOMAIN files' : files'[q] = IF q = w.to THEN c ELSE files[q]
  PROVE  IdsNameOneTask'
<1>1. \A p \in Tasks' : /\ p.dir \in Lookup
                        /\ p # w.to => p \in Tasks /\ files'[p] = files[p]
                        /\ p = w.to => files'[p].born = w.content.born
  BY DEF Tasks
<1>. SUFFICES ASSUME NEW p \in Tasks', NEW q \in Tasks', p.id = q.id
             PROVE  files'[p].born = files'[q].born
  BY DEF IdsNameOneTask
<1>. QED
  BY <1>1 DEF IdsOK, IdsNameOneTask, Names

LEMMA PutNames ==
  ASSUME IdsOK, op # NoOp, NEW w \in Pending, NEW c, c.born = w.content.born,
         DOMAIN files' = DOMAIN files \cup {w.to},
         \A q \in DOMAIN files' : files'[q] = IF q = w.to THEN c ELSE files[q],
         Pending' \subseteq Pending
  PROVE  Names(Pending)'
<1>1. \A p \in Tasks' : /\ p.dir \in Lookup
                        /\ p # w.to => p \in Tasks /\ files'[p] = files[p]
                        /\ p = w.to => files'[p].born = w.content.born
  BY DEF Tasks
<1>. QED
  BY <1>1 DEF IdsOK, Names

\* Files go, and those that stay are what they were.
LEMMA FewerIds ==
  ASSUME IdsOK, \A q \in DOMAIN files' : q \in DOMAIN files /\ files'[q] = files[q]
  PROVE  IdsNameOneTask'
<1>1. \A p \in Tasks' : p \in Tasks /\ files'[p] = files[p]
  BY DEF Tasks
<1>. QED
  BY <1>1 DEF IdsOK, IdsNameOneTask

LEMMA FewerNames ==
  ASSUME IdsOK, op # NoOp, Pending' \subseteq Pending,
         \A q \in DOMAIN files' : q \in DOMAIN files /\ files'[q] = files[q]
  PROVE  Names(Pending)'
<1>1. \A p \in Tasks' : p \in Tasks /\ files'[p] = files[p]
  BY DEF Tasks
<1>. QED
  BY <1>1 DEF IdsOK, Names

\* What each step of an operation leaves of its writes.
LEMMA StepPending ==
  ASSUME IInv, Write \/ UndoWrite \/ UndoFails \/ WriteFails \/ Unlink
  PROVE  op # NoOp /\ (End \/ Pending' \subseteq Pending)
<1>1. op # NoOp /\ Sound /\ op \in Op
  BY DEF Write, UndoWrite, UndoFails, WriteFails, Unlink, AtWrite, AtUndo, AtUnlink, IInv, Sound
<1>2. CASE Write /\ ~End
  <2>1. op' = [op EXCEPT !.todo = Tail(@), !.done = Append(@, Head(op.todo))] /\ op.todo # <<>>
    BY <1>2 DEF Write, AtWrite
  <2>2. /\ Range(op.todo) = {Head(op.todo)} \cup Range(Tail(op.todo))
        /\ Range(Append(op.done, Head(op.todo))) = Range(op.done) \cup {Head(op.todo)}
    BY <1>1, <2>1, TakeHead, Appended DEF Op
  <2>3. op'.todo = Tail(op.todo) /\ op'.done = Append(op.done, Head(op.todo))
    BY <1>1, <2>1 DEF Op
  <2>. QED
    BY <1>1, <2>2, <2>3 DEF Pending
<1>3. CASE (UndoWrite \/ UndoFails) /\ ~End
  <2>1. /\ op' = [op EXCEPT !.done = Front(@)]
           \/ op' = [op EXCEPT !.done = Front(@), !.spoilt = TRUE]
        /\ op.rolling
    BY <1>3 DEF UndoWrite, UndoFails, AtUndo
  <2>2. Range(Front(op.done)) \subseteq Range(op.done)
    BY <1>1, <2>1, DropLast DEF Op, Sound
  <2>3. op'.todo = op.todo /\ op'.done = Front(op.done)
    BY <1>1, <2>1 DEF Op
  <2>. QED
    BY <1>1, <2>2, <2>3 DEF Pending
<1>4. CASE (WriteFails \/ Unlink) /\ ~End
  <2>1. op' = [op EXCEPT !.rolling = TRUE] \/ op' = [op EXCEPT !.unlinks = Tail(@)]
    BY <1>4 DEF WriteFails, Unlink
  <2>2. op'.todo = op.todo /\ op'.done = op.done
    BY <1>1, <2>1 DEF Op
  <2>. QED
    BY <1>1, <2>2 DEF Pending
<1>. QED
  BY <1>1, <1>2, <1>3, <1>4

LEMMA FileStepIdsOK ==
  ASSUME IInv, IdsOK, Write \/ UndoWrite \/ Unlink
  PROVE  IdsOK'
<1>1. op # NoOp /\ Sound /\ op \in Op /\ FilesOK
  BY DEF Write, UndoWrite, Unlink, AtWrite, AtUndo, AtUnlink, IInv, Sound
<1>2. CASE \E w \in Pending, c \in Contents : Put(w.to, c) /\ c.born = w.content.born
  <2>1. PICK w \in Pending, c \in Contents : Put(w.to, c) /\ c.born = w.content.born
    BY <1>2
  <2>2. w.to \in Paths
    <3>1. op.todo \in Seq(Writes) /\ op.done \in Seq(Writes)
      BY <1>1 DEF Op
    <3>2. w \in Writes
      BY <3>1 DEF Pending, Range
    <3>. QED
      BY <3>2 DEF Writes
  <2>3. /\ DOMAIN files' = DOMAIN files \cup {w.to}
        /\ \A q \in DOMAIN files' : files'[q] = IF q = w.to THEN c ELSE files[q]
    BY <1>1, <2>1, <2>2, PutFiles
  <2>4. IdsNameOneTask'
    BY <1>1, <2>1, <2>3, PutIdsNameOneTask
  <2>5. CASE Pending' \subseteq Pending
    BY <1>1, <2>1, <2>3, <2>4, <2>5, PutNames DEF IdsOK
  <2>. QED
    BY <2>4, <2>5, StepPending DEF IdsOK, End
<1>3. CASE \E p : files' = Unlinked(p)
  <2>1. \A q \in DOMAIN files' : q \in DOMAIN files /\ files'[q] = files[q]
    BY <1>3 DEF Unlinked
  <2>2. IdsNameOneTask'
    BY <2>1, FewerIds
  <2>3. CASE Pending' \subseteq Pending
    BY <1>1, <2>1, <2>2, <2>3, FewerNames DEF IdsOK
  <2>. QED
    BY <2>2, <2>3, StepPending DEF IdsOK, End
<1>4. CASE Write
  <2>1. Head(op.todo) \in Pending /\ Head(op.todo) \in Writes
    BY <1>1, <1>4, TakeHead DEF Write, AtWrite, Op, Pending
  <2>2. Head(op.todo).content \in Contents
    BY <2>1 DEF Writes
  <2>. QED
    BY <1>2, <1>4, <2>1, <2>2 DEF Write
<1>5. CASE UndoWrite
  <2>. DEFINE w == Last(op.done)
  <2>1. w \in Range(op.done) /\ op.done \in Seq(Writes)
    BY <1>1, <1>5, DropLast DEF UndoWrite, AtUndo, Op, Sound
  <2>2. w \in Pending /\ w \in Writes
    BY <2>1 DEF Pending, Range
  <2>3. w.undo \in Contents /\ w.undo.born = w.content.born
    BY <1>1, <2>2 DEF Writes, Sound, Coherent
  <2>4. Put(w.to, w.undo) \/ files' = Unlinked(w.to)
    BY <1>5 DEF UndoWrite
  <2>. QED
    BY <1>2, <1>3, <2>2, <2>3, <2>4
<1>6. CASE Unlink
  BY <1>3, <1>6 DEF Unlink
<1>. QED
  BY <1>4, <1>5, <1>6

LEMMA FailIdsOK ==
  ASSUME IInv, IdsOK, WriteFails \/ UndoFails \/ UnlinkFails \/ Crash
  PROVE  IdsOK'
<1>1. UNCHANGED files /\ (End \/ Pending' \subseteq Pending) /\ op # NoOp
  <2>1. UNCHANGED files
    BY FailIInv
  <2>2. UnlinkFails \/ Crash => End /\ op # NoOp
    BY DEF UnlinkFails, Crash, AtUnlink
  <2>. QED
    BY <2>1, <2>2, StepPending
<1>2. Tasks' = Tasks
  BY <1>1 DEF Tasks
<1>. QED
  BY <1>1, <1>2 DEF IdsOK, IdsNameOneTask, Names, End

LEMMA MoveIdsOK ==
  ASSUME IInv, IdsOK, ArchiveTask \/ CompleteTask \/ ArchiveDraft
  PROVE  IdsOK'
<1>1. PICK p \in DOMAIN files, dir \in Dirs :
        Move(p, dir) /\ (dir \in Lookup => p \in Tasks)
  <2>1. \A i : \A p \in Resolve(i) : p \in Tasks
    BY DEF Resolve, Here, Tasks, Lookup
  <2>2. {"archive", "completed", "archivedDrafts"} \subseteq Dirs /\ "archivedDrafts" \notin Lookup
    BY DEF Dirs, Lookup
  <2>3. Tasks \subseteq DOMAIN files /\ \A dir : Here(dir) \subseteq DOMAIN files
    BY DEF Tasks, Here
  <2>. QED
    BY <2>1, <2>2, <2>3 DEF ArchiveTask, CompleteTask, ArchiveDraft
<1>. DEFINE q == [p EXCEPT !.dir = dir]
<1>2. q.id = p.id /\ q.dir = dir
  <2>1. p \in Paths
    BY FileMapsDef DEF IInv, FilesOK
  <2>. QED
    BY <2>1 DEF Paths
<1>3. op' = NoOp /\ files' = Renamed(p, q)
  BY <1>1 DEF Move
<1>. HIDE DEF q
<1>4. \A r \in Tasks' : \/ r \in Tasks /\ files'[r] = files[r]
                        \/ r = q /\ p \in Tasks /\ r.id = p.id /\ files'[r] = files[p]
  BY <1>1, <1>2, <1>3 DEF Tasks, Renamed
<1>5. IdsNameOneTask'
  BY <1>4 DEF IdsOK, IdsNameOneTask
<1>. QED
  BY <1>3, <1>5 DEF IdsOK

LEMMA CreateIdsOK ==
  ASSUME IInv, IdsOK, CreateTask \/ CreateDraft
  PROVE  IdsOK'
<1>1. PICK p, c : 
        /\ Begin("create", <<[from |-> p, to |-> p, content |-> c, undo |-> c]>>, <<>>)
        /\ p.dir \in Lookup => p.id \notin Reserved
  <2>1. \A i, s : /\ [dir |-> "tasks", id |-> i, slug |-> s].id = i
                 /\ [dir |-> "drafts", id |-> i, slug |-> s].dir \notin Lookup
    BY DEF Lookup
  <2>2. CASE CreateTask
    <3>1. PICK i \in Ids \ Reserved, s \in Slugs, b \in Unborn, deps \in DepSets :
            LET p == [dir |-> "tasks", id |-> i, slug |-> s]
                c == Content(b, deps)
            IN  Begin("create", <<[from |-> p, to |-> p, content |-> c, undo |-> c]>>, <<>>)
      BY <2>2 DEF CreateTask
    <3>. QED
      BY <2>1, <3>1
  <2>3. CASE CreateDraft
    <3>1. PICK s \in Slugs, b \in Unborn, deps \in SUBSET Reserved :
            LET p == [dir |-> "drafts", id |-> NextDraftId, slug |-> s]
                c == Content(b, deps)
            IN  Begin("create", <<[from |-> p, to |-> p, content |-> c, undo |-> c]>>, <<>>)
      BY <2>3 DEF CreateDraft
    <3>. QED
      BY <2>1, <3>1
  <2>. QED
    BY <2>2, <2>3
<1>. DEFINE w == [from |-> p, to |-> p, content |-> c, undo |-> c]
<1>2. Range(<<w>>) = {w} /\ w.to = p
  BY DEF Range
<1>. HIDE DEF w
<1>3. Names({w})
  BY <1>1, <1>2 DEF Names, Reserved
<1>. QED
  BY <1>1, <1>2, <1>3, BeginIdsOK DEF IdsOK, w

LEMMA MoveToIdsOK ==
  ASSUME IdsOK, NEW kind, NEW p, NEW q, NEW c, NEW unlinks,
         Begin(kind, <<MoveTo(p, q, c)>>, unlinks),
         q.dir \in Lookup => \A r \in Tasks : r.id = q.id => files[r].born = c.born
  PROVE  IdsOK'
<1>. DEFINE w == MoveTo(p, q, c)
<1>1. Range(<<w>>) = {w} /\ w.to = q /\ w.content = c
  BY DEF Range, MoveTo
<1>. HIDE DEF w
<1>2. Names({w})
  BY <1>1 DEF Names
<1>3. Begin(kind, <<w>>, unlinks)
  BY DEF w
<1>. QED
  BY <1>1, <1>2, <1>3, BeginIdsOK DEF IdsOK

\* What promote_draft, demote_task and the renumbering of a file write has an id
\* that no task has.
LEMMA FreshIds ==
  ASSUME IInv, PromoteDraft \/ DemoteTask \/ RenumberFile
  PROVE  \E kind : \E p \in DOMAIN files : \E q :
           /\ Begin(kind, <<MoveTo(p, q, files[p])>>, <<p>>)
           /\ q.dir \in Lookup => q.id \notin Reserved
<1>a. \A p \in DOMAIN files : p \in Paths /\ files[p] \in Contents
  BY FileMapsDef DEF IInv, FilesOK
<1>b. \A i : \A p \in Resolve(i) : p \in DOMAIN files
  BY ResolveFiles
<1>1. CASE PromoteDraft
  <2>1. PICK p \in DOMAIN files :
          LET q == [p EXCEPT !.dir = "tasks", !.id = NextTaskId]
          IN  Begin("promote", <<MoveTo(p, q, files[p])>>, <<p>>)
    BY <1>1 DEF PromoteDraft, Here
  <2>2. [p EXCEPT !.dir = "tasks", !.id = NextTaskId].id = NextTaskId
    BY <1>a DEF Paths
  <2>. QED
    BY <2>1, <2>2, NextTaskIdIsFree DEF IInv
<1>2. CASE DemoteTask
  <2>1. PICK p \in DOMAIN files :
          LET q == [p EXCEPT !.dir = "drafts", !.id = NextDraftId]
          IN  Begin("demote", <<MoveTo(p, q, files[p])>>, <<p>>)
    BY <1>b, <1>2 DEF DemoteTask
  <2>2. [p EXCEPT !.dir = "drafts", !.id = NextDraftId].dir \notin Lookup
    BY <1>a DEF Paths, Lookup
  <2>. QED
    BY <2>1, <2>2
<1>3. CASE RenumberFile
  <2>1. PICK p \in Tasks, new \in Ids \ Reserved :
          LET q == [p EXCEPT !.id = new]
          IN  Begin("renumberFile", <<MoveTo(p, q, files[p])>>, <<p>>)
    BY <1>3 DEF RenumberFile
  <2>2. p \in DOMAIN files /\ [p EXCEPT !.id = new].id = new
    BY <1>a DEF Paths, Tasks
  <2>. QED
    BY <2>1, <2>2
<1>. QED
  BY <1>1, <1>2, <1>3

LEMMA OneFileIdsOK ==
  ASSUME IInv, IdsOK, EditTask \/ PromoteDraft \/ DemoteTask \/ RenumberFile
  PROVE  IdsOK'
<1>1. \A p \in DOMAIN files : p \in Paths /\ files[p] \in Contents
  BY FileMapsDef DEF IInv, FilesOK
<1>2. \A i : \A p \in Resolve(i) : p \in Tasks /\ p \in DOMAIN files
  BY DEF Resolve, Here, Tasks, Lookup
<1>3. CASE EditTask
  <2>1. PICK i \in Reserved, s \in Slugs, deps \in DepSets, p \in Tasks :
          LET q == [p EXCEPT !.slug = s]
              c == [files[p] EXCEPT !.deps = deps]
          IN  Begin("edit", <<MoveTo(p, q, c)>>, IF q = p THEN <<>> ELSE <<p>>)
    BY <1>2, <1>3 DEF EditTask
  <2>. DEFINE q == [p EXCEPT !.slug = s]
              c == [files[p] EXCEPT !.deps = deps]
              u == IF q = p THEN <<>> ELSE <<p>>
  <2>2. p \in DOMAIN files /\ p \in Paths /\ files[p] \in Contents
    BY <1>1 DEF Tasks
  <2>3. q.id = p.id /\ c.born = files[p].born
    BY <2>2 DEF Paths, Contents
  <2>4. Begin("edit", <<MoveTo(p, q, c)>>, u)
    BY <2>1
  <2>. HIDE DEF q, c, u
  <2>5. \A r \in Tasks : r.id = q.id => files[r].born = c.born
    BY <2>3 DEF IdsOK, IdsNameOneTask
  <2>. QED
    BY <2>4, <2>5, MoveToIdsOK
<1>4. CASE PromoteDraft \/ DemoteTask \/ RenumberFile
  <2>1. PICK kind :
          \E p \in DOMAIN files : \E q :
            /\ Begin(kind, <<MoveTo(p, q, files[p])>>, <<p>>)
            /\ q.dir \in Lookup => q.id \notin Reserved
    BY <1>4, FreshIds
  <2>2. PICK p \in DOMAIN files :
          \E q : /\ Begin(kind, <<MoveTo(p, q, files[p])>>, <<p>>)
                 /\ q.dir \in Lookup => q.id \notin Reserved
    BY <2>1
  <2>3. PICK q : /\ Begin(kind, <<MoveTo(p, q, files[p])>>, <<p>>)
                 /\ q.dir \in Lookup => q.id \notin Reserved
    BY <2>2
  <2>. QED
    BY <2>3, MoveToIdsOK DEF Reserved
<1>. QED
  BY <1>3, <1>4

LEMMA RenumberIdsOK ==
  ASSUME IInv, IdsOK, RenumberTask
  PROVE  IdsOK'
<1>1. PICK old \in Reserved, new \in Ids \ Reserved :
        LET root    == CHOOSE p \in Tasks : p.id = old
            target  == [root EXCEPT !.id = new]
            Change(p) == MoveTo(p, IF p = root THEN target ELSE p, Repointed(files[p], old, new))
        IN  \E order \in ScanOrders({root} \cup Referrers(old)) :
              Begin("renumber", [n \in DOMAIN order |-> Change(order[n])], <<root>>)
  BY DEF RenumberTask
<1>. DEFINE root   == CHOOSE p \in Tasks : p.id = old
            target == [root EXCEPT !.id = new]
            moved  == {root} \cup Referrers(old)
            Change(p) == MoveTo(p, IF p = root THEN target ELSE p, Repointed(files[p], old, new))
<1>2. PICK order \in ScanOrders(moved) :
        Begin("renumber", [n \in DOMAIN order |-> Change(order[n])], <<root>>)
  BY <1>1
<1>3. \A p \in DOMAIN files : p \in Paths /\ files[p] \in Contents
  BY FileMapsDef DEF IInv, FilesOK
<1>4. root \in Tasks /\ root \in DOMAIN files /\ target.id = new
  <2>1. root \in Tasks
    BY DEF Reserved
  <2>2. root \in DOMAIN files
    BY <2>1 DEF Tasks
  <2>. QED
    BY <1>3, <2>1, <2>2 DEF Paths
<1>5. moved \subseteq DOMAIN files
  BY <1>4 DEF Referrers, Tasks, Here
<1>6. Range(order) = moved
  <2>1. IsFiniteSet(moved)
    BY <1>5, FS_Subset DEF IInv, FilesOK
  <2>. QED
    BY <2>1, SetToSeqsRange DEF ScanOrders
<1>. HIDE DEF root, target, moved
<1>7. \A p \in moved : /\ Change(p).to = IF p = root THEN target ELSE p
                       /\ Change(p).content.born = files[p].born
  BY <1>1, <1>3, <1>5, RepointedContent DEF MoveTo
<1>. HIDE DEF Change
<1>. DEFINE writes == [n \in DOMAIN order |-> Change(order[n])]
<1>8. \A w \in Range(writes) : \E p \in moved : w = Change(p)
  BY <1>6 DEF Range
<1>9. \A p \in moved : p = root \/ (p.dir \in Lookup => p \in Tasks /\ p.id # new)
  BY <1>1, <1>5 DEF Tasks, Reserved
<1>10. \A r \in Tasks : r.id # new
  BY <1>1 DEF Reserved
<1>11. Names(Range(writes))
  <2>. SUFFICES ASSUME NEW p \in moved, Change(p).to.dir \in Lookup
               PROVE  /\ \A r \in Tasks : r.id = Change(p).to.id => files[r].born = Change(p).content.born
                      /\ \A q \in moved : Change(q).to.dir \in Lookup /\ Change(q).to.id = Change(p).to.id
                           => Change(q).content.born = Change(p).content.born
    BY <1>8 DEF Names
  <2>1. CASE p = root
    BY <1>4, <1>7, <1>9, <1>10, <2>1
  <2>2. CASE p # root
    BY <1>4, <1>7, <1>9, <1>10, <2>2 DEF IdsOK, IdsNameOneTask
  <2>. QED
    BY <2>1, <2>2
<1>. QED
  BY <1>2, <1>11, BeginIdsOK DEF IdsOK

LEMMA NextIdsOK ==
  ASSUME IInv, IdsOK, [Next]_vars
  PROVE  IdsOK'
<1>1. CASE UNCHANGED <<files, op>>
  BY <1>1 DEF IdsOK, IdsNameOneTask, Names, Tasks, Pending
<1>2. CASE ScanBegin \/ ScanRead \/ ScanNextDir \/ ScanEnd \/ UNCHANGED vars
  BY <1>1, <1>2 DEF ScanBegin, ScanRead, ScanNextDir, ScanEnd, vars
<1>. QED
  BY <1>2, CreateIdsOK, OneFileIdsOK, RenumberIdsOK, MoveIdsOK, FileStepIdsOK, FailIdsOK DEF Next

-----------------------------------------------------------------------------
(* The reader and the count of faults. *)

Scans == [at : {"idle", "tasks", "completed"}, for : Births \cup {NoTask}, listed : SUBSET Paths,
          seen : BOOLEAN, excused : BOOLEAN]

ScanOK == faults \in 0..MaxFaults /\ scan \in Scans

LEMMA LosesSightScanOK ==
  ASSUME ScanOK, NEW b, LosesSight(b)
  PROVE  ScanOK'
<1>. DEFINE e == scan.excused \/ (scan.at # "idle" /\ b = scan.for)
<1>1. e \in BOOLEAN
  BY DEF ScanOK, Scans
<1>2. scan' = [scan EXCEPT !.excused = e]
  BY DEF LosesSight
<1>. HIDE DEF e
<1>3. scan' \in Scans
  BY <1>1, <1>2 DEF ScanOK, Scans
<1>. QED
  BY <1>3 DEF ScanOK, LosesSight

LEMMA ReaderScanOK ==
  ASSUME FilesOK, ScanOK, ScanBegin \/ ScanRead \/ ScanNextDir \/ ScanEnd
  PROVE  ScanOK'
<1>1. \A dir, b : Listing(dir, b) \subseteq Paths
  BY FileMapsDef DEF FilesOK, Listing, Here
<1>2. FirstDir \in {"tasks", "completed"} /\ NextDir(FirstDir) \in {"tasks", "completed"}
  BY DEF FirstDir, NextDir
<1>3. UNCHANGED faults
  BY DEF ScanBegin, ScanRead, ScanNextDir, ScanEnd
<1>4. CASE ScanBegin
  <2>1. PICK b \in Watched : scan' = [at |-> FirstDir, for |-> b, listed |-> Listing(FirstDir, b),
                                      seen |-> FALSE, excused |-> FALSE]
    BY <1>4 DEF ScanBegin
  <2>2. Listing(FirstDir, b) \in SUBSET Paths /\ b \in Births
    BY <1>1, WatchedAssumption
  <2>. QED
    BY <1>2, <1>3, <2>1, <2>2 DEF ScanOK, Scans
<1>5. CASE ScanRead
  <2>1. PICK p \in scan.listed :
          scan' = [scan EXCEPT !.listed = @ \ {p},
                     !.seen = @ \/ (p \in DOMAIN files /\ files[p].born = scan.for)]
    BY <1>5 DEF ScanRead
  <2>. DEFINE l == scan.listed \ {p}
              b == scan.seen \/ (p \in DOMAIN files /\ files[p].born = scan.for)
  <2>2. l \in SUBSET Paths
    BY DEF ScanOK, Scans
  <2>3. b \in BOOLEAN
    BY DEF ScanOK, Scans
  <2>4. scan' = [scan EXCEPT !.listed = l, !.seen = b]
    BY <2>1
  <2>. HIDE DEF l, b
  <2>. QED
    BY <1>3, <2>2, <2>3, <2>4 DEF ScanOK, Scans
<1>6. CASE ScanNextDir
  <2>1. scan' = [scan EXCEPT !.at = NextDir(FirstDir), !.listed = Listing(NextDir(FirstDir), scan.for)]
    BY <1>6 DEF ScanNextDir
  <2>2. Listing(NextDir(FirstDir), scan.for) \in SUBSET Paths
    BY <1>1
  <2>. QED
    BY <1>2, <1>3, <2>1, <2>2 DEF ScanOK, Scans
<1>7. CASE ScanEnd
  BY <1>3, <1>7 DEF ScanEnd, NoScan, ScanOK, Scans
<1>. QED
  BY <1>4, <1>5, <1>6, <1>7

LEMMA NextScanOK ==
  ASSUME FilesOK, ScanOK, [Next]_vars
  PROVE  ScanOK'
<1>1. CASE UNCHANGED <<scan, faults>>
  BY <1>1 DEF ScanOK
<1>2. CASE UNCHANGED scan /\ Fault
  BY <1>2, BoundsAssumption DEF Fault, ScanOK
<1>3. CASE \E b : LosesSight(b)
  BY <1>3, LosesSightScanOK
<1>4. CASE CreateTask \/ CreateDraft \/ EditTask \/ PromoteDraft \/ DemoteTask
             \/ RenumberTask \/ RenumberFile
  <2>1. PICK kind, writes, unlinks : Begin(kind, writes, unlinks)
    BY <1>4 DEF CreateTask, CreateDraft, EditTask, PromoteDraft, DemoteTask,
                RenumberTask, RenumberFile
  <2>. QED
    BY <1>1, <2>1 DEF Begin
<1>5. CASE ArchiveTask \/ CompleteTask \/ ArchiveDraft \/ Unlink
  BY <1>3, <1>5 DEF ArchiveTask, CompleteTask, ArchiveDraft, Move, Unlink
<1>6. CASE Write \/ WriteFails \/ UndoWrite \/ UNCHANGED vars
  BY <1>1, <1>6 DEF Write, WriteFails, UndoWrite, vars
<1>7. CASE UndoFails \/ UnlinkFails \/ Crash
  BY <1>2, <1>7 DEF UndoFails, UnlinkFails, Crash
<1>. QED
  BY <1>4, <1>5, <1>6, <1>7, ReaderScanOK DEF Next

-----------------------------------------------------------------------------
(* Rolling back.  Where no write has been done the files are what they were     *)
(* when the operation began, and undoing a write that has been done makes its   *)
(* path what it was.                                                            *)

\* Undoing a write of the set makes its path what it was.
Reverts(writes) ==
  \A w \in writes :
    IF w.from = w.to THEN w.to \in DOMAIN op.before /\ op.before[w.to] = w.undo
    ELSE w.to \notin DOMAIN op.before

\* What has not been written is as it was.
Untouched ==
  \A q : (\A w \in Range(op.done) : q # w.to) =>
    /\ q \in DOMAIN files <=> q \in DOMAIN op.before
    /\ q \in DOMAIN files => files[q] = op.before[q]

\* A new file is the only write of its operation, and is never undone.
CreatesOnce == op.done = <<>> /\ Len(op.todo) = 1 /\ op.unlinks = <<>>

Restorable ==
  op # NoOp /\ ~op.spoilt =>
    /\ op.kind = "create" => CreatesOnce
    /\ op.kind # "create" => Reverts(Pending)
    /\ Untouched

LEMMA BeginRestorable ==
  ASSUME NEW kind, NEW writes, NEW unlinks, Begin(kind, writes, unlinks),
         kind = "create" => Len(writes) = 1 /\ unlinks = <<>>,
         kind # "create" => \A w \in Range(writes) :
           IF w.from = w.to THEN w.to \in DOMAIN files /\ files[w.to] = w.undo
           ELSE w.to \notin DOMAIN files
  PROVE  Restorable'
<1>1. /\ UNCHANGED files /\ op'.kind = kind /\ op'.before = files /\ op'.todo = writes
      /\ op'.done = <<>> /\ op'.unlinks = unlinks
  BY DEF Begin
<1>2. Pending' = Range(writes) /\ Range(op'.done) = {}
  BY <1>1 DEF Pending, Range
<1>. QED
  BY <1>1, <1>2 DEF Restorable, CreatesOnce, Reverts, Untouched

LEMMA MoveToRestorable ==
  ASSUME NEW kind, kind # "create", NEW p, NEW q, NEW c, NEW unlinks,
         Begin(kind, <<MoveTo(p, q, c)>>, unlinks),
         p \in DOMAIN files, q = p \/ q \notin DOMAIN files
  PROVE  Restorable'
<1>. DEFINE w == MoveTo(p, q, c)
<1>1. Range(<<w>>) = {w} /\ w.from = p /\ w.to = q /\ w.undo = files[p]
  BY DEF Range, MoveTo
<1>. HIDE DEF w
<1>2. Begin(kind, <<w>>, unlinks)
  BY DEF w
<1>. QED
  BY <1>1, <1>2, BeginRestorable

LEMMA OperationsRestorable ==
  ASSUME IInv, CreateTask \/ CreateDraft \/ EditTask \/ PromoteDraft \/ DemoteTask
                 \/ RenumberTask \/ RenumberFile
  PROVE  Restorable'
<1>1. \A i : \A p \in Resolve(i) : p \in DOMAIN files
  BY ResolveFiles
<1>2. CASE CreateTask \/ CreateDraft
  <2>1. PICK w : Begin("create", <<w>>, <<>>)
    BY <1>2 DEF CreateTask, CreateDraft
  <2>. QED
    BY <2>1, BeginRestorable
<1>3. CASE EditTask
  <2>1. PICK i \in Reserved, s \in Slugs, deps \in DepSets, p \in DOMAIN files :
          LET q == [p EXCEPT !.slug = s]
              c == [files[p] EXCEPT !.deps = deps]
          IN  /\ q = p \/ q \notin DOMAIN files
              /\ Begin("edit", <<MoveTo(p, q, c)>>, IF q = p THEN <<>> ELSE <<p>>)
    BY <1>1, <1>3 DEF EditTask
  <2>. QED
    BY <2>1, MoveToRestorable
<1>4. CASE PromoteDraft \/ DemoteTask \/ RenumberFile
  <2>1. PICK kind \in Kinds \ {"create"}, p \in DOMAIN files, q \in Paths :
          /\ q \notin DOMAIN files
          /\ Begin(kind, <<MoveTo(p, q, files[p])>>, <<p>>)
    <3>1. {"promote", "demote", "renumberFile"} \subseteq Kinds \ {"create"}
      BY DEF Kinds
    <3>2. CASE PromoteDraft
      BY <3>1, <3>2 DEF PromoteDraft, Here
    <3>3. CASE DemoteTask
      BY <1>1, <3>1, <3>3 DEF DemoteTask
    <3>4. CASE RenumberFile
      <4>1. PICK p \in Tasks, new \in Ids :
              LET q == [p EXCEPT !.id = new]
              IN  q \notin DOMAIN files
                  /\ Begin("renumberFile", <<MoveTo(p, q, files[p])>>, <<p>>)
        BY <3>4 DEF RenumberFile
      <4>2. p \in DOMAIN files /\ [p EXCEPT !.id = new] \in Paths
        BY FileMapsDef DEF Tasks, Paths, IInv, FilesOK
      <4>. QED
        BY <3>1, <4>1, <4>2
    <3>. QED
      BY <1>4, <3>2, <3>3, <3>4
  <2>. QED
    BY <2>1, MoveToRestorable
<1>5. CASE RenumberTask
  <2>1. PICK old \in Reserved, new \in Ids \ Reserved :
          LET root    == CHOOSE p \in Tasks : p.id = old
              target  == [root EXCEPT !.id = new]
              Change(p) == MoveTo(p, IF p = root THEN target ELSE p, Repointed(files[p], old, new))
          IN  /\ target \notin DOMAIN files
              /\ \E order \in ScanOrders({root} \cup Referrers(old)) :
                   Begin("renumber", [n \in DOMAIN order |-> Change(order[n])], <<root>>)
    BY <1>5 DEF RenumberTask
  <2>. DEFINE root   == CHOOSE p \in Tasks : p.id = old
              target == [root EXCEPT !.id = new]
              moved  == {root} \cup Referrers(old)
              Change(p) == MoveTo(p, IF p = root THEN target ELSE p, Repointed(files[p], old, new))
  <2>2. PICK order \in ScanOrders(moved) :
          Begin("renumber", [n \in DOMAIN order |-> Change(order[n])], <<root>>)
    BY <2>1
  <2>3. target \notin DOMAIN files
    BY <2>1
  <2>4. root \in Tasks
    BY DEF Reserved
  <2>5. moved \subseteq DOMAIN files
    BY <2>4 DEF Referrers, Tasks, Here
  <2>6. Range(order) = moved
    <3>1. IsFiniteSet(moved)
      BY <2>5, FS_Subset DEF IInv, FilesOK
    <3>. QED
      BY <3>1, SetToSeqsRange DEF ScanOrders
  <2>. HIDE DEF root, target, moved
  <2>7. \A p \in moved : /\ Change(p).from = p /\ Change(p).undo = files[p]
                         /\ Change(p).to = IF p = root THEN target ELSE p
    BY DEF MoveTo
  <2>. HIDE DEF Change
  <2>. DEFINE writes == [n \in DOMAIN order |-> Change(order[n])]
  <2>8. \A w \in Range(writes) : \E p \in moved : w = Change(p)
    BY <2>6 DEF Range
  <2>. HIDE DEF writes
  <2>9. \A w \in Range(writes) :
          IF w.from = w.to THEN w.to \in DOMAIN files /\ files[w.to] = w.undo
          ELSE w.to \notin DOMAIN files
    BY <2>3, <2>5, <2>7, <2>8
  <2>10. Begin("renumber", writes, <<root>>)
    BY <2>2 DEF writes
  <2>. QED
    BY <2>9, <2>10, BeginRestorable
<1>. QED
  BY <1>2, <1>3, <1>4, <1>5

LEMMA WriteRestorable ==
  ASSUME IInv, Restorable, Write
  PROVE  Restorable'
<1>. DEFINE w == Head(op.todo)
<1>. SUFFICES ASSUME op' # NoOp, ~op'.spoilt
             PROVE  /\ op'.kind = "create" => CreatesOnce'
                    /\ op'.kind # "create" => Reverts(Pending)'
                    /\ Untouched'
  BY DEF Restorable
<1>1. op # NoOp /\ ~op.rolling /\ op.todo # <<>> /\ op \in Op /\ FilesOK
  BY DEF Write, AtWrite, IInv, Sound
<1>2. /\ op.todo \in Seq(Writes) /\ op.done \in Seq(Writes) /\ w \in Writes
      /\ Range(op.todo) = {w} \cup Range(Tail(op.todo))
      /\ Range(Append(op.done, w)) = Range(op.done) \cup {w}
  BY <1>1, TakeHead, Appended DEF Op
<1>3. ~(Tail(op.todo) = <<>> /\ op.unlinks = <<>>)
      /\ op' = [op EXCEPT !.todo = Tail(@), !.done = Append(@, w)]
  BY DEF Write, End
<1>4. /\ op'.todo = Tail(op.todo) /\ op'.done = Append(op.done, w) /\ op'.kind = op.kind
      /\ op'.spoilt = op.spoilt /\ op'.before = op.before
  BY <1>1, <1>3 DEF Op
<1>5. Put(w.to, w.content)
  BY DEF Write
<1>. HIDE DEF w
<1>6. op.kind # "create"
  <2>. SUFFICES ASSUME op.kind = "create" PROVE FALSE
    OBVIOUS
  <2>1. Len(op.todo) = 1 /\ op.unlinks = <<>>
    BY <1>1, <1>4 DEF Restorable, CreatesOnce
  <2>2. Tail(op.todo) = <<>>
    <3>1. Tail(op.todo) \in Seq(Writes) /\ Len(Tail(op.todo)) = 0
      BY <1>1, <1>2, <2>1
    <3>2. Tail(op.todo) # <<>> => Len(Tail(op.todo)) \in Nat \ {0}
      BY <3>1, TakeHead
    <3>. QED
      BY <3>1, <3>2
  <2>. QED
    BY <1>3, <2>1, <2>2
<1>7. Pending' = Pending
  BY <1>2, <1>4 DEF Pending
<1>8. Reverts(Pending)'
  BY <1>1, <1>4, <1>6, <1>7 DEF Restorable, Reverts
<1>9. Untouched'
  <2>. SUFFICES ASSUME NEW q, \A v \in Range(op.done) \cup {w} : q # v.to
               PROVE  /\ q \in DOMAIN files' <=> q \in DOMAIN op.before
                      /\ q \in DOMAIN files' => files'[q] = op.before[q]
    BY <1>2, <1>4 DEF Untouched
  <2>1. /\ q \in DOMAIN files <=> q \in DOMAIN op.before
        /\ q \in DOMAIN files => files[q] = op.before[q]
    BY <1>1, <1>4 DEF Restorable, Untouched
  <2>2. /\ q \in DOMAIN files' <=> q \in DOMAIN files
        /\ q \in DOMAIN files => files'[q] = files[q]
    BY <1>5 DEF Put
  <2>. QED
    BY <2>1, <2>2
<1>. QED
  BY <1>4, <1>6, <1>8, <1>9

\* Undoing the last write that has been done.
LEMMA UndoRestores ==
  ASSUME IInv, Restorable, UndoWrite, ~op.spoilt
  PROVE  /\ Reverts(Pending)
         /\ \A q : (\A v \in Range(Front(op.done)) : q # v.to) =>
              /\ q \in DOMAIN files' <=> q \in DOMAIN op.before
              /\ q \in DOMAIN files' => files'[q] = op.before[q]
<1>. DEFINE w == Last(op.done)
<1>1. op # NoOp /\ op.done # <<>> /\ op.done \in Seq(Writes)
  BY DEF UndoWrite, AtUndo, IInv, Sound, Op
<1>2. w \in Range(op.done) /\ Range(op.done) \subseteq Range(Front(op.done)) \cup {w}
  <2>1. Len(op.done) \in Nat \ {0} /\ DOMAIN op.done = 1..Len(op.done)
    BY <1>1
  <2>2. /\ DOMAIN Front(op.done) = 1..(Len(op.done) - 1)
        /\ \A n \in 1..(Len(op.done) - 1) : Front(op.done)[n] = op.done[n]
    BY <1>1, <2>1 DEF Front
  <2>3. \A n \in 1..Len(op.done) : n = Len(op.done) \/ n \in 1..(Len(op.done) - 1)
    BY <2>1
  <2>4. Len(op.done) \in 1..Len(op.done)
    BY <2>1
  <2>. QED
    BY <2>1, <2>2, <2>3, <2>4 DEF Range, Last
<1>3. op.kind # "create" /\ Reverts(Pending) /\ Untouched
  BY <1>1 DEF Restorable, CreatesOnce
<1>4. w \in Pending
  BY <1>2 DEF Pending
<1>5. IF w.from = w.to THEN Put(w.to, w.undo) ELSE files' = Unlinked(w.to)
  BY DEF UndoWrite
<1>. HIDE DEF w
<1>6. ASSUME NEW q, \A v \in Range(Front(op.done)) : q # v.to
      PROVE  /\ q \in DOMAIN files' <=> q \in DOMAIN op.before
             /\ q \in DOMAIN files' => files'[q] = op.before[q]
  <2>1. CASE q = w.to
    <3>1. IF w.from = w.to THEN q \in DOMAIN files' /\ files'[q] = w.undo ELSE q \notin DOMAIN files'
      BY <1>5, <2>1 DEF Put, Unlinked
    <3>. QED
      BY <1>3, <1>4, <2>1, <3>1 DEF Reverts
  <2>2. CASE q # w.to
    <3>1. /\ q \in DOMAIN files <=> q \in DOMAIN op.before
          /\ q \in DOMAIN files => files[q] = op.before[q]
      BY <1>2, <1>3, <1>6, <2>2 DEF Untouched
    <3>2. /\ q \in DOMAIN files' <=> q \in DOMAIN files
          /\ q \in DOMAIN files => files'[q] = files[q]
      BY <1>5, <2>2 DEF Put, Unlinked
    <3>. QED
      BY <3>1, <3>2
  <2>. QED
    BY <2>1, <2>2
<1>. QED
  BY <1>3, <1>6

LEMMA UndoRestorable ==
  ASSUME IInv, Restorable, UndoWrite
  PROVE  Restorable'
<1>. SUFFICES ASSUME op' # NoOp, ~op'.spoilt
             PROVE  /\ op'.kind = "create" => CreatesOnce'
                    /\ op'.kind # "create" => Reverts(Pending)'
                    /\ Untouched'
  BY DEF Restorable
<1>1. op # NoOp /\ op.done # <<>> /\ op \in Op /\ op.done \in Seq(Writes)
  BY DEF UndoWrite, AtUndo, IInv, Sound, Op
<1>2. op' = [op EXCEPT !.done = Front(@)]
  BY DEF UndoWrite, End
<1>3. /\ op'.todo = op.todo /\ op'.done = Front(op.done) /\ op'.kind = op.kind
      /\ op'.spoilt = op.spoilt /\ op'.before = op.before
  BY <1>1, <1>2 DEF Op
<1>4. Pending' \subseteq Pending
  BY <1>1, <1>3, DropLast DEF Pending
<1>5. op.kind # "create"
  BY <1>1, <1>3 DEF Restorable, CreatesOnce
<1>. QED
  BY <1>3, <1>4, <1>5, UndoRestores DEF Reverts, Untouched

LEMMA NextRestorable ==
  ASSUME IInv, Restorable, [Next]_vars
  PROVE  Restorable'
<1>1. CASE UNCHANGED <<files, op>>
  BY <1>1 DEF Restorable, CreatesOnce, Reverts, Untouched, Pending
<1>2. CASE op' = NoOp
  BY <1>2 DEF Restorable
<1>3. CASE ScanBegin \/ ScanRead \/ ScanNextDir \/ ScanEnd \/ UNCHANGED vars
  BY <1>1, <1>3 DEF ScanBegin, ScanRead, ScanNextDir, ScanEnd, vars
<1>4. CASE ArchiveTask \/ CompleteTask \/ ArchiveDraft \/ Unlink \/ UnlinkFails \/ Crash
  <2>1. CASE Unlink
    BY <1>2, <2>1, UnlinkEnds DEF End
  <2>. QED
    BY <1>2, <1>4, <2>1 DEF ArchiveTask, CompleteTask, ArchiveDraft, Move, UnlinkFails, Crash, End
<1>5. CASE WriteFails /\ op' # NoOp
  <2>1. op # NoOp /\ op \in Op /\ op' = [op EXCEPT !.rolling = TRUE] /\ UNCHANGED files
    BY <1>5 DEF WriteFails, AtWrite, End, IInv, Sound
  <2>2. /\ op'.todo = op.todo /\ op'.done = op.done /\ op'.kind = op.kind
        /\ op'.unlinks = op.unlinks /\ op'.spoilt = op.spoilt /\ op'.before = op.before
    BY <2>1 DEF Op
  <2>. QED
    BY <2>1, <2>2 DEF Restorable, CreatesOnce, Reverts, Untouched, Pending
<1>6. CASE UndoFails /\ op' # NoOp
  <2>1. op \in Op /\ op' = [op EXCEPT !.done = Front(@), !.spoilt = TRUE]
    BY <1>6 DEF UndoFails, AtUndo, End, IInv, Sound
  <2>2. op'.spoilt = TRUE
    BY <2>1 DEF Op
  <2>. QED
    BY <2>2 DEF Restorable
<1>. QED
  BY <1>2, <1>3, <1>4, <1>5, <1>6, OperationsRestorable, WriteRestorable, UndoRestorable DEF Next

\* The step that ends a rollback without a fault is an undone write.
LEMMA RollbackEnds ==
  ASSUME IInv, ScanOK, Restorable, [Next]_vars, RolledBack
  PROVE  files' = op.before
<1>1. op # NoOp /\ op' = NoOp /\ faults' = faults /\ op.rolling /\ ~op.spoilt
  BY DEF RolledBack, Ends
<1>2. op \in Op /\ op.done \in Seq(Writes) /\ op.before \in FileMaps
  BY <1>1 DEF IInv, Sound, Op
<1>3. faults' # faults + 1
  BY <1>1, BoundsAssumption DEF ScanOK
<1>4. UndoWrite /\ Len(op.done) = 1
  <2>1. ~(CreateTask \/ CreateDraft \/ EditTask \/ PromoteDraft \/ DemoteTask
            \/ RenumberTask \/ RenumberFile \/ ArchiveTask \/ CompleteTask \/ ArchiveDraft)
    BY <1>1 DEF CreateTask, CreateDraft, EditTask, PromoteDraft, DemoteTask,
                RenumberTask, RenumberFile, Begin, ArchiveTask, CompleteTask, ArchiveDraft, Move
  <2>2. ~(Write \/ WriteFails \/ Unlink \/ UnlinkFails \/ UndoFails \/ Crash)
    BY <1>1, <1>3 DEF Write, WriteFails, AtWrite, Unlink, UnlinkFails, AtUnlink, UndoFails, Crash, Fault
  <2>3. ~(ScanBegin \/ ScanRead \/ ScanNextDir \/ ScanEnd \/ UNCHANGED vars)
    BY <1>1 DEF ScanBegin, ScanRead, ScanNextDir, ScanEnd, vars
  <2>4. UndoWrite
    BY <2>1, <2>2, <2>3 DEF Next
  <2>5. Len(op.done) # 1 => op' = [op EXCEPT !.done = Front(@)]
    BY <2>4 DEF UndoWrite
  <2>6. [op EXCEPT !.done = Front(@)].kind = op.kind /\ op.kind # "none"
    BY <1>2 DEF Op, Kinds
  <2>. QED
    BY <1>1, <2>4, <2>5, <2>6 DEF NoOp
<1>5. Range(Front(op.done)) = {}
  <2>1. DOMAIN Front(op.done) = {}
    BY <1>2, <1>4 DEF Front
  <2>. QED
    BY <2>1 DEF Range
<1>6. \A q : /\ q \in DOMAIN files' <=> q \in DOMAIN op.before
             /\ q \in DOMAIN files' => files'[q] = op.before[q]
  BY <1>1, <1>4, <1>5, UndoRestores
<1>7. files' \in FileMaps
  BY <1>4, UndoIInv DEF IInv, FilesOK
<1>8. files' \in [DOMAIN files' -> Contents] /\ op.before \in [DOMAIN op.before -> Contents]
  BY <1>2, <1>7, FileMapsDef
<1>9. DOMAIN files' = DOMAIN op.before
  BY <1>6
<1>. QED
  BY <1>6, <1>8, <1>9

-----------------------------------------------------------------------------
(* Duplicates.  The one path an operation adds has an id that no task had, or   *)
(* replaces the path that is unlinked, which had its id.                        *)

Replaces(writes, unlinks, old) ==
  /\ \A v, w \in writes : v.to \notin old /\ w.to \notin old => v.to = w.to
  /\ \A w \in writes : w.to \notin old /\ w.to.dir \in Lookup =>
       \/ \A p \in old : p.dir \in Lookup => p.id # w.to.id
       \/ /\ w.from \in unlinks /\ w.from \in old
          /\ w.from.dir \in Lookup /\ w.from.id = w.to.id

\* The files are those that were there and those that have been written.
Traceable ==
  op # NoOp /\ ~op.rolling =>
    /\ IsFiniteSet(DOMAIN op.before)
    /\ Replaces(Pending, Range(op.unlinks), DOMAIN op.before)
    /\ \A q \in DOMAIN files : q \in DOMAIN op.before \/ \E w \in Range(op.done) : q = w.to

Twice(old) ==
  {i \in Ids : \E p, q \in old : p # q /\ p.dir \in Lookup /\ q.dir \in Lookup /\ p.id = i /\ q.id = i}

LEMMA DuplicatedIsTwice ==
  ASSUME NEW fs, IsFiniteSet(DOMAIN fs)
  PROVE  Duplicated(fs) = Twice(DOMAIN fs)
<1>. DEFINE Named(i) == {p \in DOMAIN fs : p.dir \in Lookup /\ p.id = i}
<1>1. \A S : IsFiniteSet(S) => (Cardinality(S) > 1 <=> \E p, q \in S : p # q)
  <2>. SUFFICES ASSUME NEW S, IsFiniteSet(S)
               PROVE  Cardinality(S) > 1 <=> \E p, q \in S : p # q
    OBVIOUS
  <2>1. Cardinality(S) \in Nat
    BY FS_CardinalityType
  <2>2. CASE S = {}
    BY <2>2, FS_EmptySet
  <2>3. CASE \E p : S = {p}
    BY <2>3, FS_Singleton
  <2>4. CASE \E p, q \in S : p # q
    <3>1. Cardinality(S) # 0
      BY <2>4, FS_EmptySet
    <3>2. Cardinality(S) # 1
      BY <2>4, FS_Singleton
    <3>. QED
      BY <2>1, <2>4, <3>1, <3>2
  <2>. QED
    BY <2>2, <2>3, <2>4
<1>2. \A i : IsFiniteSet(Named(i))
  BY FS_Subset
<1>3. \A i : Cardinality(Named(i)) > 1 <=> \E p, q \in Named(i) : p # q
  BY <1>1, <1>2
<1>. QED
  BY <1>3 DEF Duplicated, Twice

LEMMA BeginTraceable ==
  ASSUME FilesOK, NEW kind, NEW writes, NEW unlinks, Begin(kind, writes, unlinks),
         Replaces(Range(writes), Range(unlinks), DOMAIN files)
  PROVE  Traceable'
<1>1. /\ UNCHANGED files /\ op'.before = files /\ op'.todo = writes
      /\ op'.done = <<>> /\ op'.unlinks = unlinks
  BY DEF Begin
<1>2. Pending' = Range(writes)
  BY <1>1 DEF Pending, Range
<1>. QED
  BY <1>1, <1>2 DEF Traceable, FilesOK

LEMMA MoveToTraceable ==
  ASSUME FilesOK, NEW kind, NEW p \in DOMAIN files, NEW q, NEW c, NEW unlinks,
         Begin(kind, <<MoveTo(p, q, c)>>, unlinks),
         \/ q = p
         \/ q.dir \in Lookup => q.id \notin Reserved
         \/ p \in Range(unlinks) /\ p.dir \in Lookup /\ p.id = q.id
  PROVE  Traceable'
<1>. DEFINE w == MoveTo(p, q, c)
<1>1. Range(<<w>>) = {w} /\ w.from = p /\ w.to = q
  BY DEF Range, MoveTo
<1>2. \A r \in DOMAIN files : r.dir \in Lookup => r.id \in Reserved
  BY DEF Reserved, Tasks
<1>. HIDE DEF w
<1>3. Begin(kind, <<w>>, unlinks)
  BY DEF w
<1>4. Replaces({w}, Range(unlinks), DOMAIN files)
  BY <1>1, <1>2 DEF Replaces
<1>. QED
  BY <1>1, <1>3, <1>4, BeginTraceable

LEMMA OperationsTraceable ==
  ASSUME IInv, CreateTask \/ CreateDraft \/ EditTask \/ PromoteDraft \/ DemoteTask
                 \/ RenumberTask \/ RenumberFile
  PROVE  Traceable'
<1>1. FilesOK /\ \A p \in DOMAIN files : p \in Paths /\ files[p] \in Contents
  BY FileMapsDef DEF IInv, FilesOK
<1>2. \A i : \A p \in Resolve(i) : p \in Tasks /\ p \in DOMAIN files
  BY DEF Resolve, Here, Tasks, Lookup
<1>3. CASE CreateTask \/ CreateDraft
  <2>1. PICK p, c :
          /\ Begin("create", <<[from |-> p, to |-> p, content |-> c, undo |-> c]>>, <<>>)
          /\ p.dir \in Lookup => p.id \notin Reserved
    <3>1. \A i, s : /\ [dir |-> "tasks", id |-> i, slug |-> s].id = i
                    /\ [dir |-> "drafts", id |-> i, slug |-> s].dir \notin Lookup
      BY DEF Lookup
    <3>2. CASE CreateTask
      <4>1. PICK i \in Ids \ Reserved, s \in Slugs, b \in Unborn, deps \in DepSets :
              LET p == [dir |-> "tasks", id |-> i, slug |-> s]
                  c == Content(b, deps)
              IN  Begin("create", <<[from |-> p, to |-> p, content |-> c, undo |-> c]>>, <<>>)
        BY <3>2 DEF CreateTask
      <4>. QED
        BY <3>1, <4>1
    <3>3. CASE CreateDraft
      <4>1. PICK s \in Slugs, b \in Unborn, deps \in SUBSET Reserved :
              LET p == [dir |-> "drafts", id |-> NextDraftId, slug |-> s]
                  c == Content(b, deps)
              IN  Begin("create", <<[from |-> p, to |-> p, content |-> c, undo |-> c]>>, <<>>)
        BY <3>3 DEF CreateDraft
      <4>. QED
        BY <3>1, <4>1
    <3>. QED
      BY <1>3, <3>2, <3>3
  <2>. DEFINE w == [from |-> p, to |-> p, content |-> c, undo |-> c]
  <2>2. Range(<<w>>) = {w} /\ w.to = p
    BY DEF Range
  <2>3. \A r \in DOMAIN files : r.dir \in Lookup => r.id \in Reserved
    BY DEF Reserved, Tasks
  <2>. HIDE DEF w
  <2>4. Replaces({w}, Range(<<>>), DOMAIN files)
    BY <2>1, <2>2, <2>3 DEF Replaces
  <2>5. Begin("create", <<w>>, <<>>)
    BY <2>1 DEF w
  <2>. QED
    BY <1>1, <2>2, <2>4, <2>5, BeginTraceable
<1>4. CASE EditTask
  <2>1. PICK i \in Reserved, s \in Slugs, deps \in DepSets, p \in Tasks :
          LET q == [p EXCEPT !.slug = s]
              c == [files[p] EXCEPT !.deps = deps]
          IN  Begin("edit", <<MoveTo(p, q, c)>>, IF q = p THEN <<>> ELSE <<p>>)
    BY <1>2, <1>4 DEF EditTask
  <2>. DEFINE q == [p EXCEPT !.slug = s]
              c == [files[p] EXCEPT !.deps = deps]
              u == IF q = p THEN <<>> ELSE <<p>>
  <2>2. p \in DOMAIN files /\ p.dir \in Lookup /\ p \in Paths
    BY <1>1 DEF Tasks
  <2>3. q.id = p.id
    BY <2>2 DEF Paths
  <2>4. q = p \/ p \in Range(u)
    BY DEF Range
  <2>5. Begin("edit", <<MoveTo(p, q, c)>>, u)
    BY <2>1
  <2>. HIDE DEF q, c, u
  <2>. QED
    BY <1>1, <2>2, <2>3, <2>4, <2>5, MoveToTraceable
<1>5. CASE PromoteDraft \/ DemoteTask \/ RenumberFile
  <2>1. PICK kind :
          \E p \in DOMAIN files : \E q :
            /\ Begin(kind, <<MoveTo(p, q, files[p])>>, <<p>>)
            /\ q.dir \in Lookup => q.id \notin Reserved
    BY <1>5, FreshIds
  <2>2. PICK p \in DOMAIN files :
          \E q : /\ Begin(kind, <<MoveTo(p, q, files[p])>>, <<p>>)
                 /\ q.dir \in Lookup => q.id \notin Reserved
    BY <2>1
  <2>3. PICK q : /\ Begin(kind, <<MoveTo(p, q, files[p])>>, <<p>>)
                 /\ q.dir \in Lookup => q.id \notin Reserved
    BY <2>2
  <2>. QED
    BY <1>1, <2>3, MoveToTraceable
<1>6. CASE RenumberTask
  <2>1. PICK old \in Reserved, new \in Ids \ Reserved :
          LET root    == CHOOSE p \in Tasks : p.id = old
              target  == [root EXCEPT !.id = new]
              Change(p) == MoveTo(p, IF p = root THEN target ELSE p, Repointed(files[p], old, new))
          IN  \E order \in ScanOrders({root} \cup Referrers(old)) :
                Begin("renumber", [n \in DOMAIN order |-> Change(order[n])], <<root>>)
    BY <1>6 DEF RenumberTask
  <2>. DEFINE root   == CHOOSE p \in Tasks : p.id = old
              target == [root EXCEPT !.id = new]
              moved  == {root} \cup Referrers(old)
              Change(p) == MoveTo(p, IF p = root THEN target ELSE p, Repointed(files[p], old, new))
  <2>2. PICK order \in ScanOrders(moved) :
          Begin("renumber", [n \in DOMAIN order |-> Change(order[n])], <<root>>)
    BY <2>1
  <2>3. root \in DOMAIN files /\ target.id = new
    <3>1. root \in Tasks
      BY DEF Reserved
    <3>2. root \in DOMAIN files
      BY <3>1 DEF Tasks
    <3>. QED
      BY <1>1, <3>2 DEF Paths
  <2>4. moved \subseteq DOMAIN files
    BY <2>3 DEF Referrers, Tasks, Here
  <2>5. Range(order) = moved
    <3>1. IsFiniteSet(moved)
      BY <1>1, <2>4, FS_Subset DEF FilesOK
    <3>. QED
      BY <3>1, SetToSeqsRange DEF ScanOrders
  <2>. HIDE DEF root, target, moved
  <2>6. \A p \in moved : Change(p).to = target \/ Change(p).to \in DOMAIN files
    BY <2>4 DEF MoveTo
  <2>. HIDE DEF Change
  <2>. DEFINE writes == [n \in DOMAIN order |-> Change(order[n])]
  <2>7. \A w \in Range(writes) : w.to = target \/ w.to \in DOMAIN files
    BY <2>5, <2>6 DEF Range
  <2>. HIDE DEF writes
  <2>8. \A r \in DOMAIN files : r.dir \in Lookup => r.id # new
    BY DEF Reserved, Tasks
  <2>9. Replaces(Range(writes), Range(<<root>>), DOMAIN files)
    BY <2>3, <2>7, <2>8 DEF Replaces
  <2>10. Begin("renumber", writes, <<root>>)
    BY <2>2 DEF writes
  <2>. QED
    BY <1>1, <2>9, <2>10, BeginTraceable
<1>. QED
  BY <1>3, <1>4, <1>5, <1>6

LEMMA WriteTraceable ==
  ASSUME IInv, Traceable, Write
  PROVE  Traceable'
<1>. DEFINE w == Head(op.todo)
<1>. SUFFICES ASSUME op' # NoOp
             PROVE  /\ IsFiniteSet(DOMAIN op'.before)
                    /\ Replaces(Pending', Range(op'.unlinks), DOMAIN op'.before)
                    /\ \A q \in DOMAIN files' : \/ q \in DOMAIN op'.before
                                                \/ \E v \in Range(op'.done) : q = v.to
  BY DEF Traceable
<1>1. op # NoOp /\ ~op.rolling /\ op.todo # <<>> /\ op \in Op
  BY DEF Write, AtWrite, IInv, Sound
<1>2. /\ op.todo \in Seq(Writes) /\ op.done \in Seq(Writes) /\ w \in Writes
      /\ Range(op.todo) = {w} \cup Range(Tail(op.todo))
      /\ Range(Append(op.done, w)) = Range(op.done) \cup {w}
  BY <1>1, TakeHead, Appended DEF Op
<1>3. op' = [op EXCEPT !.todo = Tail(@), !.done = Append(@, w)]
  BY DEF Write, End
<1>4. /\ op'.todo = Tail(op.todo) /\ op'.done = Append(op.done, w)
      /\ op'.unlinks = op.unlinks /\ op'.before = op.before
  BY <1>1, <1>3 DEF Op
<1>5. DOMAIN files' = DOMAIN files \cup {w.to}
  BY DEF Write, Put
<1>. HIDE DEF w
<1>6. Pending' = Pending
  BY <1>2, <1>4 DEF Pending
<1>. QED
  BY <1>1, <1>2, <1>4, <1>5, <1>6 DEF Traceable

LEMMA NextTraceable ==
  ASSUME IInv, Traceable, [Next]_vars
  PROVE  Traceable'
<1>1. CASE UNCHANGED <<files, op>>
  BY <1>1 DEF Traceable, Pending
<1>2. CASE op' = NoOp
  BY <1>2 DEF Traceable
<1>3. CASE ScanBegin \/ ScanRead \/ ScanNextDir \/ ScanEnd \/ UNCHANGED vars
  BY <1>1, <1>3 DEF ScanBegin, ScanRead, ScanNextDir, ScanEnd, vars
<1>4. CASE Unlink
  BY <1>2, <1>4, UnlinkEnds DEF End
<1>5. CASE ArchiveTask \/ CompleteTask \/ ArchiveDraft \/ UnlinkFails \/ Crash
  BY <1>2, <1>5 DEF ArchiveTask, CompleteTask, ArchiveDraft, Move, UnlinkFails, Crash, End
<1>6. CASE (WriteFails \/ UndoWrite \/ UndoFails) /\ op' # NoOp
  <2>1. op \in Op /\ \/ op' = [op EXCEPT !.rolling = TRUE]
                     \/ op.rolling /\ op' = [op EXCEPT !.done = Front(@)]
                     \/ op.rolling /\ op' = [op EXCEPT !.done = Front(@), !.spoilt = TRUE]
    BY <1>6 DEF WriteFails, UndoWrite, UndoFails, AtWrite, AtUndo, End, IInv, Sound
  <2>2. op'.rolling
    BY <2>1 DEF Op
  <2>. QED
    BY <2>2 DEF Traceable
<1>. QED
  BY <1>2, <1>3, <1>4, <1>5, <1>6, OperationsTraceable, WriteTraceable DEF Next

\* The steps that end an operation that has succeeded.
LEMMA SuccessSteps ==
  ASSUME IInv, ScanOK, [Next]_vars, Succeeds
  PROVE  \/ Write /\ op.unlinks = <<>>
         \/ WriteFails /\ op.done = <<>> /\ files' = files
         \/ Unlink
<1>1. op # NoOp /\ op' = NoOp /\ faults' = faults /\ ~op.rolling /\ op \in Op
  BY DEF Succeeds, Ends, IInv, Sound
<1>2. faults' # faults + 1
  BY <1>1, BoundsAssumption DEF ScanOK
<1>3. CASE Write
  <2>1. ~(Tail(op.todo) = <<>> /\ op.unlinks = <<>>) =>
          op' = [op EXCEPT !.todo = Tail(@), !.done = Append(@, Head(op.todo))]
    BY <1>3 DEF Write
  <2>2. [op EXCEPT !.todo = Tail(@), !.done = Append(@, Head(op.todo))].kind = op.kind
    BY <1>1 DEF Op
  <2>. QED
    BY <1>1, <1>3, <2>1, <2>2 DEF NoOp, Op, Kinds
<1>4. CASE WriteFails
  <2>1. [op EXCEPT !.rolling = TRUE].kind = op.kind
    BY <1>1 DEF Op
  <2>. QED
    BY <1>1, <1>4, <2>1 DEF WriteFails, NoOp, Op, Kinds
<1>5. ~(CreateTask \/ CreateDraft \/ EditTask \/ PromoteDraft \/ DemoteTask
          \/ RenumberTask \/ RenumberFile \/ ArchiveTask \/ CompleteTask \/ ArchiveDraft)
  BY <1>1 DEF CreateTask, CreateDraft, EditTask, PromoteDraft, DemoteTask,
              RenumberTask, RenumberFile, Begin, ArchiveTask, CompleteTask, ArchiveDraft, Move
<1>6. ~(UndoWrite \/ UnlinkFails \/ UndoFails \/ Crash)
  BY <1>1, <1>2 DEF UndoWrite, AtUndo, UnlinkFails, UndoFails, Crash, Fault
<1>7. ~(ScanBegin \/ ScanRead \/ ScanNextDir \/ ScanEnd \/ UNCHANGED vars)
  BY <1>1 DEF ScanBegin, ScanRead, ScanNextDir, ScanEnd, vars
<1>. QED
  BY <1>3, <1>4, <1>5, <1>6, <1>7 DEF Next

LEMMA SuccessEnds ==
  ASSUME IInv, ScanOK, Traceable, [Next]_vars, Succeeds
  PROVE  Duplicated(files') \subseteq Duplicated(op.before)
<1>1. op # NoOp /\ op' = NoOp /\ faults' = faults /\ ~op.rolling
  BY DEF Succeeds, Ends
<1>2. op \in Op /\ FilesOK
  BY <1>1 DEF IInv, Sound
<1>4. /\ IsFiniteSet(DOMAIN op.before)
      /\ Replaces(Pending, Range(op.unlinks), DOMAIN op.before)
      /\ \A q \in DOMAIN files : q \in DOMAIN op.before \/ \E w \in Range(op.done) : q = w.to
  BY <1>1 DEF Traceable
<1>5. IsFiniteSet(DOMAIN files')
  BY NextIInv DEF IInv, FilesOK
<1>6. SUFFICES Twice(DOMAIN files') \subseteq Twice(DOMAIN op.before)
  BY <1>4, <1>5, DuplicatedIsTwice
\* What is left of the files comes from before or from a write, and what was to
\* be unlinked is gone.
<1>7. /\ \A q \in DOMAIN files' : q \in DOMAIN op.before \/ \E w \in Pending : q = w.to
      /\ \A q \in Range(op.unlinks) : q \in DOMAIN files' => DOMAIN files' \subseteq DOMAIN op.before
  <2>1. CASE Write /\ op.unlinks = <<>>
    <3>1. op.todo # <<>> /\ op.todo \in Seq(Writes) /\ DOMAIN files' = DOMAIN files \cup {Head(op.todo).to}
      BY <1>2, <2>1 DEF Write, AtWrite, Put, Op
    <3>2. Head(op.todo) \in Pending
      BY <3>1, TakeHead DEF Pending
    <3>3. Range(op.unlinks) = {}
      BY <2>1 DEF Range
    <3>. QED
      BY <1>4, <3>1, <3>2, <3>3 DEF Pending
  <2>2. CASE WriteFails /\ op.done = <<>> /\ files' = files
    <3>1. Range(op.done) = {}
      BY <2>2 DEF Range
    <3>. QED
      BY <1>4, <2>2, <3>1
  <2>3. CASE Unlink
    <3>1. files' = Unlinked(Head(op.unlinks)) /\ Range(op.unlinks) = {Head(op.unlinks)}
      BY <2>3, UnlinkEnds DEF Unlink
    <3>2. DOMAIN files' = DOMAIN files \ {Head(op.unlinks)}
      BY <3>1 DEF Unlinked
    <3>. QED
      BY <1>4, <3>1, <3>2 DEF Pending
  <2>. QED
    BY <2>1, <2>2, <2>3, SuccessSteps
<1>8. SUFFICES ASSUME NEW p \in DOMAIN files', NEW q \in DOMAIN files', p # q,
                      p.dir \in Lookup, q.dir \in Lookup, p.id = q.id
               PROVE  \E r, t \in DOMAIN op.before :
                        r # t /\ r.dir \in Lookup /\ t.dir \in Lookup /\ r.id = p.id /\ t.id = p.id
  BY DEF Twice
<1>9. ASSUME NEW r \in {p, q}, NEW t \in {p, q}, r # t, r \notin DOMAIN op.before
      PROVE  \E u \in DOMAIN op.before : u # t /\ u.dir \in Lookup /\ u.id = p.id /\ t \in DOMAIN op.before
  <2>1. PICK w \in Pending : r = w.to
    BY <1>7, <1>9
  <2>2. t \in DOMAIN op.before
    BY <1>4, <1>7, <1>9, <2>1 DEF Replaces
  <2>3. /\ w.from \in Range(op.unlinks) /\ w.from \in DOMAIN op.before
        /\ w.from.dir \in Lookup /\ w.from.id = w.to.id
    BY <1>4, <1>8, <1>9, <2>1, <2>2 DEF Replaces
  <2>4. w.from # t
    BY <1>7, <1>9, <2>3
  <2>. QED
    BY <1>8, <1>9, <2>1, <2>2, <2>3, <2>4
<1>. QED
  BY <1>8, <1>9

-----------------------------------------------------------------------------
(* The reader.  The task it looks for is in a file that it has yet to read, and *)
(* in another one than a rollback would remove.                                 *)

\* At most one file moves, within its directory.
OneMove ==
  \A v, w \in Pending : v.from # v.to =>
    v.from.dir = v.to.dir /\ (w.from # w.to => v.to = w.to)

\* An operation that may be rolled back changes files in place, but for one.
Stepwise ==
  op # NoOp =>
    /\ op.rolling => op.todo # <<>>
    /\ ~op.rolling => ~op.spoilt
    /\ OneMove \/ op.todo = <<>> \/ (op.done = <<>> /\ Tail(op.todo) = <<>>)

Looking == scan.at # "idle" /\ ~scan.seen /\ ~scan.excused

InSight(p) ==
  /\ p \in DOMAIN files /\ files[p].born = scan.for
  /\ p \in scan.listed \/ (scan.at = "tasks" /\ p.dir = "completed")

SightInv ==
  /\ \A p \in scan.listed : p.dir = scan.at
  /\ Looking => \E p : InSight(p)
  /\ Looking /\ op # NoOp /\ op.todo # <<>> =>
       \A w \in Range(op.done) : w.from # w.to /\ w.content.born = scan.for =>
         \E p : p # w.to /\ InSight(p)

LEMMA BeginOneStepwise ==
  ASSUME NEW kind, NEW w, NEW unlinks, Begin(kind, <<w>>, unlinks)
  PROVE  Stepwise'
<1>1. op'.todo = <<w>> /\ op'.done = <<>> /\ op'.rolling = FALSE /\ op'.spoilt = FALSE
  BY DEF Begin
<1>2. Tail(<<w>>) = <<>>
  OBVIOUS
<1>. QED
  BY <1>1, <1>2 DEF Stepwise

LEMMA OperationsStepwise ==
  ASSUME IInv, CreateTask \/ CreateDraft \/ EditTask \/ PromoteDraft \/ DemoteTask
                 \/ RenumberTask \/ RenumberFile
  PROVE  Stepwise'
<1>1. CASE CreateTask \/ CreateDraft \/ EditTask \/ PromoteDraft \/ DemoteTask \/ RenumberFile
  <2>1. PICK kind, w, unlinks : Begin(kind, <<w>>, unlinks)
    BY <1>1 DEF CreateTask, CreateDraft, EditTask, PromoteDraft, DemoteTask, RenumberFile
  <2>. QED
    BY <2>1, BeginOneStepwise
<1>2. CASE RenumberTask
  <2>1. PICK old \in Reserved, new \in Ids \ Reserved :
          LET root    == CHOOSE p \in Tasks : p.id = old
              target  == [root EXCEPT !.id = new]
              Change(p) == MoveTo(p, IF p = root THEN target ELSE p, Repointed(files[p], old, new))
          IN  \E order \in ScanOrders({root} \cup Referrers(old)) :
                Begin("renumber", [n \in DOMAIN order |-> Change(order[n])], <<root>>)
    BY <1>2 DEF RenumberTask
  <2>. DEFINE root   == CHOOSE p \in Tasks : p.id = old
              target == [root EXCEPT !.id = new]
              moved  == {root} \cup Referrers(old)
              Change(p) == MoveTo(p, IF p = root THEN target ELSE p, Repointed(files[p], old, new))
  <2>2. PICK order \in ScanOrders(moved) :
          Begin("renumber", [n \in DOMAIN order |-> Change(order[n])], <<root>>)
    BY <2>1
  <2>3. root \in Tasks /\ root \in DOMAIN files /\ root \in Paths
    <3>1. root \in Tasks
      BY DEF Reserved
    <3>. QED
      BY <3>1, FileMapsDef DEF Tasks, IInv, FilesOK
  <2>4. target.dir = root.dir
    BY <2>3 DEF Paths
  <2>5. moved \subseteq DOMAIN files
    BY <2>3 DEF Referrers, Tasks, Here
  <2>6. Range(order) = moved
    <3>1. IsFiniteSet(moved)
      BY <2>5, FS_Subset DEF IInv, FilesOK
    <3>. QED
      BY <3>1, SetToSeqsRange DEF ScanOrders
  <2>. HIDE DEF root, target, moved
  <2>7. \A p \in moved : Change(p).from = p /\ Change(p).to = IF p = root THEN target ELSE p
    BY DEF MoveTo
  <2>. HIDE DEF Change
  <2>. DEFINE writes == [n \in DOMAIN order |-> Change(order[n])]
  <2>8. \A w \in Range(writes) : \E p \in moved : w = Change(p)
    BY <2>6 DEF Range
  <2>9. op'.todo = writes /\ op'.done = <<>> /\ op'.rolling = FALSE /\ op'.spoilt = FALSE
    BY <2>2 DEF Begin
  <2>. HIDE DEF writes
  <2>10. Pending' = Range(writes)
    BY <2>9 DEF Pending, Range
  <2>11. OneMove'
    BY <2>4, <2>7, <2>8, <2>10 DEF OneMove
  <2>. QED
    BY <2>9, <2>11 DEF Stepwise
<1>. QED
  BY <1>1, <1>2

LEMMA NextStepwise ==
  ASSUME IInv, Stepwise, [Next]_vars
  PROVE  Stepwise'
<1>1. CASE UNCHANGED op
  BY <1>1 DEF Stepwise, OneMove, Pending
<1>2. CASE op' = NoOp
  BY <1>2 DEF Stepwise
<1>3. CASE ScanBegin \/ ScanRead \/ ScanNextDir \/ ScanEnd \/ UNCHANGED vars
  BY <1>1, <1>3 DEF ScanBegin, ScanRead, ScanNextDir, ScanEnd, vars
<1>4. CASE ArchiveTask \/ CompleteTask \/ ArchiveDraft \/ UnlinkFails \/ Crash
  BY <1>2, <1>4 DEF ArchiveTask, CompleteTask, ArchiveDraft, Move, UnlinkFails, Crash, End
<1>5. CASE Unlink
  BY <1>2, <1>5, UnlinkEnds DEF End
<1>6. CASE Write /\ op' # NoOp
  <2>1. op # NoOp /\ ~op.rolling /\ op.todo # <<>> /\ op \in Op
    BY <1>6 DEF Write, AtWrite, IInv, Sound
  <2>2. op' = [op EXCEPT !.todo = Tail(@), !.done = Append(@, Head(op.todo))]
    BY <1>6 DEF Write, End
  <2>3. op'.todo = Tail(op.todo) /\ op'.rolling = op.rolling /\ op'.spoilt = op.spoilt
    BY <2>1, <2>2 DEF Op
  <2>4. OneMove => OneMove'
    BY <1>6, StepPending DEF OneMove, End
  <2>. QED
    BY <2>1, <2>3, <2>4 DEF Stepwise
<1>7. CASE WriteFails /\ op' # NoOp
  <2>1. op # NoOp /\ ~op.rolling /\ op.todo # <<>> /\ op.done # <<>> /\ op \in Op
        /\ op' = [op EXCEPT !.rolling = TRUE]
    BY <1>7 DEF WriteFails, AtWrite, IInv, Sound, End
  <2>2. op'.todo = op.todo /\ op'.rolling = TRUE
    BY <2>1 DEF Op
  <2>3. OneMove => OneMove'
    BY <1>7, StepPending DEF OneMove, End
  <2>. QED
    BY <2>1, <2>2, <2>3 DEF Stepwise
<1>8. CASE (UndoWrite \/ UndoFails) /\ op' # NoOp
  <2>1. op # NoOp /\ op.rolling /\ op.done # <<>> /\ op \in Op
        /\ \/ op' = [op EXCEPT !.done = Front(@)]
           \/ op' = [op EXCEPT !.done = Front(@), !.spoilt = TRUE]
    BY <1>8 DEF UndoWrite, UndoFails, AtUndo, IInv, Sound, End
  <2>2. op'.todo = op.todo /\ op'.rolling = op.rolling
    BY <2>1 DEF Op
  <2>3. OneMove => OneMove'
    BY <1>8, StepPending DEF OneMove, End
  <2>. QED
    BY <2>1, <2>2, <2>3 DEF Stepwise
<1>. QED
  BY <1>2, <1>3, <1>4, <1>5, <1>6, <1>7, <1>8, OperationsStepwise DEF Next

-----------------------------------------------------------------------------
\* The files of each task stay, with some writes done or undone.
LEMMA SightKept ==
  ASSUME SightInv, scan' = scan,
         \A p \in DOMAIN files : p \in DOMAIN files' /\ files'[p].born = files[p].born,
         \/ op' = NoOp
         \/ Range(op'.done) = {}
         \/ op # NoOp /\ op'.todo = op.todo /\ Range(op'.done) \subseteq Range(op.done)
  PROVE  SightInv'
<1>1. \A p : InSight(p) => InSight(p)'
  BY DEF InSight
<1>2. Looking' <=> Looking
  BY DEF Looking
<1>. QED
  BY <1>1, <1>2 DEF SightInv

\* Whoever was looked for is excused, or keeps the files the reader counts on.
LEMMA ReaderSight ==
  ASSUME IInv, Stepwise, SightInv, ScanOK, ScanBegin \/ ScanRead \/ ScanNextDir \/ ScanEnd
  PROVE  SightInv'
<1>1. files' = files /\ op' = op
  BY DEF ScanBegin, ScanRead, ScanNextDir, ScanEnd
<1>2. CASE ScanBegin
  <2>1. PICK b \in Watched :
          /\ Listing("tasks", b) \cup Listing("completed", b) # {}
          /\ scan' = [at |-> "tasks", for |-> b, listed |-> Listing("tasks", b),
                      seen |-> FALSE, excused |-> FALSE]
    BY <1>2 DEF ScanBegin, FirstDir
  <2>2. /\ scan'.at = "tasks" /\ scan'.for = b /\ scan'.listed = Listing("tasks", b)
    BY <2>1
  <2>3. \A p \in DOMAIN files : files[p].born = b /\ p.dir \in {"tasks", "completed"} => InSight(p)'
    BY <1>1, <2>2 DEF InSight, Listing, Here
  <2>4. \E p : InSight(p)'
    BY <2>1, <2>3 DEF Listing, Here
  <2>5. ASSUME op # NoOp, op.todo # <<>>, NEW w \in Range(op.done), w.from # w.to, w.content.born = b
        PROVE  \E p : p # w.to /\ InSight(p)'
    <3>1. w \in Pending
      BY DEF Pending
    <3>2. OneMove
      BY <2>5 DEF Stepwise, Range
    <3>3. w.from.dir = w.to.dir
      BY <2>5, <3>1, <3>2 DEF OneMove
    <3>4. w.from \in DOMAIN files /\ files[w.from].born = b
      BY <2>5, <3>1 DEF IInv, Sound, Fits
    <3>5. CASE w.to.dir \in {"tasks", "completed"}
      BY <2>3, <2>5, <3>3, <3>4, <3>5
    <3>6. CASE w.to.dir \notin {"tasks", "completed"}
      <4>1. PICK p \in DOMAIN files : files[p].born = b /\ p.dir \in {"tasks", "completed"}
        BY <2>1 DEF Listing, Here
      <4>. QED
        BY <2>3, <3>6, <4>1
    <3>. QED
      BY <3>5, <3>6
  <2>6. \A p \in scan'.listed : p.dir = scan'.at
    BY <2>2 DEF Listing, Here
  <2>. QED
    BY <1>1, <2>2, <2>4, <2>5, <2>6 DEF SightInv
<1>3. CASE ScanRead
  <2>1. PICK q \in scan.listed :
          scan' = [scan EXCEPT !.listed = @ \ {q},
                     !.seen = @ \/ (q \in DOMAIN files /\ files[q].born = scan.for)]
    BY <1>3 DEF ScanRead
  <2>2. /\ scan'.at = scan.at /\ scan'.for = scan.for /\ scan'.excused = scan.excused
        /\ scan'.listed = scan.listed \ {q}
        /\ scan'.seen = (scan.seen \/ (q \in DOMAIN files /\ files[q].born = scan.for))
    BY <2>1, Zenon DEF ScanOK, Scans
  <2>3. Looking' => Looking /\ \A p : InSight(p) => InSight(p)'
    BY <1>1, <2>2 DEF Looking, InSight
  <2>. QED
    BY <1>1, <2>2, <2>3 DEF SightInv
<1>4. CASE ScanNextDir
  <2>1. /\ scan.at = "tasks" /\ scan.listed = {}
        /\ scan' = [scan EXCEPT !.at = "completed", !.listed = Listing("completed", scan.for)]
    BY <1>4 DEF ScanNextDir, FirstDir, NextDir
  <2>2. /\ scan'.at = "completed" /\ scan'.for = scan.for /\ scan'.excused = scan.excused
        /\ scan'.listed = Listing("completed", scan.for) /\ scan'.seen = scan.seen
    BY <2>1 DEF ScanOK, Scans
  <2>3. \A p : InSight(p) => InSight(p)'
    BY <1>1, <2>1, <2>2 DEF InSight, Listing, Here
  <2>4. Looking' => Looking
    BY <2>1, <2>2 DEF Looking
  <2>5. \A p \in scan'.listed : p.dir = scan'.at
    BY <2>2 DEF Listing, Here
  <2>. QED
    BY <1>1, <2>2, <2>3, <2>4, <2>5 DEF SightInv
<1>5. CASE ScanEnd
  BY <1>5 DEF ScanEnd, NoScan, SightInv, Looking
<1>. QED
  BY <1>2, <1>3, <1>4, <1>5

\* Files that are moved: the reader finds a completed task in the next directory.
LEMMA MoveSight ==
  ASSUME IInv, SightInv, ScanOK, ArchiveTask \/ CompleteTask \/ ArchiveDraft
  PROVE  SightInv'
<1>1. PICK p \in DOMAIN files, dir \in Dirs : Move(p, dir)
  <2>1. {"archive", "completed", "archivedDrafts"} \subseteq Dirs
    BY DEF Dirs, Lookup
  <2>2. \A d : Here(d) \subseteq DOMAIN files
    BY DEF Here
  <2>. QED
    BY <2>1, <2>2, ResolveFiles DEF ArchiveTask, CompleteTask, ArchiveDraft
<1>. DEFINE q == [p EXCEPT !.dir = dir]
            b == IF dir = "completed" THEN NoTask ELSE files[p].born
<1>2. q.dir = dir /\ (p.dir = dir => q = p)
  <2>1. p \in Paths
    BY FileMapsDef DEF IInv, FilesOK
  <2>. QED
    BY <2>1 DEF Paths
<1>3. q \notin DOMAIN files /\ files' = Renamed(p, q) /\ op' = NoOp /\ LosesSight(b)
  BY <1>1 DEF Move
<1>4. /\ scan'.at = scan.at /\ scan'.for = scan.for /\ scan'.listed = scan.listed
      /\ scan'.seen = scan.seen
      /\ scan'.excused = (scan.excused \/ (scan.at # "idle" /\ b = scan.for))
  <2>1. scan' = [scan EXCEPT !.excused = @ \/ (scan.at # "idle" /\ b = scan.for)]
    BY <1>3 DEF LosesSight
  <2>. QED
    BY <2>1, Zenon DEF ScanOK, Scans
<1>. HIDE DEF q
<1>5. q \in DOMAIN files' /\ files'[q] = files[p]
      /\ \A r \in DOMAIN files \ {p} : r \in DOMAIN files' /\ files'[r] = files[r]
  BY <1>3 DEF Renamed
<1>6. \A r \in scan'.listed : r.dir = scan'.at
  BY <1>4 DEF SightInv
<1>7. ASSUME Looking' PROVE \E r : InSight(r)'
  <2>1. Looking /\ b # scan.for
    BY <1>4, <1>7 DEF Looking
  <2>2. PICK r : InSight(r)
    BY <2>1 DEF SightInv
  <2>3. CASE r # p
    <3>1. r \in DOMAIN files' /\ files'[r] = files[r]
      BY <1>5, <2>2, <2>3 DEF InSight
    <3>. QED
      BY <1>4, <2>2, <3>1 DEF InSight
  <2>4. CASE r = p
    <3>1. dir = "completed" /\ p.dir # "completed"
      BY <1>2, <1>3, <2>1, <2>2, <2>4 DEF InSight
    <3>2. scan.at = "tasks"
      BY <2>1, <2>2, <2>4, <3>1 DEF InSight, SightInv, ScanOK, Scans, Looking
    <3>3. files[p].born = scan.for
      BY <2>2, <2>4 DEF InSight
    <3>4. InSight(q)'
      BY <1>2, <1>4, <1>5, <3>1, <3>2, <3>3 DEF InSight
    <3>. QED
      BY <3>4
  <2>. QED
    BY <2>3, <2>4
<1>. QED
  BY <1>3, <1>6, <1>7 DEF SightInv

\* An old name that goes: whoever looked for that task is excused.
LEMMA UnlinkSight ==
  ASSUME IInv, SightInv, ScanOK, Unlink
  PROVE  SightInv'
<1>. DEFINE p == Head(op.unlinks)
            b == files[p].born
<1>1. files' = Unlinked(p) /\ op' = NoOp /\ LosesSight(b)
  BY UnlinkEnds DEF Unlink, End
<1>. HIDE DEF p
<1>2. /\ scan'.at = scan.at /\ scan'.for = scan.for /\ scan'.listed = scan.listed
      /\ scan'.seen = scan.seen
      /\ scan'.excused = (scan.excused \/ (scan.at # "idle" /\ b = scan.for))
  <2>1. scan' = [scan EXCEPT !.excused = @ \/ (scan.at # "idle" /\ b = scan.for)]
    BY <1>1 DEF LosesSight
  <2>. QED
    BY <2>1, Zenon DEF ScanOK, Scans
<1>3. \A r \in DOMAIN files \ {p} : r \in DOMAIN files' /\ files'[r] = files[r]
  BY <1>1 DEF Unlinked
<1>4. ASSUME Looking' PROVE \E r : InSight(r)'
  <2>1. Looking /\ b # scan.for
    BY <1>2, <1>4 DEF Looking
  <2>2. PICK r : InSight(r)
    BY <2>1 DEF SightInv
  <2>3. r # p
    BY <2>1, <2>2 DEF InSight
  <2>. QED
    BY <1>2, <1>3, <2>2, <2>3 DEF InSight
<1>5. \A r \in scan'.listed : r.dir = scan'.at
  BY <1>2 DEF SightInv
<1>. QED
  BY <1>1, <1>4, <1>5 DEF SightInv

\* A file that is written: if it was not there, the reader counts on another.
LEMMA WriteSight ==
  ASSUME IInv, Stepwise, Restorable, SightInv, Write
  PROVE  SightInv'
<1>. DEFINE w == Head(op.todo)
<1>1. /\ op # NoOp /\ ~op.rolling /\ op.todo # <<>> /\ op \in Op /\ FilesOK /\ Sound
      /\ op.todo \in Seq(Writes) /\ op.done \in Seq(Writes) /\ scan' = scan
  BY DEF Write, AtWrite, IInv, Sound, Op
<1>2. /\ w \in Pending /\ w \in Writes
      /\ Range(Append(op.done, w)) = Range(op.done) \cup {w}
  BY <1>1, TakeHead, Appended DEF Pending
<1>3. Put(w.to, w.content)
  BY DEF Write
<1>4. op' = NoOp \/ (op'.todo = Tail(op.todo) /\ op'.done = Append(op.done, w))
  <2>1. End \/ op' = [op EXCEPT !.todo = Tail(@), !.done = Append(@, w)]
    BY DEF Write
  <2>. QED
    BY <1>1, <2>1 DEF Op, End
<1>. HIDE DEF w
<1>5. w.to \in DOMAIN files => files[w.to].born = w.content.born
  BY <1>1, <1>2 DEF Sound, Fits
<1>6. \A p \in DOMAIN files : p \in DOMAIN files' /\ files'[p].born = files[p].born
  BY <1>3, <1>5 DEF Put
<1>7. \A p : InSight(p) => InSight(p)'
  BY <1>1, <1>6 DEF InSight
<1>8. Looking' <=> Looking
  BY <1>1 DEF Looking
<1>9. ASSUME Looking, op' # NoOp, w.from # w.to, w.content.born = scan.for
      PROVE  \E p : p # w.to /\ InSight(p)
  <2>1. CASE w.to \notin DOMAIN files
    BY <1>9, <2>1 DEF SightInv, InSight
  <2>2. CASE w.to \in DOMAIN files
    <3>1. op.kind # "create"
      <4>1. op.kind = "create" => CreatesOnce
        BY <1>1 DEF Restorable, Stepwise
      <4>2. CreatesOnce => Tail(op.todo) = <<>> /\ op.unlinks = <<>>
        <5>. SUFFICES ASSUME CreatesOnce PROVE Tail(op.todo) = <<>>
          BY DEF CreatesOnce
        <5>1. Tail(op.todo) \in Seq(Writes) /\ Len(Tail(op.todo)) = 0
          BY <1>1 DEF CreatesOnce
        <5>. QED
          BY <5>1, TakeHead
      <4>. QED
        BY <1>9, <4>1, <4>2 DEF Write, End
    <3>2. w.to \notin DOMAIN op.before /\ Untouched
      BY <1>1, <1>2, <1>9, <3>1 DEF Restorable, Stepwise, Reverts
    <3>3. PICK v \in Range(op.done) : w.to = v.to
      BY <2>2, <3>2 DEF Untouched
    <3>4. v \in Pending
      BY DEF Pending
    <3>5. v.from # v.to /\ v.content.born = w.content.born
      BY <1>1, <1>2, <1>9, <3>3, <3>4 DEF Sound, Coherent
    <3>. QED
      BY <1>1, <1>9, <3>3, <3>5 DEF SightInv
  <2>. QED
    BY <2>1, <2>2
<1>10. ASSUME Looking, op' # NoOp, op'.todo # <<>>, NEW v \in Range(op'.done), v.from # v.to,
              v.content.born = scan.for
       PROVE  \E p : p # v.to /\ InSight(p)
  <2>1. v = w \/ v \in Range(op.done)
    BY <1>2, <1>4, <1>10
  <2>. QED
    BY <1>1, <1>9, <1>10, <2>1 DEF SightInv
<1>. QED
  BY <1>1, <1>7, <1>8, <1>10 DEF SightInv

\* A write that is undone: the file that moved is still where it was.
LEMMA UndoSight ==
  ASSUME IInv, Stepwise, SightInv, UndoWrite
  PROVE  SightInv'
<1>. DEFINE w == Last(op.done)
<1>1. /\ op # NoOp /\ op.rolling /\ op.todo # <<>> /\ op.done # <<>> /\ op \in Op /\ Sound
      /\ op.done \in Seq(Writes) /\ scan' = scan
  BY DEF UndoWrite, AtUndo, IInv, Sound, Op, Stepwise
<1>2. /\ w \in Range(op.done) /\ w \in Pending
      /\ Range(Front(op.done)) \subseteq Range(op.done)
  BY <1>1, DropLast DEF Pending
<1>3. op' = NoOp \/ (op'.todo = op.todo /\ op'.done = Front(op.done))
  <2>1. End \/ op' = [op EXCEPT !.done = Front(@)]
    BY DEF UndoWrite
  <2>. QED
    BY <1>1, <2>1 DEF Op, End
<1>4. IF w.from = w.to THEN Put(w.to, w.undo) ELSE files' = Unlinked(w.to)
  BY DEF UndoWrite
<1>. HIDE DEF w
<1>5. /\ w.to \in DOMAIN files => files[w.to].born = w.content.born
      /\ w.undo.born = w.content.born
  BY <1>1, <1>2 DEF Sound, Fits, Coherent
<1>6. CASE w.from = w.to
  <2>1. \A p \in DOMAIN files : p \in DOMAIN files' /\ files'[p].born = files[p].born
    BY <1>4, <1>5, <1>6 DEF Put
  <2>. QED
    BY <1>1, <1>2, <1>3, <2>1, SightKept
<1>7. CASE w.from # w.to
  <2>1. \A p \in DOMAIN files \ {w.to} : p \in DOMAIN files' /\ files'[p] = files[p]
    BY <1>4, <1>7 DEF Unlinked
  <2>2. \A p : p # w.to /\ InSight(p) => InSight(p)'
    BY <1>1, <2>1 DEF InSight
  <2>3. Looking' <=> Looking
    BY <1>1 DEF Looking
  <2>4. Looking => \E p : p # w.to /\ InSight(p)
    <3>1. CASE w.content.born = scan.for
      BY <1>1, <1>2, <1>7, <3>1 DEF SightInv
    <3>2. CASE w.content.born # scan.for
      BY <1>5, <3>2 DEF SightInv, InSight
    <3>. QED
      BY <3>1, <3>2
  <2>5. OneMove
    BY <1>1 DEF Stepwise, Range
  <2>6. \A v \in Range(op.done) : v.from # v.to => v.to = w.to
    BY <1>2, <1>7, <2>5 DEF OneMove, Pending
  <2>. QED
    BY <1>1, <1>2, <1>3, <2>2, <2>3, <2>4, <2>6 DEF SightInv
<1>. QED
  BY <1>6, <1>7

LEMMA NextSight ==
  ASSUME IInv, Stepwise, Restorable, SightInv, ScanOK, [Next]_vars
  PROVE  SightInv'
<1>1. CASE UNCHANGED vars
  BY <1>1 DEF vars, SightInv, Looking, InSight
<1>2. CASE CreateTask \/ CreateDraft \/ EditTask \/ PromoteDraft \/ DemoteTask
             \/ RenumberTask \/ RenumberFile
  <2>1. PICK kind, writes, unlinks : Begin(kind, writes, unlinks)
    BY <1>2 DEF CreateTask, CreateDraft, EditTask, PromoteDraft, DemoteTask, RenumberTask,
                RenumberFile
  <2>2. files' = files /\ scan' = scan /\ op'.done = <<>>
    BY <2>1 DEF Begin
  <2>3. Range(op'.done) = {}
    BY <2>2 DEF Range
  <2>. QED
    BY <2>2, <2>3, SightKept
<1>3. CASE WriteFails \/ UndoFails \/ UnlinkFails \/ Crash
  <2>1. files' = files /\ scan' = scan
    BY <1>3 DEF WriteFails, UndoFails, UnlinkFails, Crash
  <2>2. op' = NoOp \/ (op # NoOp /\ op'.todo = op.todo /\ Range(op'.done) \subseteq Range(op.done))
    <3>1. CASE UnlinkFails \/ Crash
      BY <3>1 DEF UnlinkFails, Crash, End
    <3>2. CASE WriteFails
      <4>1. op # NoOp /\ op \in Op /\ (op' = NoOp \/ op' = [op EXCEPT !.rolling = TRUE])
        BY <3>2 DEF WriteFails, AtWrite, End, IInv, Sound
      <4>. QED
        BY <4>1 DEF Op
    <3>3. CASE UndoFails
      <4>1. /\ op # NoOp /\ op \in Op /\ op.done # <<>> /\ op.done \in Seq(Writes)
            /\ op' = NoOp \/ op' = [op EXCEPT !.done = Front(@), !.spoilt = TRUE]
        BY <3>3 DEF UndoFails, AtUndo, End, IInv, Sound, Op
      <4>2. Range(Front(op.done)) \subseteq Range(op.done)
        BY <4>1, DropLast
      <4>. QED
        BY <4>1, <4>2 DEF Op
    <3>. QED
      BY <1>3, <3>1, <3>2, <3>3
  <2>. QED
    BY <2>1, <2>2, SightKept
<1>. QED
  BY <1>1, <1>2, <1>3, MoveSight, UnlinkSight, WriteSight, UndoSight, ReaderSight DEF Next

-----------------------------------------------------------------------------
(* References.  A renumbering moves one file and carries every file along: what *)
(* each becomes depends on what the ids it depended on have become.             *)

Image(p, root, target) == IF p = root THEN target ELSE p

\* c is of the task that d was of, and depends on what sub makes of its dependencies.
Keeps(c, d, sub) == c.born = d.born /\ \A i \in d.deps : sub[i] \in c.deps

Carries(root, target, sub) ==
  /\ op.unlinks = <<root>> /\ root \in DOMAIN op.before /\ root.dir \in Lookup
  /\ target \notin DOMAIN op.before /\ target.dir = root.dir
  /\ \A w \in Pending : /\ w.from \in DOMAIN op.before /\ w.to = Image(w.from, root, target)
                        /\ Keeps(w.content, op.before[w.from], sub)
  /\ \A w \in Range(op.done) : Keeps(files[w.to], op.before[w.from], sub)
  /\ \A p \in DOMAIN op.before :
       p = root \/ (p.dir # "archivedDrafts" /\ ~Keeps(op.before[p], op.before[p], sub)) =>
         \E w \in Pending : w.from = p

\* The ids after a renumbering of the one file that had this id, or of one of several.
Renames(root, target, sub) ==
  IF op.kind = "renumber"
  THEN /\ sub = [d \in Ids |-> IF d = root.id THEN target.id ELSE d]
       /\ \A p \in DOMAIN op.before : p.dir \in Lookup /\ p.id = root.id => p = root
  ELSE sub = [d \in Ids |-> d]

OneTaskEach(fs) ==
  \A p, q \in DOMAIN fs :
    p.dir \in Lookup /\ q.dir \in Lookup /\ p.id = q.id => fs[p].born = fs[q].born

Carrying ==
  op # NoOp /\ ~op.rolling /\ op.kind \in {"renumber", "renumberFile"} =>
    /\ OneTaskEach(op.before)
    /\ \E root, target, sub : Carries(root, target, sub) /\ Renames(root, target, sub)

LEMMA BeginCarrying ==
  ASSUME IdsOK, NEW kind, NEW writes, NEW root, NEW target, NEW sub,
         Begin(kind, writes, <<root>>),
         root \in DOMAIN files, root.dir \in Lookup,
         target \notin DOMAIN files, target.dir = root.dir,
         \A w \in Range(writes) : /\ w.from \in DOMAIN files /\ w.to = Image(w.from, root, target)
                                  /\ Keeps(w.content, files[w.from], sub),
         \A p \in DOMAIN files :
           p = root \/ (p.dir # "archivedDrafts" /\ ~Keeps(files[p], files[p], sub)) =>
             \E w \in Range(writes) : w.from = p,
         IF kind = "renumber"
         THEN /\ sub = [d \in Ids |-> IF d = root.id THEN target.id ELSE d]
              /\ \A p \in DOMAIN files : p.dir \in Lookup /\ p.id = root.id => p = root
         ELSE sub = [d \in Ids |-> d]
  PROVE  Carrying'
<1>1. /\ op'.before = files /\ op'.todo = writes /\ op'.done = <<>> /\ op'.unlinks = <<root>>
      /\ op'.kind = kind
  BY DEF Begin
<1>2. Pending' = Range(writes) /\ Range(op'.done) = {}
  BY <1>1 DEF Pending, Range
<1>3. OneTaskEach(op'.before)
  BY <1>1 DEF IdsOK, IdsNameOneTask, Tasks, OneTaskEach
<1>4. Carries(root, target, sub)'
  BY <1>1, <1>2 DEF Carries
<1>5. Renames(root, target, sub)'
  BY <1>1 DEF Renames
<1>. QED
  BY <1>3, <1>4, <1>5 DEF Carrying, OneTaskEach

LEMMA RenumberCarrying ==
  ASSUME IInv, IdsOK, RenumberTask
  PROVE  Carrying'
<1>1. \A p \in DOMAIN files : p \in Paths /\ files[p] \in Contents
  BY FileMapsDef DEF IInv, FilesOK
<1>2. PICK old \in Reserved, new \in Ids \ Reserved :
        LET root    == CHOOSE p \in Tasks : p.id = old
            target  == [root EXCEPT !.id = new]
            Change(p) == MoveTo(p, IF p = root THEN target ELSE p, Repointed(files[p], old, new))
        IN  /\ Cardinality({p \in Tasks : p.id = old}) = 1
            /\ target \notin DOMAIN files
            /\ \E order \in ScanOrders({root} \cup Referrers(old)) :
                 Begin("renumber", [n \in DOMAIN order |-> Change(order[n])], <<root>>)
  BY DEF RenumberTask
<1>. DEFINE root   == CHOOSE p \in Tasks : p.id = old
            target == [root EXCEPT !.id = new]
            moved  == {root} \cup Referrers(old)
            sub    == [d \in Ids |-> IF d = old THEN new ELSE d]
            Change(p) == MoveTo(p, IF p = root THEN target ELSE p, Repointed(files[p], old, new))
<1>3. PICK order \in ScanOrders(moved) :
        Begin("renumber", [n \in DOMAIN order |-> Change(order[n])], <<root>>)
  BY <1>2
<1>4. root \in Tasks /\ root.id = old
  BY DEF Reserved
<1>5. root \in DOMAIN files /\ root.dir \in Lookup /\ root \in Paths
  BY <1>1, <1>4 DEF Tasks
<1>6. target.dir = root.dir /\ target.id = new /\ target \notin DOMAIN files
  BY <1>2, <1>5 DEF Paths
<1>7. \A p \in DOMAIN files : p.dir \in Lookup /\ p.id = root.id => p = root
  <2>1. IsFiniteSet({p \in Tasks : p.id = old})
    BY FS_Subset DEF IInv, FilesOK, Tasks
  <2>2. PICK x : {p \in Tasks : p.id = old} = {x}
    BY <1>2, <2>1, FS_Singleton
  <2>. QED
    BY <1>4, <2>2 DEF Tasks
<1>8. moved \subseteq DOMAIN files
  BY <1>5 DEF Referrers, Tasks, Here
<1>9. Range(order) = moved
  <2>1. IsFiniteSet(moved)
    BY <1>8, FS_Subset DEF IInv, FilesOK
  <2>. QED
    BY <2>1, SetToSeqsRange DEF ScanOrders
<1>10. \A p \in moved : /\ Change(p).from = p /\ Change(p).to = Image(p, root, target)
                        /\ Change(p).content = Repointed(files[p], old, new)
  BY DEF MoveTo, Image
<1>11. \A p \in DOMAIN files : Keeps(Repointed(files[p], old, new), files[p], sub)
  <2>. SUFFICES ASSUME NEW p \in DOMAIN files
               PROVE  Keeps(Repointed(files[p], old, new), files[p], sub)
    OBVIOUS
  <2>1. files[p] \in Contents /\ files[p].deps \subseteq Ids
    BY <1>1 DEF Contents, DepSets
  <2>2. /\ Repointed(files[p], old, new).born = files[p].born
        /\ Repointed(files[p], old, new).deps = {IF d = old THEN new ELSE d : d \in files[p].deps}
    BY <2>1 DEF Repointed, Contents
  <2>. QED
    BY <2>1, <2>2 DEF Keeps
<1>12. \A p \in DOMAIN files :
         p = root \/ (p.dir # "archivedDrafts" /\ ~Keeps(files[p], files[p], sub)) => p \in moved
  <2>. SUFFICES ASSUME NEW p \in DOMAIN files, p.dir # "archivedDrafts",
                      ~Keeps(files[p], files[p], sub)
               PROVE  p \in Referrers(old)
    OBVIOUS
  <2>1. files[p].deps \subseteq Ids /\ p.dir \in Dirs
    BY <1>1 DEF Contents, DepSets, Paths
  <2>2. old \in files[p].deps
    BY <2>1 DEF Keeps
  <2>. QED
    BY <2>1, <2>2 DEF Referrers, Tasks, Here, Dirs
<1>. HIDE DEF root, target, moved, sub
<1>. HIDE DEF Change
<1>. DEFINE writes == [n \in DOMAIN order |-> Change(order[n])]
<1>13. Begin("renumber", writes, <<root>>)
  BY <1>3
<1>14. Range(writes) = {Change(p) : p \in moved}
  BY <1>9 DEF Range
<1>. HIDE DEF writes
<1>15. \A w \in Range(writes) : /\ w.from \in DOMAIN files /\ w.to = Image(w.from, root, target)
                                /\ Keeps(w.content, files[w.from], sub)
  BY <1>8, <1>10, <1>11, <1>14
<1>16. \A p \in DOMAIN files :
         p = root \/ (p.dir # "archivedDrafts" /\ ~Keeps(files[p], files[p], sub)) =>
           \E w \in Range(writes) : w.from = p
  BY <1>10, <1>12, <1>14
<1>17. sub = [d \in Ids |-> IF d = root.id THEN target.id ELSE d]
  BY <1>4, <1>6 DEF sub
<1>. QED
  BY <1>5, <1>6, <1>7, <1>13, <1>15, <1>16, <1>17, BeginCarrying

LEMMA RenumberFileCarrying ==
  ASSUME IInv, IdsOK, RenumberFile
  PROVE  Carrying'
<1>1. \A p \in DOMAIN files : p \in Paths /\ files[p] \in Contents
  BY FileMapsDef DEF IInv, FilesOK
<1>2. PICK p \in Tasks, new \in Ids :
        LET q == [p EXCEPT !.id = new]
        IN  q \notin DOMAIN files /\ Begin("renumberFile", <<MoveTo(p, q, files[p])>>, <<p>>)
  BY DEF RenumberFile
<1>. DEFINE q   == [p EXCEPT !.id = new]
            w   == MoveTo(p, q, files[p])
            sub == [d \in Ids |-> d]
<1>3. p \in DOMAIN files /\ p.dir \in Lookup /\ p \in Paths
  BY <1>1 DEF Tasks
<1>4. q.dir = p.dir /\ q \notin DOMAIN files
  BY <1>2, <1>3 DEF Paths
<1>5. Range(<<w>>) = {w} /\ w.from = p /\ w.to = q /\ w.content = files[p]
  BY DEF Range, MoveTo
<1>6. \A r \in DOMAIN files : Keeps(files[r], files[r], sub)
  BY <1>1 DEF Keeps, Contents, DepSets
<1>7. Begin("renumberFile", <<w>>, <<p>>)
  BY <1>2
<1>. HIDE DEF q, w, sub
<1>8. \A v \in Range(<<w>>) : /\ v.from \in DOMAIN files /\ v.to = Image(v.from, p, q)
                              /\ Keeps(v.content, files[v.from], sub)
  BY <1>3, <1>5, <1>6 DEF Image
<1>9. \A r \in DOMAIN files :
        r = p \/ (r.dir # "archivedDrafts" /\ ~Keeps(files[r], files[r], sub)) =>
          \E v \in Range(<<w>>) : v.from = r
  BY <1>5, <1>6
<1>10. PICK kind, writes : kind = "renumberFile" /\ writes = <<w>>
  OBVIOUS
<1>11. IF kind = "renumber"
       THEN /\ sub = [d \in Ids |-> IF d = p.id THEN q.id ELSE d]
            /\ \A r \in DOMAIN files : r.dir \in Lookup /\ r.id = p.id => r = p
       ELSE sub = [d \in Ids |-> d]
  BY <1>10 DEF sub
<1>12. Begin(kind, writes, <<p>>)
  BY <1>7, <1>10
<1>. QED
  BY <1>3, <1>4, <1>8, <1>9, <1>10, <1>11, <1>12, BeginCarrying

LEMMA WriteCarrying ==
  ASSUME IInv, Carrying, Write
  PROVE  Carrying'
<1>. DEFINE w == Head(op.todo)
<1>. SUFFICES ASSUME op' # NoOp, op'.kind \in {"renumber", "renumberFile"}
             PROVE  /\ OneTaskEach(op'.before)
                    /\ \E root, target, sub : Carries(root, target, sub)' /\ Renames(root, target, sub)'
  BY DEF Carrying, OneTaskEach
<1>1. op # NoOp /\ ~op.rolling /\ op.todo # <<>> /\ op \in Op
  BY DEF Write, AtWrite, IInv, Sound
<1>2. /\ op.todo \in Seq(Writes) /\ op.done \in Seq(Writes) /\ w \in Writes /\ w \in Pending
      /\ Range(op.todo) = {w} \cup Range(Tail(op.todo))
      /\ Range(Append(op.done, w)) = Range(op.done) \cup {w}
  BY <1>1, TakeHead, Appended DEF Op, Pending
<1>3. op' = [op EXCEPT !.todo = Tail(@), !.done = Append(@, w)]
  BY DEF Write, End
<1>4. /\ op'.todo = Tail(op.todo) /\ op'.done = Append(op.done, w) /\ op'.kind = op.kind
      /\ op'.unlinks = op.unlinks /\ op'.before = op.before
  BY <1>1, <1>3 DEF Op
<1>5. Put(w.to, w.content)
  BY DEF Write
<1>. HIDE DEF w
<1>6. Pending' = Pending
  BY <1>2, <1>4 DEF Pending
<1>7. PICK root, target, sub : Carries(root, target, sub) /\ Renames(root, target, sub)
  BY <1>1, <1>4 DEF Carrying
<1>8. ASSUME NEW v \in Range(op'.done) PROVE Keeps(files'[v.to], op.before[v.from], sub)
  <2>1. v \in Pending /\ (v = w \/ v \in Range(op.done))
    BY <1>2, <1>4 DEF Pending
  <2>2. CASE v.to = w.to
    <3>1. v.from = w.from
      BY <1>2, <1>7, <2>1, <2>2 DEF Carries, Image
    <3>2. files'[v.to] = w.content
      BY <1>5, <2>2 DEF Put
    <3>. QED
      BY <1>2, <1>7, <3>1, <3>2 DEF Carries
  <2>3. CASE v.to # w.to
    <3>1. v \in Range(op.done) /\ v.to \in DOMAIN files
      BY <1>1, <2>1, <2>3 DEF IInv, Sound
    <3>2. files'[v.to] = files[v.to]
      BY <1>5, <2>3, <3>1 DEF Put
    <3>. QED
      BY <1>7, <3>1, <3>2 DEF Carries
  <2>. QED
    BY <2>2, <2>3
<1>9. Carries(root, target, sub)'
  BY <1>4, <1>6, <1>7, <1>8 DEF Carries
<1>10. Renames(root, target, sub)'
  BY <1>4, <1>7 DEF Renames
<1>. QED
  BY <1>1, <1>4, <1>9, <1>10 DEF Carrying

LEMMA NextCarrying ==
  ASSUME IInv, IdsOK, Carrying, [Next]_vars
  PROVE  Carrying'
<1>1. CASE UNCHANGED <<files, op>>
  BY <1>1 DEF Carrying, Carries, Renames, OneTaskEach, Pending
<1>2. CASE op' = NoOp
  BY <1>2 DEF Carrying
<1>3. CASE ScanBegin \/ ScanRead \/ ScanNextDir \/ ScanEnd \/ UNCHANGED vars
  BY <1>1, <1>3 DEF ScanBegin, ScanRead, ScanNextDir, ScanEnd, vars
<1>4. CASE Unlink
  BY <1>2, <1>4, UnlinkEnds DEF End
<1>5. CASE ArchiveTask \/ CompleteTask \/ ArchiveDraft \/ UnlinkFails \/ Crash
  BY <1>2, <1>5 DEF ArchiveTask, CompleteTask, ArchiveDraft, Move, UnlinkFails, Crash, End
<1>6. CASE (WriteFails \/ UndoWrite \/ UndoFails) /\ op' # NoOp
  <2>1. op \in Op /\ \/ op' = [op EXCEPT !.rolling = TRUE]
                     \/ op.rolling /\ op' = [op EXCEPT !.done = Front(@)]
                     \/ op.rolling /\ op' = [op EXCEPT !.done = Front(@), !.spoilt = TRUE]
    BY <1>6 DEF WriteFails, UndoWrite, UndoFails, AtWrite, AtUndo, End, IInv, Sound
  <2>2. op'.rolling
    BY <2>1 DEF Op
  <2>. QED
    BY <2>2 DEF Carrying
<1>7. CASE CreateTask \/ CreateDraft \/ EditTask \/ PromoteDraft \/ DemoteTask
  <2>1. CASE CreateTask
    BY <2>1 DEF CreateTask, Begin, Carrying
  <2>2. CASE CreateDraft
    BY <2>2 DEF CreateDraft, Begin, Carrying
  <2>3. CASE EditTask
    BY <2>3 DEF EditTask, Begin, Carrying
  <2>4. CASE PromoteDraft
    BY <2>4 DEF PromoteDraft, Begin, Carrying
  <2>5. CASE DemoteTask
    BY <2>5 DEF DemoteTask, Begin, Carrying
  <2>. QED
    BY <1>7, <2>1, <2>2, <2>3, <2>4, <2>5
<1>. QED
  BY <1>2, <1>3, <1>4, <1>5, <1>6, <1>7, RenumberCarrying, RenumberFileCarrying, WriteCarrying DEF Next

\* A renumbering that succeeds ends with an unlinked name, or its first write failed.
LEMMA RenumberEnds ==
  ASSUME IInv, ScanOK, Restorable, Stepwise, Traceable, Carrying, [Next]_vars, Succeeds,
         \/ op.kind = "renumber"
         \/ op.kind = "renumberFile" /\ Head(op.unlinks).id \in Duplicated(op.before)
  PROVE  Edges(op.before) \subseteq Edges(files')
<1>1. /\ op # NoOp /\ ~op.rolling /\ ~op.spoilt /\ op \in Op /\ op.before \in FileMaps
      /\ Sound /\ op.todo \in Seq(Writes) /\ op.done \in Seq(Writes)
  BY DEF Succeeds, Ends, Stepwise, IInv, Sound, Op
<1>2. OneTaskEach(op.before) /\ IsFiniteSet(DOMAIN op.before) /\ Untouched
  BY <1>1 DEF Carrying, Traceable, Restorable
<1>3. PICK root, target, sub : Carries(root, target, sub) /\ Renames(root, target, sub)
  BY <1>1 DEF Carrying
<1>4. op.unlinks # <<>> /\ Head(op.unlinks) = root
  BY <1>3 DEF Carries
<1>5. CASE WriteFails /\ op.done = <<>> /\ files' = files
  <2>1. Range(op.done) = {}
    BY <1>5 DEF Range
  <2>2. \A q \in DOMAIN op.before : q \in DOMAIN files /\ files[q] = op.before[q]
    BY <1>2, <2>1 DEF Untouched
  <2>. QED
    BY <1>5, <2>2 DEF Edges
<1>6. CASE Unlink
  <2>1. op.todo = <<>> /\ files' = Unlinked(root)
    BY <1>4, <1>6 DEF Unlink, AtUnlink
  <2>2. /\ \A q \in DOMAIN files : q # root => q \in DOMAIN files' /\ files'[q] = files[q]
        /\ Pending = Range(op.done)
    BY <2>1 DEF Unlinked, Pending, Range
  <2>3. ASSUME NEW p \in DOMAIN op.before, p.dir # "archivedDrafts"
        PROVE  /\ Image(p, root, target) \in DOMAIN files'
               /\ Image(p, root, target).dir = p.dir
               /\ Keeps(files'[Image(p, root, target)], op.before[p], sub)
    <3>1. Image(p, root, target).dir = p.dir /\ Image(p, root, target) # root
      BY <1>3, <2>3 DEF Carries, Image
    <3>2. CASE \E w \in Pending : w.from = p
      <4>1. PICK w \in Range(op.done) : w.from = p
        BY <2>2, <3>2
      <4>2. w.to = Image(p, root, target) /\ w.to \in DOMAIN files
        BY <1>1, <1>3, <2>2, <4>1 DEF Carries, Sound
      <4>. QED
        BY <1>3, <2>2, <3>1, <4>1, <4>2 DEF Carries
    <3>3. CASE ~\E w \in Pending : w.from = p
      <4>1. p # root /\ Keeps(op.before[p], op.before[p], sub)
        BY <1>3, <2>3, <3>3 DEF Carries
      <4>2. \A w \in Range(op.done) : w.to # p
        BY <1>3, <2>2, <3>3 DEF Carries, Image
      <4>3. p \in DOMAIN files /\ files[p] = op.before[p]
        BY <1>2, <4>2 DEF Untouched
      <4>. QED
        BY <2>2, <3>1, <4>1, <4>3 DEF Image
    <3>. QED
      BY <3>2, <3>3
  <2>4. \A p \in DOMAIN op.before : p \in Paths /\ p.id \in Ids
    BY <1>1, FileMapsDef DEF Paths
  \* Where a task depends on q's, there is a file of that task, with the id that
  \* takes the place of q's.
  <2>5. ASSUME NEW q \in DOMAIN op.before, q.dir \in Lookup
        PROVE  \E r \in DOMAIN files' : /\ r.dir \in Lookup /\ r.id = sub[q.id]
                                        /\ files'[r].born = op.before[q].born
    <3>1. CASE op.kind = "renumber"
      <4>1. Image(q, root, target).id = sub[q.id]
        BY <1>3, <2>4, <2>5, <3>1 DEF Renames, Image
      <4>. QED
        BY <2>3, <2>5, <4>1 DEF Keeps, Lookup
    <3>2. CASE op.kind # "renumber"
      <4>1. sub[q.id] = q.id
        BY <1>3, <2>4, <3>2 DEF Renames
      <4>2. PICK t \in DOMAIN op.before : /\ t # root /\ t.dir \in Lookup /\ t.id = q.id
                                          /\ op.before[t].born = op.before[q].born
        <5>1. CASE q # root
          BY <2>5, <5>1
        <5>2. CASE q = root
          <6>1. root.id \in Twice(DOMAIN op.before)
            BY <1>2, <1>4, <3>2, DuplicatedIsTwice
          <6>. QED
            BY <1>2, <2>5, <5>2, <6>1 DEF Twice, OneTaskEach
        <5>. QED
          BY <5>1, <5>2
      <4>3. Image(t, root, target) = t
        BY <4>2 DEF Image
      <4>. QED
        BY <2>3, <4>1, <4>2, <4>3 DEF Keeps, Lookup
    <3>. QED
      BY <3>1, <3>2
  <2>6. SUFFICES ASSUME NEW p \in DOMAIN op.before, NEW q \in DOMAIN op.before,
                        p.dir # "archivedDrafts", q.dir \in Lookup, q.id \in op.before[p].deps,
                        <<op.before[p].born, op.before[q].born>> \in Births \X Births
                 PROVE  <<op.before[p].born, op.before[q].born>> \in Edges(files')
    BY DEF Edges
  <2>7. PICK r \in DOMAIN files' : r.dir \in Lookup /\ r.id = sub[q.id]
                                  /\ files'[r].born = op.before[q].born
    BY <2>5, <2>6
  <2>8. PICK s \in DOMAIN files' : /\ s.dir = p.dir /\ sub[q.id] \in files'[s].deps
                                   /\ files'[s].born = op.before[p].born
    BY <2>3, <2>6 DEF Keeps
  <2>. QED
    BY <2>6, <2>7, <2>8 DEF Edges
<1>. QED
  BY <1>4, <1>5, <1>6, SuccessSteps

-----------------------------------------------------------------------------
(* The theorems. *)

\* Every variable has its type, and a name that is to be unlinked is still there.
THEOREM TypeCorrect == Spec => []TypeOK
<1>1. Init => ScanOK
  BY BoundsAssumption DEF Init, NoScan, ScanOK, Scans
<1>2. IInv /\ ScanOK /\ [Next]_vars => ScanOK'
  BY NextScanOK DEF IInv
<1>3. IInv /\ ScanOK => TypeOK
  BY FileMapsDef DEF IInv, FilesOK, Sound, Op, ScanOK, Scans, TypeOK
<1>. QED
  BY <1>1, <1>2, <1>3, Invariance, PTL DEF Spec

\* No task is lost: whatever operation runs, fails, is rolled back or dies
\* half-way, a task that has a file has one after every step
\* (repository.py:817-819, 1205-1238, drafts.py:161-166).
THEOREM NoTaskLost == Spec => NothingLost
<1>1. IInv /\ [Next]_vars => [Lineages(files) \subseteq Lineages(files')]_vars
  BY NextIInv
<1>. QED
  BY <1>1, Invariance, PTL DEF Spec, NothingLost

\* An id never names two tasks: not after crashes, unlinks that fail, rollbacks
\* that fail, demotions that free an id and promotions that allocate one
\* (repository.py:216-230, 1161-1170).
THEOREM IdsUnique == Spec => []IdsNameOneTask
<1>1. Init => IdsOK
  BY DEF Init, IdsOK, IdsNameOneTask, Tasks
<1>2. IInv /\ IdsOK /\ [Next]_vars => IdsOK'
  BY NextIdsOK
<1>3. IdsOK => IdsNameOneTask
  BY DEF IdsOK
<1>. QED
  BY <1>1, <1>2, <1>3, Invariance, PTL DEF Spec

\* An operation whose write fails, and whose rollback does not, leaves every file
\* as it was when the operation began (repository.py:1205-1234).
THEOREM RollbackRestores == Spec => FailedWriteChangesNothing
<1>1. Init => ScanOK /\ Restorable
  BY BoundsAssumption DEF Init, NoScan, ScanOK, Scans, Restorable
<1>2. IInv /\ ScanOK /\ Restorable /\ [Next]_vars => (ScanOK /\ Restorable)'
  BY NextScanOK, NextRestorable DEF IInv
<1>3. IInv /\ ScanOK /\ Restorable /\ [Next]_vars => [RolledBack => files' = op.before]_vars
  BY RollbackEnds
<1>. QED
  BY <1>1, <1>2, <1>3, Invariance, PTL DEF Spec, FailedWriteChangesNothing

\* An operation that succeeds leaves no id on two files that was not before it
\* (repository.py:817-819, 1235-1237).
THEOREM SuccessIsUnique == Spec => SuccessAddsNoDuplicate
<1>1. Init => ScanOK /\ Traceable
  BY BoundsAssumption DEF Init, NoScan, ScanOK, Scans, Traceable
<1>2. IInv /\ ScanOK /\ Traceable /\ [Next]_vars => (ScanOK /\ Traceable)'
  BY NextScanOK, NextTraceable DEF IInv
<1>3. IInv /\ ScanOK /\ Traceable /\ [Next]_vars
        => [Succeeds => Duplicated(files') \subseteq Duplicated(op.before)]_vars
  BY SuccessEnds
<1>. QED
  BY <1>1, <1>2, <1>3, Invariance, PTL DEF Spec, SuccessAddsNoDuplicate

\* A reader that looks for a task while operations create, edit, move, renumber and
\* roll back finds it, unless it was renamed, archived or demoted meanwhile: a scan
\* of tasks/ and then completed/ needs no lock for that (repository.py:358-362).
THEOREM ScansFindTheirTask == Spec => ScanFindsTask
<1>1. Init => ScanOK /\ Restorable /\ Stepwise /\ SightInv
  BY BoundsAssumption DEF Init, NoScan, ScanOK, Scans, Restorable, Stepwise, SightInv, Looking
<1>2. IInv /\ ScanOK /\ Restorable /\ Stepwise /\ SightInv /\ [Next]_vars
        => (ScanOK /\ Restorable /\ Stepwise /\ SightInv)'
  BY NextScanOK, NextRestorable, NextStepwise, NextSight DEF IInv
<1>3. IInv /\ ScanOK /\ Restorable /\ Stepwise /\ SightInv /\ [Next]_vars
        => [scan.at # "idle" /\ scan'.at = "idle" => scan.seen \/ scan.excused]_vars
  <2>. SUFFICES ASSUME ScanOK, SightInv, Next, scan.at # "idle", scan'.at = "idle"
               PROVE  scan.seen \/ scan.excused
    OBVIOUS
  <2>1. \A b : LosesSight(b) => scan'.at = scan.at
    BY DEF LosesSight, ScanOK, Scans
  <2>2. ScanRead \/ ScanNextDir => scan'.at # "idle"
    BY DEF ScanRead, ScanNextDir, NextDir, FirstDir, ScanOK, Scans
  <2>3. ScanEnd
    BY <2>1, <2>2 DEF Next, CreateTask, CreateDraft, EditTask, PromoteDraft, DemoteTask, RenumberTask,
      RenumberFile, Begin, ArchiveTask, CompleteTask, ArchiveDraft, Move, Unlink, Write,
      WriteFails, UndoWrite, UndoFails, UnlinkFails, Crash, ScanBegin
  <2>4. scan.at = "completed" /\ scan.listed = {}
    BY <2>3 DEF ScanEnd, NextDir, FirstDir
  <2>5. ~Looking
    BY <2>4 DEF SightInv, InSight
  <2>. QED
    BY <2>4, <2>5 DEF Looking
<1>. QED
  BY <1>1, <1>2, <1>3, Invariance, PTL DEF Spec, ScanFindsTask

\* A renumbering that succeeds leaves every task depending on the tasks it depended
\* on, whatever its id has become; so does the renumbering of one of several files
\* with an id (repository.py:1040-1048, 1084-1137).
THEOREM ReferencesAreKept == Spec => RenumberKeepsReferences
<1>1. Init => ScanOK /\ IdsOK /\ Restorable /\ Stepwise /\ Traceable /\ Carrying
  BY BoundsAssumption DEF Init, NoScan, ScanOK, Scans, IdsOK, IdsNameOneTask, Tasks, Restorable,
                          Stepwise, Traceable, Carrying
<1>2. IInv /\ ScanOK /\ IdsOK /\ Restorable /\ Stepwise /\ Traceable /\ Carrying /\ [Next]_vars
        => (ScanOK /\ IdsOK /\ Restorable /\ Stepwise /\ Traceable /\ Carrying)'
  BY NextScanOK, NextIdsOK, NextRestorable, NextStepwise, NextTraceable, NextCarrying DEF IInv
<1>3. IInv /\ ScanOK /\ Restorable /\ Stepwise /\ Traceable /\ Carrying /\ [Next]_vars
        => [Succeeds
              /\ \/ op.kind = "renumber"
                 \/ op.kind = "renumberFile" /\ Head(op.unlinks).id \in Duplicated(op.before)
            => Edges(op.before) \subseteq Edges(files')]_vars
  BY RenumberEnds
<1>. QED
  BY <1>1, <1>2, <1>3, Invariance, PTL DEF Spec, RenumberKeepsReferences
=============================================================================
