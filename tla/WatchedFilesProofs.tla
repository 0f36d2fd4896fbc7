------------------------- MODULE WatchedFilesProofs -------------------------
(***************************************************************************)
(* What the proofs about ScanCache and ReadIndex share: lemmas about files *)
(* that others write while they are signed and read, whatever the files,   *)
(* the tick and the window.                                                *)
(*                                                                         *)
(* They say what a signature is good for.  SigOK: the file has not gone    *)
(* back behind the mtime in it, and when it holds no content hash its tick *)
(* is over.  ScanOK: if the file still has that mtime, it has the content  *)
(* that was read under the signature, or the content was replaced within a *)
(* tick in which the signature holds a hash.  Both survive every write     *)
(* (EnvKeepsSig, EnvKeepsScan), so whoever takes the same signature later  *)
(* may answer what was read under it (SameSignature).                      *)
(***************************************************************************)
EXTENDS WatchedFiles, TLAPS

\* What has been found of some of the files.
Partial(S) == UNION {[fs -> S] : fs \in SUBSET Files}

FilesInv ==
  /\ clock \in Nat /\ Tick <= clock
  /\ file \in [Files -> [data : Contents, mtime : Nat]]
  /\ lastHad \in [Files -> [Contents -> Nat \cup {-1}]]
  /\ \A f \in Files : file[f].mtime <= Stamp(clock)
  /\ \A f \in Files, d \in Contents : lastHad[f][d] <= clock

\* Signature s was taken of file f.
SigOK(f, s) ==
  /\ s.mtime <= file[f].mtime
  /\ s.hash = NoHash => s.mtime + Tick <= clock

\* d was read of file f after s was taken.
ScanOK(f, s, d) ==
  s # Missing /\ file[f].mtime = s.mtime =>
    file[f].data = d \/ (s.hash # NoHash /\ lastHad[f][d] >= s.mtime)

\* d may be answered of file f, to a request that began at t and signed f as s.
MayAnswer(f, s, d, t) == Recent(f, d, t) \/ (d # NoFile /\ s = Missing)

-----------------------------------------------------------------------------
(* What is found of files. *)

LEMMA PartialIs ==
  ASSUME NEW S, NEW p \in Partial(S)
  PROVE  DOMAIN p \subseteq Files /\ \A f \in DOMAIN p : p[f] \in S
BY DEF Partial

LEMMA NoneIsPartial ==
  ASSUME NEW S PROVE None \in Partial(S) /\ DOMAIN None = {}
<1>1. None \in [{} -> S] BY DEF None
<1> QED BY <1>1 DEF Partial, None

LEMMA PutIsPartial ==
  ASSUME NEW S, NEW p \in Partial(S), NEW f \in Files, NEW x \in S
  PROVE  /\ Put(p, f, x) \in Partial(S)
         /\ DOMAIN Put(p, f, x) = DOMAIN p \cup {f}
         /\ Put(p, f, x)[f] = x
         /\ \A g \in DOMAIN p \ {f} : Put(p, f, x)[g] = p[g]
<1>1. DOMAIN p \subseteq Files /\ \A g \in DOMAIN p : p[g] \in S BY PartialIs
<1>2. Put(p, f, x) \in [DOMAIN p \cup {f} -> S] BY <1>1 DEF Put
<1>3. DOMAIN p \cup {f} \in SUBSET Files BY <1>1
<1>4. Put(p, f, x) \in Partial(S) BY <1>2, <1>3 DEF Partial
<1> QED BY <1>4 DEF Put

LEMMA FirstIsIn ==
  ASSUME NEW fs, fs # {} PROVE First(fs) \in fs
BY DEF First

-----------------------------------------------------------------------------
(* Time. *)

LEMMA StampBounds ==
  ASSUME FilesAssumption, NEW t \in Nat
  PROVE  Stamp(t) \in Nat /\ Stamp(t) <= t /\ t < Stamp(t) + Tick
<1>1. t % Tick \in 0..(Tick - 1) BY DEF FilesAssumption
<1>2. t % Tick <= t
  <2>1. t = Tick * (t \div Tick) + (t % Tick) BY DEF FilesAssumption
  <2>2. t \div Tick \in Nat BY DEF FilesAssumption
  <2>3. Tick * (t \div Tick) \in Nat BY <2>2 DEF FilesAssumption
  <2> QED BY <2>1, <2>3, <1>1 DEF FilesAssumption
<1> QED BY <1>1, <1>2 DEF Stamp, FilesAssumption

LEMMA StampMonotone ==
  ASSUME FilesAssumption, NEW s \in Nat, NEW t \in Nat, s <= t
  PROVE  Stamp(s) <= Stamp(t)
<1> DEFINE a == s \div Tick
           b == t \div Tick
<1>1. a \in Nat /\ b \in Nat BY DEF FilesAssumption
<1>2. s = Tick * a + (s % Tick) /\ t = Tick * b + (t % Tick) BY DEF FilesAssumption
<1>3. s % Tick \in 0..(Tick - 1) /\ t % Tick \in 0..(Tick - 1) BY DEF FilesAssumption
<1>4. Tick * a \in Nat /\ Tick * b \in Nat BY <1>1 DEF FilesAssumption
<1>5. Stamp(s) = Tick * a /\ Stamp(t) = Tick * b
  BY <1>2, <1>3, <1>4 DEF Stamp, FilesAssumption
<1> HIDE DEF a, b
<1>6. b < a => Tick * b + Tick <= Tick * a BY <1>1 DEF FilesAssumption
<1>7. ~(b < a) BY <1>2, <1>3, <1>4, <1>6 DEF FilesAssumption
<1>8. a <= b => Tick * a <= Tick * b BY <1>1 DEF FilesAssumption
<1> QED BY <1>1, <1>5, <1>7, <1>8

-----------------------------------------------------------------------------
(* What a step of time or of another process does to the files. *)

Passes == clock' = clock + 1 /\ UNCHANGED <<file, lastHad, writes>>

EnvStep == Passes \/ \E f \in Files : WriteFile(f)

LEMMA InitFilesInv ==
  ASSUME FilesAssumption, FilesInit PROVE FilesInv
<1>1. /\ clock = Window /\ file \in [Files -> [data : Contents, mtime : {0}]]
      /\ lastHad = [f \in Files |-> [d \in Contents |-> -1]]
  BY DEF FilesInit
<1>2. Stamp(clock) \in Nat BY <1>1, StampBounds DEF FilesAssumption
<1> QED BY <1>1, <1>2 DEF FilesInv, FilesAssumption

LEMMA EnvKeepsFiles ==
  ASSUME FilesAssumption, FilesInv, EnvStep
  PROVE  /\ FilesInv' /\ clock <= clock'
         /\ \A f \in Files : file[f].mtime <= file'[f].mtime
         /\ \A f \in Files, d \in Contents : lastHad[f][d] <= lastHad'[f][d]
<1> USE DEF FilesAssumption
<1>1. CASE Passes
  <2>1. clock' = clock + 1 /\ file' = file /\ lastHad' = lastHad BY <1>1 DEF Passes
  <2>2. Stamp(clock) <= Stamp(clock') /\ Stamp(clock) \in Nat /\ Stamp(clock') \in Nat
    BY <2>1, StampMonotone, StampBounds DEF FilesInv
  <2>3. FilesInv'
    BY <2>1, <2>2 DEF FilesInv, FilesAssumption
  <2> QED BY <2>1, <2>3 DEF FilesInv
<1>2. ASSUME NEW f \in Files, WriteFile(f)
      PROVE  /\ FilesInv' /\ clock <= clock'
             /\ \A g \in Files : file[g].mtime <= file'[g].mtime
             /\ \A g \in Files, d \in Contents : lastHad[g][d] <= lastHad'[g][d]
  <2>1. PICK d \in Contents : file' = [file EXCEPT ![f] = [data |-> d, mtime |-> Stamp(clock)]]
    BY <1>2 DEF WriteFile
  <2>2. clock' = clock /\ lastHad' = [lastHad EXCEPT ![f][file[f].data] = clock]
    BY <1>2 DEF WriteFile
  <2>3. Stamp(clock) \in Nat BY StampBounds DEF FilesInv
  <2>4. file' \in [Files -> [data : Contents, mtime : Nat]]
    BY <2>1, <2>3 DEF FilesInv
  <2>5. \A g \in Files : file'[g].mtime <= Stamp(clock) /\ file[g].mtime <= file'[g].mtime
    BY <2>1, <2>3 DEF FilesInv
  <2>6. file[f].data \in Contents BY DEF FilesInv
  <2>7. lastHad' \in [Files -> [Contents -> Nat \cup {-1}]]
    BY <2>2, <2>6 DEF FilesInv
  <2>8. \A g \in Files, e \in Contents :
          lastHad'[g][e] = IF g = f /\ e = file[f].data THEN clock ELSE lastHad[g][e]
    BY <2>2, <2>6 DEF FilesInv
  <2>9. \A g \in Files, e \in Contents :
          lastHad'[g][e] <= clock /\ lastHad[g][e] <= lastHad'[g][e]
    BY <2>8 DEF FilesInv
  <2>10. Stamp(clock)' = Stamp(clock) BY <2>2 DEF Stamp
  <2>11. FilesInv' BY <2>2, <2>4, <2>5, <2>7, <2>9, <2>10 DEF FilesInv
  <2> QED BY <2>2, <2>5, <2>9, <2>11 DEF FilesInv
<1> QED BY <1>1, <1>2 DEF EnvStep

\* What a file had since t it still had since t.
LEMMA EnvKeepsHad ==
  ASSUME FilesAssumption, FilesInv, EnvStep,
         NEW f \in Files, NEW d \in Contents, NEW t \in Int, t <= clock, HadSince(f, d, t)
  PROVE  HadSince(f, d, t)'
<1>1. lastHad[f][d] \in Int /\ lastHad'[f][d] \in Int
  BY EnvKeepsFiles DEF FilesInv
<1>2. lastHad[f][d] <= lastHad'[f][d] BY EnvKeepsFiles
<1>3. CASE lastHad[f][d] >= t BY <1>1, <1>2, <1>3 DEF HadSince
<1>4. CASE file[f].data = d
  <2>1. CASE file' = file BY <2>1, <1>4 DEF HadSince
  <2>2. ASSUME NEW g \in Files, WriteFile(g) PROVE HadSince(f, d, t)'
    <3>1. CASE g # f
      <4>1. file'[f] = file[f] BY <2>2, <3>1 DEF WriteFile, FilesInv
      <4> QED BY <4>1, <1>4 DEF HadSince
    <3>2. CASE g = f
      <4>1. lastHad'[f][d] = clock BY <2>2, <3>2, <1>4 DEF WriteFile, FilesInv
      <4> QED BY <4>1 DEF HadSince, FilesInv
    <3> QED BY <3>1, <3>2
  <2> QED BY <2>1, <2>2 DEF EnvStep, Passes
<1> QED BY <1>3, <1>4 DEF HadSince

LEMMA EnvKeepsRecent ==
  ASSUME FilesAssumption, FilesInv, EnvStep, NEW f \in Files, NEW d \in Contents,
         NEW s, NEW t \in Nat, t <= clock, MayAnswer(f, s, d, t)
  PROVE  MayAnswer(f, s, d, t)'
<1>1. lastHad[f][d] \in Int /\ lastHad'[f][d] \in Int /\ lastHad[f][d] <= lastHad'[f][d]
  BY EnvKeepsFiles DEF FilesInv
<1>2. HadSince(f, d, t) => HadSince(f, d, t)' BY EnvKeepsHad
<1> QED BY <1>1, <1>2 DEF MayAnswer, Recent, FilesAssumption

LEMMA EnvKeepsSig ==
  ASSUME FilesAssumption, FilesInv, EnvStep, NEW f \in Files, NEW s \in Signatures, SigOK(f, s)
  PROVE  SigOK(f, s)'
<1>1. file[f].mtime \in Int /\ file'[f].mtime \in Int /\ clock \in Int /\ clock' \in Int
  BY EnvKeepsFiles DEF FilesInv
<1>2. s.mtime \in Int BY DEF Signatures
<1> QED BY <1>1, <1>2, EnvKeepsFiles DEF SigOK, FilesAssumption

\* A write after s was taken shows in the mtime, or falls in the tick of s: then
\* s has a hash, and the content that was read was there as late as the tick.
LEMMA EnvKeepsScan ==
  ASSUME FilesAssumption, FilesInv, EnvStep, NEW f \in Files, NEW d \in Contents,
         NEW s \in Signatures, SigOK(f, s), ScanOK(f, s, d)
  PROVE  ScanOK(f, s, d)'
<1> SUFFICES ASSUME s # Missing, file'[f].mtime = s.mtime
             PROVE  file'[f].data = d \/ (s.hash # NoHash /\ lastHad'[f][d] >= s.mtime)
  BY DEF ScanOK
<1>1. s.mtime \in Int BY DEF Signatures
<1>2. file[f].mtime = s.mtime
  <2>1. file[f].mtime \in Int BY DEF FilesInv
  <2>2. file[f].mtime <= s.mtime BY EnvKeepsFiles
  <2>3. s.mtime <= file[f].mtime BY DEF SigOK
  <2> QED BY <1>1, <2>1, <2>2, <2>3
<1>3. file[f].data = d \/ (s.hash # NoHash /\ lastHad[f][d] >= s.mtime)
  BY <1>2 DEF ScanOK
<1>4. CASE s.hash # NoHash /\ lastHad[f][d] >= s.mtime
  BY <1>1, <1>4, EnvKeepsFiles DEF FilesInv
<1>5. CASE file[f].data = d
  <2>1. CASE file' = file BY <2>1, <1>5
  <2>2. ASSUME NEW g \in Files, WriteFile(g), file'[f].data # d
        PROVE  s.hash # NoHash /\ lastHad'[f][d] >= s.mtime
    <3>1. g = f BY <2>2, <1>5 DEF WriteFile, FilesInv
    <3>2. lastHad'[f][d] = clock /\ file'[f].mtime = Stamp(clock)
      BY <2>2, <3>1, <1>5 DEF WriteFile, FilesInv
    <3>3. clock \in Nat /\ Stamp(clock) \in Nat /\ Stamp(clock) <= clock /\ clock < Stamp(clock) + Tick
      BY StampBounds DEF FilesInv, FilesAssumption
    <3>4. s.hash # NoHash BY <1>1, <3>2, <3>3 DEF SigOK, FilesAssumption
    <3> QED BY <1>1, <3>2, <3>3, <3>4
  <2> QED BY <2>1, <2>2 DEF EnvStep, Passes
<1> QED BY <1>3, <1>4, <1>5

-----------------------------------------------------------------------------
(* While only readers move. *)

LEMMA StillFiles ==
  ASSUME UNCHANGED fileVars, FilesInv
  PROVE  /\ FilesInv' /\ clock' = clock
         /\ \A f, s : SigOK(f, s)' <=> SigOK(f, s)
         /\ \A f, s, d : ScanOK(f, s, d)' <=> ScanOK(f, s, d)
         /\ \A f, d, t : HadSince(f, d, t)' <=> HadSince(f, d, t)
         /\ \A f, d, t : Recent(f, d, t)' <=> Recent(f, d, t)
         /\ \A f, s, d, t : MayAnswer(f, s, d, t)' <=> MayAnswer(f, s, d, t)
<1>1. clock' = clock /\ file' = file /\ lastHad' = lastHad BY DEF fileVars
<1>2. FilesInv' BY <1>1 DEF FilesInv, Stamp
<1>3. \A f, s : SigOK(f, s)' <=> SigOK(f, s) BY <1>1 DEF SigOK
<1>4. \A f, s, d : ScanOK(f, s, d)' <=> ScanOK(f, s, d) BY <1>1 DEF ScanOK
<1>5. \A f, d, t : HadSince(f, d, t)' <=> HadSince(f, d, t) BY <1>1 DEF HadSince
<1>6. \A f, d, t : Recent(f, d, t)' <=> Recent(f, d, t) BY <1>1 DEF Recent, HadSince
<1>7. \A f, s, d, t : MayAnswer(f, s, d, t)' <=> MayAnswer(f, s, d, t)
  BY <1>6 DEF MayAnswer
<1> QED BY <1>1, <1>2, <1>3, <1>4, <1>5, <1>6, <1>7

-----------------------------------------------------------------------------
(* Signatures. *)

\* A signature that is taken of a file within the window.
LEMMA SignatureIsOf ==
  ASSUME FilesAssumption, FilesInv, NEW f \in Files, NEW now \in Nat,
         now <= clock, clock < now + Window, NEW s, s = FileSignature(f, now)
  PROVE  /\ s \in Signatures /\ SigOK(f, s)
         /\ s = Missing => file[f].data = NoFile
         /\ s # Missing => s.mtime = file[f].mtime
         /\ s # Missing /\ s.hash # NoHash => s.mtime > now - Window
<1>1. /\ file[f].mtime \in Nat /\ file[f].mtime <= clock /\ clock \in Nat
      /\ file[f].data \in Data \cup {NoFile} /\ Tick <= clock
  <2>1. Stamp(clock) \in Nat /\ Stamp(clock) <= clock
    BY StampBounds DEF FilesInv, FilesAssumption
  <2> QED BY <2>1 DEF FilesInv, Contents
<1> USE DEF FilesAssumption
<1>2. CASE file[f].data = NoFile
  <2>1. s = Missing BY <1>2 DEF FileSignature
  <2> QED BY <1>1, <1>2, <2>1 DEF Missing, Signatures, SigOK
<1>3. CASE file[f].data # NoFile
  <2>1. s = [mtime |-> file[f].mtime,
             hash  |-> IF Racy(file[f].mtime, now) THEN file[f].data ELSE NoHash]
    BY <1>3 DEF FileSignature
  <2>2. s.mtime = file[f].mtime /\ s.mtime # -1 BY <1>1, <2>1
  <2>3. s # Missing BY <2>2 DEF Missing
  <2>4. CASE Racy(file[f].mtime, now)
    <3>1. s.hash = file[f].data /\ file[f].data \in Data BY <1>1, <1>3, <2>1, <2>4
    <3>2. s.hash # NoHash BY <3>1
    <3>3. s \in Signatures BY <1>1, <2>1, <2>4, <3>1 DEF Signatures
    <3>4. SigOK(f, s) BY <1>1, <2>2, <3>2 DEF SigOK
    <3>5. s.mtime > now - Window BY <1>1, <2>2, <2>4 DEF Racy
    <3> QED BY <2>2, <2>3, <3>3, <3>4, <3>5
  <2>5. CASE ~Racy(file[f].mtime, now)
    <3>1. s.hash = NoHash BY <2>1, <2>5
    <3>2. s \in Signatures BY <1>1, <2>1, <2>5 DEF Signatures
    <3>3. file[f].mtime + Tick <= clock BY <1>1, <2>5 DEF Racy
    <3>4. SigOK(f, s) BY <1>1, <2>2, <3>3 DEF SigOK
    <3> QED BY <2>2, <2>3, <3>1, <3>2, <3>4
  <2> QED BY <2>4, <2>5
<1> QED BY <1>2, <1>3

\* What was read under a signature may be answered to who takes the same signature
\* later.
LEMMA SameSignature ==
  ASSUME FilesAssumption, FilesInv, NEW f \in Files, NEW start \in Nat, NEW now \in Nat,
         start <= now, now <= clock, clock < now + Window,
         NEW s, s = FileSignature(f, now), NEW d \in Contents, ScanOK(f, s, d)
  PROVE  MayAnswer(f, s, d, start)
<1>1. /\ s \in Signatures
      /\ s = Missing => file[f].data = NoFile
      /\ s # Missing => s.mtime = file[f].mtime
      /\ s # Missing /\ s.hash # NoHash => s.mtime > now - Window
  BY SignatureIsOf
<1>2. CASE s = Missing BY <1>1, <1>2 DEF MayAnswer, Recent, HadSince
<1>3. CASE s # Missing /\ file[f].data = d BY <1>3 DEF MayAnswer, Recent, HadSince
<1>4. CASE s # Missing /\ s.hash # NoHash /\ lastHad[f][d] >= s.mtime
  <2>1. s.mtime > now - Window BY <1>1, <1>4
  <2>2. s.mtime \in Int /\ lastHad[f][d] \in Int /\ Window \in Int
    BY <1>1 DEF Signatures, FilesInv, FilesAssumption
  <2>3. lastHad[f][d] > start - Window BY <1>4, <2>1, <2>2
  <2> QED BY <2>3 DEF MayAnswer, Recent
<1> QED BY <1>1, <1>2, <1>3, <1>4 DEF ScanOK

-----------------------------------------------------------------------------
(* The bounds, which no mtime and no last time passes. *)

InBounds == clock <= MaxClock /\ writes \in 0..MaxWrites

LEMMA BoundsHoldFirst ==
  ASSUME FilesAssumption, FilesBounds, FilesInit PROVE InBounds
BY DEF FilesInit, InBounds, FilesAssumption, FilesBounds

LEMMA BoundsHold ==
  ASSUME FilesBounds, FilesInv, InBounds,
         \/ UNCHANGED fileVars
         \/ clock < MaxClock /\ clock' = clock + 1 /\ UNCHANGED writes
         \/ \E f \in Files : WriteFile(f)
  PROVE  InBounds'
<1>1. CASE UNCHANGED fileVars
  BY <1>1 DEF InBounds, fileVars
<1>2. CASE clock < MaxClock /\ clock' = clock + 1 /\ UNCHANGED writes
  BY <1>2 DEF InBounds, FilesInv, FilesBounds
<1>3. ASSUME NEW f \in Files, WriteFile(f) PROVE InBounds'
  BY <1>3 DEF InBounds, WriteFile, FilesBounds
<1> QED BY <1>1, <1>2, <1>3

LEMMA FilesAreTyped ==
  ASSUME FilesAssumption, FilesBounds, FilesInv, InBounds
  PROVE  FilesTypeOK
<1>1. Stamp(clock) \in Nat /\ Stamp(clock) <= clock BY StampBounds DEF FilesInv
<1>2. clock \in 0..MaxClock BY DEF FilesInv, InBounds, FilesBounds
<1>3. file \in [Files -> [data : Contents, mtime : 0..MaxClock]]
  <2>1. ASSUME NEW f \in Files PROVE file[f] \in [data : Contents, mtime : 0..MaxClock]
    <3>1. file[f] \in [data : Contents, mtime : Nat] /\ file[f].mtime <= Stamp(clock)
      BY DEF FilesInv
    <3>2. file[f].mtime \in 0..MaxClock BY <1>1, <1>2, <3>1 DEF FilesBounds
    <3> QED BY <3>1, <3>2
  <2> QED BY <2>1 DEF FilesInv
<1>4. lastHad \in [Files -> [Contents -> -1..MaxClock]]
  <2>1. ASSUME NEW f \in Files, NEW d \in Contents PROVE lastHad[f][d] \in -1..MaxClock
    BY <1>2 DEF FilesInv, FilesBounds
  <2> QED BY <2>1 DEF FilesInv
<1> QED BY <1>2, <1>3, <1>4 DEF FilesTypeOK, InBounds
=============================================================================
