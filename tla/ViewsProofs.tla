---------------------------- MODULE ViewsProofs ----------------------------
(***************************************************************************)
(* What shows the board, or looks through it for a free id: the scan       *)
(* cache, the snapshots of branches, the browser and the terminal board,   *)
(* for any files, requests, checkouts, pages and tasks, and any bounds.    *)
(*                                                                         *)
(* Whatever the files, the requests, the tick, the window, and however     *)
(* others write, a request to the scan cache answers nothing older than    *)
(* itself, but for the two cases AnswerIsRecent names.  The inductive      *)
(* invariant IInv says, in terms of SigOK and ScanOK of                    *)
(* WatchedFilesProofs, which signatures and scans there are at each point  *)
(* of a request and in the cache, and that only the request that has the   *)
(* mutex changes them.  A request that takes the signature of the cache    *)
(* may take its scan too (SignKeeps).                                      *)
(*                                                                         *)
(* The others are instances; their variables go by the names they have in  *)
(* the component.                                                          *)
(***************************************************************************)
EXTENDS ScanCache, WatchedFilesProofs, Sequences, WellFoundedInduction

CONSTANTS Checkouts, Spare, Viewer, Below, Days,          \* Branches
          MaxId, MaxEdits, MaxTime, MaxScans, MaxCreates,
          Pages, Filtered, LastId, NoPage, MaxChanges, MaxFaults, \* Browser
          TaskCount, Creatable, LastColumn, Deps,         \* Tui
          Sources, Dialogs, Filters, MaxJobs, MaxJumps, MaxQueue

VARIABLES x1, x2, x3, x4, x5, x6, x7, x8, x9

-----------------------------------------------------------------------------
(* The invariant. *)

RequestSet == [pc : {"idle", "wait", "sign", "scan", "answer"}, start : Nat, now : Nat,
               conf : Contents, sig : Partial(Signatures), scan : Partial(Contents)]

CacheSet == [conf : Contents, sig : Partial(Signatures), scan : Partial(Contents) \cup {NoScan}]

Shape ==
  /\ mutex \in Requests \cup {NoThread}
  /\ req \in [Requests -> RequestSet]
  /\ cache \in CacheSet

Inside == {"sign", "scan", "answer"}

CacheInv ==
  /\ \A f \in DOMAIN cache.sig : SigOK(f, cache.sig[f])
  /\ cache.scan # NoScan =>
       /\ DOMAIN cache.sig = Files /\ DOMAIN cache.scan = Files
       /\ cache.scan[Config] = cache.conf
       /\ \A f \in Files \ {Config} : ScanOK(f, cache.sig[f], cache.scan[f])

ReqInv(q) ==
  /\ q.start <= clock
  /\ q.pc # "idle" => HadSince(Config, q.conf, q.start)
  /\ \A f \in DOMAIN q.sig : SigOK(f, q.sig[f])
  /\ q.pc \in {"idle", "wait"} => DOMAIN q.sig = {}
  /\ q.pc \in {"idle", "wait", "sign"} => DOMAIN q.scan = {}
  /\ q.pc = "sign" =>
       /\ q.start <= q.now /\ q.now <= clock /\ clock < q.now + Window
       /\ cache.scan # NoScan => \A f \in DOMAIN q.sig \ {Config} :
            q.sig[f] = cache.sig[f] => MayAnswer(f, q.sig[f], cache.scan[f], q.start)
  /\ q.pc = "scan" =>
       /\ cache.sig = q.sig /\ cache.conf = q.conf /\ DOMAIN q.sig = Files
       /\ \A f \in DOMAIN q.scan :
            /\ HadSince(f, q.scan[f], q.start)
            /\ f = Config => q.scan[f] = q.conf
            /\ f # Config => ScanOK(f, q.sig[f], q.scan[f])
  /\ q.pc = "answer" =>
       /\ DOMAIN q.sig = Files /\ DOMAIN q.scan = Files
       /\ \A f \in Files : MayAnswer(f, q.sig[f], q.scan[f], q.start)

IInv ==
  /\ FilesInv /\ Shape
  /\ \A r \in Requests : req[r].pc \in Inside <=> mutex = r
  /\ CacheInv
  /\ \A r \in Requests : ReqInv(req[r])

-----------------------------------------------------------------------------
(* The invariant holds initially, and while the requests stand still. *)

LEMMA InitIInv ==
  ASSUME CacheAssumption, Init PROVE IInv
<1> USE DEF CacheAssumption, Init, FilesInit, CacheInit
<1>1. FilesInv BY InitFilesInv DEF CacheAssumption
<1>2. None \in Partial(Signatures) /\ None \in Partial(Contents) /\ DOMAIN None = {}
  BY NoneIsPartial
<1>3. NoReq \in RequestSet BY <1>2 DEF NoReq, RequestSet, Contents
<1>4. Shape BY <1>2, <1>3 DEF Shape, CacheSet, Contents
<1>5. CacheInv BY <1>2 DEF CacheInv
<1>6. ReqInv(NoReq) BY <1>1, <1>2 DEF ReqInv, NoReq, FilesInv
<1>7. \A r \in Requests : req[r] = NoReq OBVIOUS
<1>8. \A r \in Requests : req[r].pc \in Inside <=> mutex = r
  BY <1>7 DEF Inside, NoReq
<1> QED BY <1>1, <1>4, <1>5, <1>6, <1>7, <1>8 DEF IInv

\* The records and their parts.
LEMMA CacheParts ==
  ASSUME Shape
  PROVE  /\ cache.conf \in Contents
         /\ DOMAIN cache.sig \subseteq Files
         /\ \A f \in DOMAIN cache.sig : cache.sig[f] \in Signatures
         /\ cache.scan # NoScan => /\ DOMAIN cache.scan \subseteq Files
                                  /\ \A f \in DOMAIN cache.scan : cache.scan[f] \in Contents
<1>1. cache.sig \in Partial(Signatures) BY DEF Shape, CacheSet
<1>2. cache.scan # NoScan => cache.scan \in Partial(Contents) BY DEF Shape, CacheSet
<1> QED BY <1>1, <1>2, PartialIs DEF Shape, CacheSet

LEMMA ReqParts ==
  ASSUME NEW q \in RequestSet
  PROVE  /\ q.start \in Nat /\ q.now \in Nat /\ q.conf \in Contents
         /\ q.sig \in Partial(Signatures) /\ q.scan \in Partial(Contents)
         /\ DOMAIN q.sig \subseteq Files /\ DOMAIN q.scan \subseteq Files
         /\ \A f \in DOMAIN q.sig : q.sig[f] \in Signatures
         /\ \A f \in DOMAIN q.scan : q.scan[f] \in Contents
<1>1. q.sig \in Partial(Signatures) /\ q.scan \in Partial(Contents) BY DEF RequestSet
<1> QED BY <1>1, PartialIs DEF RequestSet

LEMMA EnvKeepsReq ==
  ASSUME CacheAssumption, FilesInv, EnvStep, Shape, CacheInv, cache' = cache,
         NEW q \in RequestSet, ReqInv(q), q.pc = "sign" => clock' < q.now + Window
  PROVE  ReqInv(q)'
<1> USE ReqParts DEF CacheAssumption
<1>1. clock \in Nat /\ clock' \in Nat /\ clock <= clock' BY EnvKeepsFiles DEF FilesInv
<1>2. q.start <= clock' BY <1>1 DEF ReqInv
<1>3. q.pc # "idle" => HadSince(Config, q.conf, q.start)'
  BY EnvKeepsHad DEF ReqInv, CacheAssumption
<1>4. \A f \in DOMAIN q.sig : SigOK(f, q.sig[f])'
  BY EnvKeepsSig DEF ReqInv
<1>5. ASSUME q.pc = "sign", cache.scan # NoScan, NEW f \in DOMAIN q.sig \ {Config},
             q.sig[f] = cache.sig[f]
      PROVE  MayAnswer(f, q.sig[f], cache.scan[f], q.start)'
  <2>1. f \in Files /\ cache.scan[f] \in Contents BY <1>5, CacheParts DEF CacheInv
  <2>2. MayAnswer(f, q.sig[f], cache.scan[f], q.start) BY <1>5 DEF ReqInv
  <2>3. q.start \in Nat /\ q.start <= clock BY DEF ReqInv
  <2>4. PICK d \in Contents : d = cache.scan[f] BY <2>1
  <2>5. MayAnswer(f, q.sig[f], d, q.start)' BY <2>1, <2>2, <2>3, <2>4, EnvKeepsRecent
  <2> QED BY <2>4, <2>5 DEF MayAnswer, Recent, HadSince
<1>6. ASSUME q.pc = "scan", NEW f \in DOMAIN q.scan
      PROVE  /\ HadSince(f, q.scan[f], q.start)'
             /\ f = Config => q.scan[f] = q.conf
             /\ f # Config => ScanOK(f, q.sig[f], q.scan[f])'
  <2>1. f \in Files /\ f \in DOMAIN q.sig /\ q.scan[f] \in Contents /\ q.sig[f] \in Signatures
    BY <1>6 DEF ReqInv
  <2>2. HadSince(f, q.scan[f], q.start)' BY <1>6, <2>1, EnvKeepsHad DEF ReqInv
  <2>3. f # Config => ScanOK(f, q.sig[f], q.scan[f])'
    BY <1>6, <2>1, EnvKeepsScan DEF ReqInv
  <2> QED BY <1>6, <2>2, <2>3 DEF ReqInv
<1>7. ASSUME q.pc = "answer", NEW f \in Files
      PROVE  MayAnswer(f, q.sig[f], q.scan[f], q.start)'
  <2>1. q.scan[f] \in Contents BY <1>7 DEF ReqInv
  <2> QED BY <1>7, <2>1, EnvKeepsRecent DEF ReqInv
<1>8. q.pc = "sign" => q.start <= q.now /\ q.now <= clock'
  BY <1>1 DEF ReqInv
<1> HIDE ReqParts
<1> QED BY <1>2, <1>3, <1>4, <1>5, <1>6, <1>7, <1>8 DEF ReqInv

LEMMA EnvKeepsIInv ==
  ASSUME CacheAssumption, IInv, Advance \/ \E f \in Files : WriteFile(f), UNCHANGED cacheVars
  PROVE  IInv'
<1> USE DEF IInv, CacheAssumption
<1>1. mutex' = mutex /\ cache' = cache /\ req' = req BY DEF cacheVars
<1>2. EnvStep BY DEF EnvStep, Passes, Advance
<1>3. FilesInv' BY <1>2, EnvKeepsFiles
<1>4. Shape' BY <1>1 DEF Shape
<1>5. CacheInv'
  <2>1. ASSUME NEW f \in DOMAIN cache.sig PROVE SigOK(f, cache.sig[f])'
    <3>1. PICK s \in Signatures : s = cache.sig[f] BY CacheParts
    <3>2. SigOK(f, s)' BY <1>2, <3>1, EnvKeepsSig, CacheParts DEF CacheInv
    <3> QED BY <1>1, <3>1, <3>2 DEF SigOK
  <2>2. ASSUME cache.scan # NoScan, NEW f \in Files \ {Config}
        PROVE  ScanOK(f, cache.sig[f], cache.scan[f])'
    <3>1. PICK s \in Signatures, d \in Contents : s = cache.sig[f] /\ d = cache.scan[f]
      BY <2>2, CacheParts DEF CacheInv
    <3>2. SigOK(f, s) /\ ScanOK(f, s, d) BY <2>2, <3>1 DEF CacheInv
    <3>3. ScanOK(f, s, d)' BY <1>2, <3>2, EnvKeepsScan
    <3> QED BY <1>1, <3>1, <3>3 DEF ScanOK
  <2> QED BY <1>1, <2>1, <2>2 DEF CacheInv, SigOK
<1>6. ASSUME NEW r \in Requests PROVE ReqInv(req[r])'
  <2>1. PICK q \in RequestSet : q = req[r] BY DEF Shape
  <2>2. q.pc = "sign" => clock' < q.now + Window
    <3>1. CASE clock' = clock BY <2>1, <3>1 DEF ReqInv
    <3>2. CASE Advance
      BY <2>1, <3>2, ReqParts DEF Advance, FilesInv, CacheAssumption, FilesAssumption
    <3> QED BY <3>1, <3>2 DEF WriteFile
  <2>3. ReqInv(q)' BY <1>1, <1>2, <2>1, <2>2, EnvKeepsReq
  <2>4. q = req'[r] BY <1>1, <2>1
  <2> QED BY <2>3, <2>4
<1> QED BY <1>1, <1>3, <1>4, <1>5, <1>6

-----------------------------------------------------------------------------
(* Steps of requests: the files stand still. *)

\* A request that stands still.
LEMMA StillReq ==
  ASSUME UNCHANGED fileVars, FilesInv, NEW q, ReqInv(q),
         cache' = cache \/ q.pc \notin {"sign", "scan"}
  PROVE  ReqInv(q)'
<1>1. CASE cache' = cache BY <1>1, StillFiles DEF ReqInv
<1>2. CASE q.pc \notin {"sign", "scan"} BY <1>2, StillFiles DEF ReqInv
<1> QED BY <1>1, <1>2

\* A step of one request: what is left to prove is the request it becomes, and
\* the cache if it changes.
LEMMA RequestStep ==
  ASSUME CacheAssumption, IInv, UNCHANGED fileVars, NEW r \in Requests, NEW n \in RequestSet,
         req' = [req EXCEPT ![r] = n],
         \/ mutex' = mutex /\ (n.pc \in Inside <=> req[r].pc \in Inside)
         \/ mutex = NoThread /\ mutex' = r /\ n.pc \in Inside
         \/ mutex = r /\ mutex' = NoThread /\ n.pc \notin Inside,
         \/ cache' = cache
         \/ mutex = r /\ cache' \in CacheSet /\ CacheInv',
         ReqInv(n)'
  PROVE  IInv'
<1> USE DEF IInv
<1>1. \A q \in Requests : req'[q] = IF q = r THEN n ELSE req[q]
  BY DEF Shape
<1>2. Shape'
  BY <1>1 DEF Shape
<1>3. CacheInv'
  BY StillFiles DEF CacheInv
<1>4. \A q \in Requests : req'[q].pc \in Inside <=> mutex' = q
  BY <1>1 DEF CacheAssumption
<1>5. ASSUME NEW q \in Requests PROVE ReqInv(req[q])'
  <2>1. CASE q = r BY <2>1, <1>1 DEF ReqInv
  <2>2. CASE q # r
    <3>1. PICK m : m = req[q] OBVIOUS
    <3>2. cache' = cache \/ m.pc \notin {"sign", "scan"}
      BY <2>2, <3>1 DEF Inside
    <3>3. ReqInv(m)' BY <3>1, <3>2, StillReq
    <3>4. m = req'[q] BY <3>1, <2>2, <1>1
    <3> QED BY <3>3, <3>4
  <2> QED BY <2>1, <2>2
<1> QED BY <1>2, <1>3, <1>4, <1>5, StillFiles

LEMMA RequestKeeps ==
  ASSUME CacheAssumption, IInv, UNCHANGED fileVars, NEW r \in Requests, Request(r)
  PROVE  IInv'
<1> DEFINE n == [NoReq EXCEPT !.pc = "wait", !.start = clock, !.conf = file[Config].data]
<1>1. file[Config].data \in Contents BY DEF IInv, FilesInv, CacheAssumption
<1>2. /\ n.pc = "wait" /\ n.start = clock /\ n.conf = file[Config].data
      /\ n.sig = None /\ n.scan = None /\ DOMAIN None = {}
  BY NoneIsPartial DEF NoReq
<1>3. n \in RequestSet
  BY <1>1, NoneIsPartial DEF NoReq, RequestSet, IInv, FilesInv
<1>4. PICK m \in RequestSet : m = n BY <1>3
<1> HIDE DEF n
<1>5. clock' = clock /\ file' = file BY DEF fileVars
<1>6. ReqInv(m)' BY <1>2, <1>4, <1>5 DEF ReqInv, HadSince, IInv, FilesInv
<1>7. req' = [req EXCEPT ![r] = m] BY <1>4 DEF Request, n
<1>8. mutex' = mutex /\ cache' = cache /\ req[r].pc \notin Inside BY DEF Request, Inside
<1>9. m.pc \notin Inside BY <1>2, <1>4 DEF Inside
<1> QED BY <1>6, <1>7, <1>8, <1>9, RequestStep

\* ScanRaises and Answer.
LEMMA LeaveKeeps ==
  ASSUME CacheAssumption, IInv, UNCHANGED fileVars, NEW r \in Requests,
         req[r].pc \in Inside, mutex' = NoThread, req' = [req EXCEPT ![r] = NoReq],
         cache' = cache
  PROVE  IInv'
<1>1. /\ NoReq.pc = "idle" /\ NoReq.start = 0 /\ NoReq.sig = None /\ NoReq.scan = None
      /\ DOMAIN None = {}
  BY NoneIsPartial DEF NoReq
<1>2. NoReq \in RequestSet BY NoneIsPartial DEF NoReq, RequestSet, Contents
<1>3. PICK m \in RequestSet : m = NoReq BY <1>2
<1>4. clock' \in Nat BY StillFiles DEF IInv, FilesInv
<1>5. ReqInv(m)' BY <1>1, <1>3, <1>4 DEF ReqInv
<1>6. m.pc \notin Inside BY <1>1, <1>3 DEF Inside
<1>7. mutex = r BY DEF IInv
<1> QED BY <1>3, <1>5, <1>6, <1>7, RequestStep

LEMMA EnterKeeps ==
  ASSUME CacheAssumption, IInv, UNCHANGED fileVars, NEW r \in Requests, Enter(r)
  PROVE  IInv'
<1>1. PICK q \in RequestSet : q = req[r] BY DEF IInv, Shape
<1> DEFINE n == [q EXCEPT !.pc = "sign", !.now = clock]
<1>2. q.pc = "wait" /\ ReqInv(q) BY <1>1 DEF Enter, IInv
<1>3. /\ n.pc = "sign" /\ n.now = clock /\ n.start = q.start /\ n.conf = q.conf
      /\ n.sig = q.sig /\ n.scan = q.scan
  BY DEF RequestSet
<1>4. n \in RequestSet BY DEF RequestSet, IInv, FilesInv
<1>5. PICK m \in RequestSet : m = n BY <1>4
<1>6. req' = [req EXCEPT ![r] = m] BY <1>1, <1>5 DEF Enter, IInv, Shape
<1> HIDE DEF n
<1>7. clock' = clock /\ clock \in Nat BY DEF fileVars, IInv, FilesInv
<1>8. HadSince(Config, m.conf, m.start)'
  BY <1>2, <1>3, <1>5, StillFiles DEF ReqInv, IInv
<1>9. ReqInv(m)'
  BY <1>2, <1>3, <1>5, <1>7, <1>8, ReqParts DEF ReqInv, CacheAssumption, FilesAssumption
<1>10. mutex = NoThread /\ mutex' = r /\ cache' = cache /\ m.pc \in Inside
  BY <1>3, <1>5 DEF Enter, Inside
<1> QED BY <1>6, <1>9, <1>10, RequestStep

LEMMA SignKeeps ==
  ASSUME CacheAssumption, IInv, UNCHANGED fileVars, NEW r \in Requests, Sign(r)
  PROVE  IInv'
<1>1. PICK q \in RequestSet : q = req[r] BY DEF IInv, Shape
<1>2. q.pc = "sign" /\ ReqInv(q) /\ DOMAIN q.sig # Files BY <1>1 DEF Sign, IInv
<1>3. PICK f \in Files : f = First(Files \ DOMAIN q.sig) /\ f \notin DOMAIN q.sig
  BY <1>2, ReqParts, FirstIsIn
<1>4. PICK s : s = FileSignature(f, q.now) OBVIOUS
<1>5. /\ s \in Signatures /\ SigOK(f, s)
      /\ s = Missing => file[f].data = NoFile
      /\ s # Missing => s.mtime = file[f].mtime
      /\ s # Missing /\ s.hash # NoHash => s.mtime > q.now - Window
  BY <1>2, <1>4, ReqParts, SignatureIsOf DEF ReqInv, IInv, CacheAssumption
<1>6. PICK sig : sig = Put(q.sig, f, s) OBVIOUS
<1>7. /\ sig \in Partial(Signatures) /\ DOMAIN sig = DOMAIN q.sig \cup {f} /\ sig[f] = s
      /\ \A g \in DOMAIN q.sig \ {f} : sig[g] = q.sig[g]
  <2>1. PICK p \in Partial(Signatures) : p = q.sig BY ReqParts
  <2>2. sig = Put(p, f, s) BY <1>6, <2>1
  <2>3. s \in Signatures BY <1>5
  <2>4. /\ Put(p, f, s) \in Partial(Signatures) /\ DOMAIN Put(p, f, s) = DOMAIN p \cup {f}
        /\ Put(p, f, s)[f] = s
        /\ \A g \in DOMAIN p \ {f} : Put(p, f, s)[g] = p[g]
    <3>1. Put(p, f, s) \in Partial(Signatures)
      BY <2>1, <2>3, PutIsPartial
    <3>2. DOMAIN Put(p, f, s) = DOMAIN p \cup {f}
      BY DEF Put
    <3> QED BY <3>1, <3>2 DEF Put
  <2> QED BY <2>1, <2>2, <2>4
<1> DEFINE n == [q EXCEPT !.sig = sig]
<1>8. /\ n.pc = "sign" /\ n.now = q.now /\ n.start = q.start /\ n.conf = q.conf
      /\ n.sig = sig /\ n.scan = q.scan
  BY <1>2 DEF RequestSet
<1>9. n \in RequestSet BY <1>7 DEF RequestSet
<1>10. PICK m \in RequestSet : m = n BY <1>9
<1>11. req' = [req EXCEPT ![r] = m]
  BY <1>1, <1>3, <1>4, <1>6, <1>10 DEF Sign, IInv, Shape
<1> HIDE DEF n
<1>12. ASSUME cache.scan # NoScan, NEW g \in DOMAIN sig \ {Config}, sig[g] = cache.sig[g]
       PROVE  MayAnswer(g, sig[g], cache.scan[g], q.start)
  <2>1. CASE g # f BY <2>1, <1>2, <1>7, <1>12 DEF ReqInv
  <2>2. CASE g = f
    <3>1. ScanOK(f, s, cache.scan[f]) BY <1>7, <1>12, <2>2 DEF IInv, CacheInv
    <3>2. PICK d \in Contents : d = cache.scan[f] BY <1>12, CacheParts DEF IInv, CacheInv
    <3>3. q.start <= q.now /\ q.now <= clock /\ clock < q.now + Window BY <1>2 DEF ReqInv
    <3>4. MayAnswer(f, s, d, q.start)
      BY <1>4, <3>1, <3>2, <3>3, ReqParts, SameSignature DEF IInv, CacheAssumption
    <3> QED BY <1>7, <2>2, <3>2, <3>4
  <2> QED BY <2>1, <2>2
<1>13. cache' = cache /\ mutex' = mutex BY DEF Sign
<1>14. \A g \in DOMAIN sig : SigOK(g, sig[g]) BY <1>2, <1>5, <1>7 DEF ReqInv
<1>15. ReqInv(m)
  BY <1>2, <1>8, <1>10, <1>12, <1>14 DEF ReqInv
<1>16. ReqInv(m)' BY <1>13, <1>15, StillReq DEF IInv
<1>17. m.pc \in Inside <=> req[r].pc \in Inside BY <1>1, <1>2, <1>8, <1>10
<1> QED BY <1>11, <1>13, <1>16, <1>17, RequestStep

LEMMA HitKeeps ==
  ASSUME CacheAssumption, IInv, UNCHANGED fileVars, NEW r \in Requests, Hit(r)
  PROVE  IInv'
<1>1. PICK q \in RequestSet : q = req[r] BY DEF IInv, Shape
<1>2. /\ q.pc = "sign" /\ ReqInv(q) /\ DOMAIN q.sig = Files
      /\ cache.conf = q.conf /\ cache.sig = q.sig /\ cache.scan # NoScan
  BY <1>1 DEF Hit, IsFiles, IsCurrent, IInv
<1>3. /\ DOMAIN cache.scan = Files /\ cache.scan[Config] = cache.conf
      /\ cache.scan \in Partial(Contents)
  BY <1>2 DEF IInv, CacheInv, Shape, CacheSet
<1> DEFINE n == [q EXCEPT !.pc = "answer", !.scan = cache.scan]
<1>4. /\ n.pc = "answer" /\ n.now = q.now /\ n.start = q.start /\ n.conf = q.conf
      /\ n.sig = q.sig /\ n.scan = cache.scan
  BY DEF RequestSet
<1>5. n \in RequestSet BY <1>3 DEF RequestSet
<1>6. PICK m \in RequestSet : m = n BY <1>5
<1>7. req' = [req EXCEPT ![r] = m] BY <1>1, <1>6 DEF Hit, IInv, Shape
<1> HIDE DEF n
<1>8. ASSUME NEW f \in Files PROVE MayAnswer(f, q.sig[f], cache.scan[f], q.start)
  <2>1. CASE f # Config BY <2>1, <1>2 DEF ReqInv
  <2>2. CASE f = Config BY <2>2, <1>2, <1>3 DEF ReqInv, MayAnswer, Recent
  <2> QED BY <2>1, <2>2
<1>9. cache' = cache /\ mutex' = mutex BY DEF Hit
<1>10. ReqInv(m) BY <1>2, <1>3, <1>4, <1>6, <1>8 DEF ReqInv
<1>11. ReqInv(m)' BY <1>9, <1>10, StillReq DEF IInv
<1>12. m.pc \in Inside /\ req[r].pc \in Inside BY <1>1, <1>2, <1>4, <1>6 DEF Inside
<1> QED BY <1>7, <1>9, <1>11, <1>12, RequestStep

LEMMA MissKeeps ==
  ASSUME CacheAssumption, IInv, UNCHANGED fileVars, NEW r \in Requests, Miss(r)
  PROVE  IInv'
<1>1. PICK q \in RequestSet : q = req[r] BY DEF IInv, Shape
<1>2. q.pc = "sign" /\ ReqInv(q) /\ DOMAIN q.sig = Files
  BY <1>1 DEF Miss, IsFiles, IInv
<1>3. cache' = [conf |-> q.conf, sig |-> q.sig, scan |-> NoScan] /\ mutex' = mutex
  BY <1>1 DEF Miss
<1>4. cache' \in CacheSet BY <1>3, ReqParts DEF CacheSet
<1>5. CacheInv' BY <1>2, <1>3, StillFiles DEF CacheInv, ReqInv, IInv
<1> DEFINE n == [q EXCEPT !.pc = "scan"]
<1>6. /\ n.pc = "scan" /\ n.now = q.now /\ n.start = q.start /\ n.conf = q.conf
      /\ n.sig = q.sig /\ n.scan = q.scan
  BY DEF RequestSet
<1>7. n \in RequestSet BY DEF RequestSet
<1>8. PICK m \in RequestSet : m = n BY <1>7
<1>9. req' = [req EXCEPT ![r] = m] BY <1>1, <1>8 DEF Miss, IInv, Shape
<1> HIDE DEF n
<1>10. ReqInv(m)' BY <1>2, <1>3, <1>6, <1>8, StillFiles DEF ReqInv, IInv
<1>11. m.pc \in Inside /\ req[r].pc \in Inside BY <1>1, <1>2, <1>6, <1>8 DEF Inside
<1>12. mutex = r BY <1>11 DEF IInv
<1> QED BY <1>3, <1>4, <1>5, <1>9, <1>10, <1>11, <1>12, RequestStep

LEMMA ScanKeeps ==
  ASSUME CacheAssumption, IInv, UNCHANGED fileVars, NEW r \in Requests, Scan(r)
  PROVE  IInv'
<1>1. PICK q \in RequestSet : q = req[r] BY DEF IInv, Shape
<1>2. q.pc = "scan" /\ ReqInv(q) /\ DOMAIN q.scan # Files BY <1>1 DEF Scan, IInv
<1>3. PICK f \in Files : f = First(Files \ DOMAIN q.scan) /\ f \notin DOMAIN q.scan
  BY <1>2, ReqParts, FirstIsIn
<1>4. PICK d : d = IF f = Config THEN q.conf ELSE file[f].data OBVIOUS
<1>5. d \in Contents BY <1>4, ReqParts DEF IInv, FilesInv
<1>6. PICK scan : scan = Put(q.scan, f, d) OBVIOUS
<1>7. /\ scan \in Partial(Contents) /\ DOMAIN scan = DOMAIN q.scan \cup {f} /\ scan[f] = d
      /\ \A g \in DOMAIN q.scan \ {f} : scan[g] = q.scan[g]
  <2>1. PICK p \in Partial(Contents) : p = q.scan BY ReqParts
  <2>2. scan = Put(p, f, d) BY <1>6, <2>1
  <2>3. /\ Put(p, f, d) \in Partial(Contents) /\ DOMAIN Put(p, f, d) = DOMAIN p \cup {f}
        /\ Put(p, f, d)[f] = d
        /\ \A g \in DOMAIN p \ {f} : Put(p, f, d)[g] = p[g]
    BY <1>5, PutIsPartial
  <2> QED BY <2>1, <2>2, <2>3
<1> DEFINE n == [q EXCEPT !.scan = scan]
<1>8. /\ n.pc = "scan" /\ n.now = q.now /\ n.start = q.start /\ n.conf = q.conf
      /\ n.sig = q.sig /\ n.scan = scan
  BY <1>2 DEF RequestSet
<1>9. n \in RequestSet BY <1>7 DEF RequestSet
<1>10. PICK m \in RequestSet : m = n BY <1>9
<1>11. req' = [req EXCEPT ![r] = m]
  BY <1>1, <1>3, <1>4, <1>6, <1>10 DEF Scan, IInv, Shape
<1> HIDE DEF n
<1>12. HadSince(f, d, q.start) BY <1>2, <1>4 DEF HadSince, ReqInv
<1>13. f # Config => ScanOK(f, q.sig[f], d) BY <1>4 DEF ScanOK
<1>14. f = Config => d = q.conf BY <1>4
<1>15. ASSUME NEW g \in DOMAIN scan
       PROVE  /\ HadSince(g, scan[g], q.start)
              /\ g = Config => scan[g] = q.conf
              /\ g # Config => ScanOK(g, q.sig[g], scan[g])
  <2>1. CASE g = f BY <2>1, <1>7, <1>12, <1>13, <1>14
  <2>2. CASE g # f BY <2>2, <1>2, <1>7 DEF ReqInv
  <2> QED BY <2>1, <2>2
<1>16. cache' = cache /\ mutex' = mutex BY DEF Scan
<1>17. ReqInv(m) BY <1>2, <1>8, <1>10, <1>15 DEF ReqInv
<1>18. ReqInv(m)' BY <1>16, <1>17, StillReq DEF IInv
<1>19. m.pc \in Inside <=> req[r].pc \in Inside BY <1>1, <1>2, <1>8, <1>10
<1> QED BY <1>11, <1>16, <1>18, <1>19, RequestStep

LEMMA StoreKeeps ==
  ASSUME CacheAssumption, IInv, UNCHANGED fileVars, NEW r \in Requests, Store(r)
  PROVE  IInv'
<1>1. PICK q \in RequestSet : q = req[r] BY DEF IInv, Shape
<1>2. q.pc = "scan" /\ ReqInv(q) /\ DOMAIN q.scan = Files BY <1>1 DEF Store, IInv
<1>3. cache' = [cache EXCEPT !.scan = q.scan] /\ mutex' = mutex BY <1>1 DEF Store
<1>4. /\ cache' \in CacheSet /\ cache'.sig = q.sig /\ cache'.conf = q.conf
      /\ cache'.scan = q.scan
  BY <1>2, <1>3, ReqParts DEF CacheSet, IInv, Shape, ReqInv
<1>5. CacheInv'
  BY <1>2, <1>4, StillFiles DEF CacheInv, ReqInv, IInv, CacheAssumption
<1> DEFINE n == [q EXCEPT !.pc = "answer"]
<1>6. /\ n.pc = "answer" /\ n.now = q.now /\ n.start = q.start /\ n.conf = q.conf
      /\ n.sig = q.sig /\ n.scan = q.scan
  BY DEF RequestSet
<1>7. n \in RequestSet BY DEF RequestSet
<1>8. PICK m \in RequestSet : m = n BY <1>7
<1>9. req' = [req EXCEPT ![r] = m] BY <1>1, <1>8 DEF Store, IInv, Shape
<1> HIDE DEF n
<1>10. \A f \in Files : MayAnswer(f, q.sig[f], q.scan[f], q.start)
  BY <1>2 DEF ReqInv, MayAnswer, Recent
<1>11. ReqInv(m)' BY <1>2, <1>6, <1>8, <1>10, StillFiles DEF ReqInv, IInv
<1>12. m.pc \in Inside /\ req[r].pc \in Inside BY <1>1, <1>2, <1>6, <1>8 DEF Inside
<1>13. mutex = r BY <1>12 DEF IInv
<1> QED BY <1>3, <1>4, <1>5, <1>9, <1>11, <1>12, <1>13, RequestStep

-----------------------------------------------------------------------------
(* The theorems. *)

\* Every reachable state satisfies the invariant.
THEOREM Invariance ==
  ASSUME CacheAssumption
  PROVE  Spec => []IInv
<1>1. Init => IInv BY InitIInv
<1>2. IInv /\ [Next]_<<fileVars, cacheVars>> => IInv'
  <2> SUFFICES ASSUME IInv, [Next]_<<fileVars, cacheVars>> PROVE IInv'
    OBVIOUS
  <2>1. CASE UNCHANGED <<fileVars, cacheVars>>
    <3>1. fileVars' = fileVars /\ mutex' = mutex /\ cache' = cache /\ req' = req
      BY <2>1 DEF cacheVars
    <3>2. ASSUME NEW r \in Requests PROVE ReqInv(req[r])'
      <4>1. PICK q : q = req[r] OBVIOUS
      <4>2. ReqInv(q)' BY <3>1, <4>1, StillReq DEF IInv
      <4> QED BY <3>1, <4>1, <4>2
    <3>3. CacheInv' BY <3>1, StillFiles DEF CacheInv, IInv
    <3> QED BY <3>1, <3>2, <3>3, StillFiles DEF IInv, Shape
  <2>2. CASE CacheStep /\ UNCHANGED fileVars
    <3> SUFFICES ASSUME NEW r \in Requests,
                        \/ Request(r) \/ Enter(r) \/ Sign(r) \/ Hit(r) \/ Miss(r)
                        \/ Scan(r) \/ Store(r) \/ ScanRaises(r) \/ Answer(r)
                 PROVE  IInv'
      BY <2>2 DEF CacheStep
    <3>1. CASE Request(r) BY <2>2, <3>1, RequestKeeps
    <3>2. CASE Enter(r) BY <2>2, <3>2, EnterKeeps
    <3>3. CASE Sign(r) BY <2>2, <3>3, SignKeeps
    <3>4. CASE Hit(r) BY <2>2, <3>4, HitKeeps
    <3>5. CASE Miss(r) BY <2>2, <3>5, MissKeeps
    <3>6. CASE Scan(r) BY <2>2, <3>6, ScanKeeps
    <3>7. CASE Store(r) BY <2>2, <3>7, StoreKeeps
    <3>8. CASE ScanRaises(r) \/ Answer(r)
      BY <2>2, <3>8, LeaveKeeps DEF ScanRaises, Answer, Inside
    <3> QED BY <3>1, <3>2, <3>3, <3>4, <3>5, <3>6, <3>7, <3>8
  <2>3. CASE (Advance \/ \E f \in Files : WriteFile(f)) /\ UNCHANGED cacheVars
    BY <2>3, EnvKeepsIInv
  <2> QED BY <2>1, <2>2, <2>3 DEF Next
<1> QED BY <1>1, <1>2, PTL DEF Spec

\* The requests, the mutex and the cache are what CacheTypeOK says.
THEOREM TypeCorrect ==
  ASSUME CacheAssumption
  PROVE  Spec => []CacheTypeOK
<1>1. IInv => CacheTypeOK
  <2> SUFFICES ASSUME IInv PROVE CacheTypeOK
    OBVIOUS
  <2>1. mutex \in Requests \cup {NoThread} /\ DOMAIN req = Requests BY DEF IInv, Shape
  <2>2. ASSUME NEW r \in Requests
        PROVE  /\ req[r].pc \in {"idle", "wait", "sign", "scan", "answer"}
               /\ req[r].start \in Nat /\ req[r].now \in Nat /\ req[r].conf \in Contents
               /\ DOMAIN req[r].sig \subseteq Files /\ DOMAIN req[r].scan \subseteq Files
               /\ \A f \in DOMAIN req[r].sig : req[r].sig[f] \in Signatures
               /\ \A f \in DOMAIN req[r].scan : req[r].scan[f] \in Contents
    <3>1. PICK q \in RequestSet : q = req[r] BY DEF IInv, Shape
    <3>2. q.pc \in {"idle", "wait", "sign", "scan", "answer"} BY DEF RequestSet
    <3> QED BY <3>1, <3>2, ReqParts
  <2>3. cache.scan # NoScan => DOMAIN cache.scan = Files BY DEF IInv, CacheInv
  <2> QED BY <2>1, <2>2, <2>3 DEF CacheTypeOK
<1> QED BY <1>1, Invariance, PTL

LEMMA FilesStayInBounds ==
  ASSUME CacheAssumption, FilesBounds PROVE Spec => [](FilesInv /\ InBounds)
<1>1. Init => InBounds BY BoundsHoldFirst DEF Init, CacheAssumption
<1>2. IInv /\ InBounds /\ [Next]_<<fileVars, cacheVars>> => InBounds'
  <2> SUFFICES ASSUME IInv, InBounds, [Next]_<<fileVars, cacheVars>> PROVE InBounds'
    OBVIOUS
  <2>1. FilesInv BY DEF IInv
  <2>2. \/ UNCHANGED fileVars \/ Advance \/ \E f \in Files : WriteFile(f) BY DEF Next
  <2> QED BY <2>1, <2>2, BoundsHold DEF Advance, CacheAssumption
<1>3. IInv => FilesInv BY DEF IInv
<1> QED BY <1>1, <1>2, <1>3, Invariance, PTL DEF Spec

\* What a request answers, each file had since the request began, but for a
\* recent tick and for a file that was created and removed while it was scanned
\* (ProjectScanCache.read_repository).
THEOREM AnswersAreRecent ==
  ASSUME CacheAssumption, FilesBounds
  PROVE  Spec => []ScanAnswerIsRecent
<1>1. IInv => AnswerIsRecent BY DEF IInv, ReqInv, MayAnswer, AnswerIsRecent
<1>2. FilesInv /\ InBounds => FilesTypeOK BY FilesAreTyped DEF CacheAssumption
<1>3. CacheTypeOK /\ FilesTypeOK /\ AnswerIsRecent => ScanAnswerIsRecent BY DEF ScanAnswerIsRecent
<1> QED BY <1>1, <1>2, <1>3, Invariance, TypeCorrect, FilesStayInBounds, PTL

\* At most one request signs, scans or answers at a time, and while it scans no
\* other has replaced the signature that it scans under.
THEOREM ScansUnderItsSignature ==
  ASSUME CacheAssumption
  PROVE  Spec => [](\A r \in Requests :
                      /\ \A q \in Requests : req[r].pc \in Inside /\ req[q].pc \in Inside => r = q
                      /\ req[r].pc = "scan" => cache.sig = req[r].sig)
<1>1. IInv => \A r \in Requests :
                /\ \A q \in Requests : req[r].pc \in Inside /\ req[q].pc \in Inside => r = q
                /\ req[r].pc = "scan" => cache.sig = req[r].sig
  BY DEF IInv, ReqInv
<1> QED BY <1>1, Invariance, PTL

-----------------------------------------------------------------------------
(* Branches: a new task's id is not in use, and of the copies of a task the *)
(* latest is shown.                                                        *)
V == INSTANCE Branches WITH
       MaxClock <- MaxTime,
       work <- x1, tree <- x2, tip <- x3, clock <- x4, edits <- x5, scans <- x6, creates <- x7, scan <- x8, alloc <- x9

work  == x1
tree  == x2
tip   == x3
time  == x4
scan  == x8
alloc == x9

USE DEF work, tree, tip, time, scan, alloc


\* What a checkout and a branch may have of a task.
FileCopies   == [rev : Nat, dir : V!Dirs] \cup {V!NoCopy}
BranchCopies == [rev : Nat, dir : V!Dirs, at : 0..MaxTime] \cup {V!NoCopy}

Creations == [pc : {"idle", "refs", "worktrees", "write"}, ids : SUBSET V!Ids, had : SUBSET V!Ids,
              failed : BOOLEAN]

\* No copy is newer than the time, and what the branch of a checkout has, its files
\* have.
BranchTypes ==
  /\ time \in 0..MaxTime /\ x5 \in Nat /\ x7 \in Nat
  /\ work \in [Checkouts -> [V!Ids -> FileCopies]]
  /\ tree \in [V!Branches -> [V!Ids -> BranchCopies]]
  /\ tip \in [V!Branches -> 0..MaxTime]
  /\ \A b \in V!Branches : tip[b] <= time
  /\ \A b \in V!Branches, t \in V!Ids : tree[b][t] # V!NoCopy => tree[b][t].at <= time
  /\ \A w \in Checkouts, t \in V!Ids : tree[w][t] # V!NoCopy => work[w][t] # V!NoCopy

\* The creation of w has found the names that were in use when it began and are
\* still, as far as it has looked; names in the files never vanish.
CreationInv(w) ==
  LET a == alloc[w] IN
    /\ a.pc \in {"refs", "worktrees"} => V!NamesIn(work[w]) \subseteq a.ids
    /\ a.pc = "worktrees" /\ ~a.failed =>
         a.had \subseteq a.ids \cup (UNION {V!NamesIn(work[v]) : v \in Checkouts})
    /\ a.pc = "write" /\ ~a.failed => a.had \subseteq a.ids

CreationsInv ==
  /\ alloc \in [Checkouts -> Creations]
  /\ \A w \in Checkouts : CreationInv(w)

-----------------------------------------------------------------------------
LEMMA NoCopyIsNone ==
  ASSUME NEW c
  PROVE  /\ c \in [rev : Nat, dir : V!Dirs] => c # V!NoCopy
         /\ c \in [rev : Nat, dir : V!Dirs, at : 0..MaxTime] => c # V!NoCopy
BY DEF V!NoCopy

LEMMA BranchInitTypes ==
  ASSUME V!BranchesAssumption, V!BranchInit PROVE BranchTypes /\ CreationsInv
<1> USE DEF V!BranchInit, V!BranchesAssumption
<1>1. PICK here \in 0..MaxId, elsewhere \in 0..MaxId, dir \in V!Dirs :
       /\ work = [w \in Checkouts |->
                   [t \in V!Ids |-> IF t <= here THEN [rev |-> 0, dir |-> "tasks"] ELSE V!NoCopy]]
       /\ tree = [b \in V!Branches |-> [t \in V!Ids |->
                    IF b \in Checkouts /\ t <= here THEN [rev |-> 0, dir |-> "tasks", at |-> 0]
                    ELSE IF b \in Spare /\ t <= elsewhere THEN [rev |-> 0, dir |-> dir, at |-> 0]
                    ELSE V!NoCopy]]
  OBVIOUS
<1>2. work \in [Checkouts -> [V!Ids -> FileCopies]]
  BY <1>1 DEF FileCopies, V!Dirs
<1>3. \A b \in V!Branches, t \in V!Ids :
         /\ tree[b][t] \in BranchCopies
         /\ tree[b][t] # V!NoCopy => tree[b][t].at = 0
  BY <1>1 DEF BranchCopies, V!Dirs
<1>4. tree \in [V!Branches -> [V!Ids -> BranchCopies]]
  BY <1>1, <1>3
<1>5. CreationsInv
  BY DEF CreationsInv, CreationInv, Creations, V!NoAlloc
<1>6. ASSUME NEW w \in Checkouts, NEW t \in V!Ids, tree[w][t] # V!NoCopy PROVE work[w][t] # V!NoCopy
  <2>1. t <= here BY <1>1, <1>6 DEF V!Branches
  <2>2. work[w][t] = [rev |-> 0, dir |-> "tasks"] BY <1>1, <2>1
  <2>3. work[w][t] \in [rev : Nat, dir : V!Dirs] BY <2>2 DEF V!Dirs
  <2> QED BY <2>3, NoCopyIsNone
<1> QED BY <1>2, <1>3, <1>4, <1>5, <1>6 DEF BranchTypes

LEMMA DirtyCopy ==
  ASSUME BranchTypes, NEW w \in Checkouts, NEW t \in V!Ids, V!Dirty(w, t), work[w][t] # V!NoCopy
  PROVE  work[w][t] \in [rev : Nat, dir : V!Dirs]
BY DEF BranchTypes, FileCopies

LEMMA CommitTypes ==
  ASSUME V!BranchesAssumption, BranchTypes, NEW w \in Checkouts, V!Commit(w)
  PROVE  BranchTypes'
<1>1. /\ tree' = [tree EXCEPT ![w] = [t \in V!Ids |->
                    IF V!Dirty(w, t) THEN [rev |-> work[w][t].rev, dir |-> work[w][t].dir, at |-> time]
                                     ELSE tree[w][t]]]
      /\ tip' = [tip EXCEPT ![w] = time]
      /\ UNCHANGED <<work, time, x5, x7>>
  BY DEF V!Commit
<1>2. w \in V!Branches BY DEF V!Branches
<1>3. ASSUME NEW t \in V!Ids
      PROVE  tree'[w][t] \in BranchCopies /\ (tree'[w][t] # V!NoCopy => tree'[w][t].at <= time)
  <2>1. tree'[w][t] = IF V!Dirty(w, t)
                      THEN [rev |-> work[w][t].rev, dir |-> work[w][t].dir, at |-> time] ELSE tree[w][t]
    BY <1>1, <1>2 DEF BranchTypes
  <2>2. CASE V!Dirty(w, t)
    <3>1. work[w][t] # V!NoCopy BY <2>2 DEF V!Dirty, BranchTypes
    <3>2. work[w][t] \in [rev : Nat, dir : V!Dirs] BY <2>2, <3>1, DirtyCopy
    <3> QED BY <2>1, <2>2, <3>2 DEF BranchTypes, BranchCopies
  <2>3. CASE ~V!Dirty(w, t) BY <1>2, <2>1, <2>3 DEF BranchTypes
  <2> QED BY <2>2, <2>3
<1>4. ASSUME NEW b \in V!Branches \ {w} PROVE tree'[b] = tree[b]
  BY <1>1, <1>2, <1>4 DEF BranchTypes
<1>5. tree'[w] \in [V!Ids -> BranchCopies]
  BY <1>1, <1>2, <1>3 DEF BranchTypes
<1>6. tree' \in [V!Branches -> [V!Ids -> BranchCopies]]
  BY <1>1, <1>4, <1>5 DEF BranchTypes
<1>7. tip' \in [V!Branches -> 0..MaxTime] /\ \A b \in V!Branches : tip'[b] <= time
  BY <1>1, <1>2 DEF BranchTypes
<1>8. ASSUME NEW v \in Checkouts, NEW t \in V!Ids, tree'[v][t] # V!NoCopy PROVE work[v][t] # V!NoCopy
  <2>1. CASE v # w BY <1>4, <1>8, <2>1 DEF BranchTypes, V!Branches
  <2>2. CASE v = w /\ V!Dirty(w, t) BY <2>2 DEF V!Dirty, BranchTypes
  <2>3. CASE v = w /\ ~V!Dirty(w, t)
    <3>1. tree'[w][t] = tree[w][t] BY <1>1, <1>2, <2>3 DEF BranchTypes
    <3> QED BY <1>8, <2>3, <3>1 DEF BranchTypes
  <2> QED BY <2>1, <2>2, <2>3
<1> QED BY <1>1, <1>3, <1>4, <1>6, <1>7, <1>8 DEF BranchTypes

LEMMA FileTypes ==
  ASSUME V!BranchesAssumption, BranchTypes, NEW w \in Checkouts, NEW t \in V!Ids,
         NEW c \in [rev : Nat, dir : V!Dirs],
         work' = [work EXCEPT ![w][t] = c], UNCHANGED <<tree, tip, time>>, x5' \in Nat, x7' \in Nat
  PROVE  /\ BranchTypes'
         /\ \A v \in Checkouts : V!NamesIn(work[v]) \subseteq V!NamesIn(work'[v])
<1>1. c \in FileCopies /\ c # V!NoCopy BY NoCopyIsNone DEF FileCopies
<1>2. work' \in [Checkouts -> [V!Ids -> FileCopies]] BY <1>1 DEF BranchTypes
<1>3. \A v \in Checkouts, u \in V!Ids : work'[v][u] = work[v][u] \/ work'[v][u] # V!NoCopy
  BY <1>1 DEF BranchTypes
<1>4. \A v \in Checkouts : V!NamesIn(work[v]) \subseteq V!NamesIn(work'[v])
  BY <1>3 DEF V!NamesIn
<1>5. \A v \in V!Branches, u \in V!Ids : v \in Checkouts /\ tree[v][u] # V!NoCopy => work'[v][u] # V!NoCopy
  BY <1>3 DEF BranchTypes
<1>6. tree' = tree /\ tip' = tip /\ time' = time OBVIOUS
<1>7. BranchTypes' BY <1>2, <1>5, <1>6 DEF BranchTypes, V!Branches
<1> QED BY <1>4, <1>7

\* What every step keeps of the types, and of the names in the files.
LEMMA BranchTypesKeep ==
  ASSUME V!BranchesAssumption, BranchTypes, [V!BranchNext]_V!branchVars
  PROVE  /\ BranchTypes'
         /\ \A v \in Checkouts : V!NamesIn(work[v]) \subseteq V!NamesIn(work'[v])
<1> DEFINE Kept == /\ BranchTypes'
                   /\ \A v \in Checkouts : V!NamesIn(work[v]) \subseteq V!NamesIn(work'[v])
<1>1. ASSUME UNCHANGED <<work, tree, tip, time, x5>>, x7' \in Nat PROVE Kept
  BY <1>1 DEF BranchTypes
<1>2. CASE UNCHANGED V!branchVars
  BY <1>1, <1>2 DEF V!branchVars, BranchTypes
<1>3. ASSUME NEW w \in Checkouts, NEW t \in V!Ids, NEW dir \in V!Dirs, V!Edit(w, t, dir) PROVE Kept
  <2>1. x5 + 1 \in Nat BY DEF BranchTypes
  <2>2. [rev |-> x5 + 1, dir |-> dir] \in [rev : Nat, dir : V!Dirs] BY <2>1
  <2>3. work' = [work EXCEPT ![w][t] = [rev |-> x5 + 1, dir |-> dir]] BY <1>3 DEF V!Edit
  <2> QED BY <1>3, <2>1, <2>2, <2>3, FileTypes DEF V!Edit, BranchTypes
<1>4. ASSUME NEW w \in Checkouts, V!Commit(w) PROVE Kept
  BY <1>4, CommitTypes DEF V!Commit
<1>5. ASSUME NEW w \in Checkouts, NEW b \in Spare, V!Fork(b, w) PROVE Kept
  <2>1. b \in V!Branches /\ w \in V!Branches /\ b \notin Checkouts
    BY DEF V!Branches, V!BranchesAssumption
  <2>2. tree' = [tree EXCEPT ![b] = tree[w]] /\ tip' = [tip EXCEPT ![b] = tip[w]]
    BY <1>5 DEF V!Fork
  <2>3. \A a \in V!Branches : /\ tree'[a] = tree[a] \/ tree'[a] = tree[w]
                              /\ tip'[a] = tip[a] \/ tip'[a] = tip[w]
    BY <2>1, <2>2 DEF BranchTypes
  <2>4. \A v \in Checkouts : tree'[v] = tree[v] BY <2>1, <2>2 DEF BranchTypes, V!Branches
  <2> QED BY <1>5, <2>1, <2>2, <2>3, <2>4 DEF V!Fork, BranchTypes
<1>6. ASSUME NEW w \in Checkouts, V!WriteNew(w) PROVE Kept
  <2>1. x5 \in Nat /\ x7 \in Nat /\ MaxEdits \in Nat BY DEF BranchTypes, V!BranchesAssumption
  <2>2. [rev |-> MaxEdits + x7, dir |-> "tasks"] \in [rev : Nat, dir : V!Dirs] BY <2>1 DEF V!Dirs
  <2>3. V!NewId(w) \in V!Ids BY <1>6 DEF V!WriteNew
  <2>4. work' = [work EXCEPT ![w][V!NewId(w)] = [rev |-> MaxEdits + x7, dir |-> "tasks"]]
        /\ UNCHANGED <<tree, tip, time, x5, x7>>
    BY <1>6 DEF V!WriteNew, V!Creating
  <2> QED BY <2>1, <2>2, <2>3, <2>4, FileTypes
<1>7. ASSUME NEW b \in V!Branches, V!CommitOther(b) PROVE Kept
  BY <1>7 DEF V!CommitOther, BranchTypes
<1>8. CASE V!Advance
  <2>1. time' = time + 1 /\ time' \in 0..MaxTime /\ UNCHANGED <<work, tree, tip, x5, x7>>
    BY <1>8 DEF V!Advance, BranchTypes, V!BranchesAssumption
  <2>2. \A b \in V!Branches : tip[b] <= time' BY <2>1 DEF BranchTypes
  <2>3. \A b \in V!Branches, t \in V!Ids : tree[b][t] # V!NoCopy => tree[b][t].at <= time'
    BY <2>1 DEF BranchTypes, BranchCopies
  <2> QED BY <2>1, <2>2, <2>3 DEF BranchTypes
<1>9. ASSUME NEW w \in Checkouts, V!BeginCreate(w) \/ V!ReadRefs(w) \/ V!ReadWorktrees(w) PROVE Kept
  <2>1. UNCHANGED <<work, tree, tip, time, x5>> /\ (x7' = x7 \/ x7' = x7 + 1)
    BY <1>9 DEF V!BeginCreate, V!ReadRefs, V!ReadWorktrees, V!Creating
  <2>2. x7' \in Nat BY <2>1 DEF BranchTypes
  <2> QED BY <1>1, <2>1, <2>2
<1>10. CASE \/ V!ScanFiles \/ V!ScanStatus \/ V!ScanLog \/ V!ScanRefs \/ V!ScanTree
            \/ V!ScanRefLog \/ V!Answered
  BY <1>1, <1>10 DEF V!ScanFiles, V!ScanStatus, V!ScanLog, V!ScanRefs, V!ScanTree, V!ScanRefLog,
                     V!Answered, V!Scanning, BranchTypes
<1> HIDE DEF Kept
<1> QED BY <1>2, <1>3, <1>4, <1>5, <1>6, <1>7, <1>8, <1>9, <1>10 DEF V!BranchNext, Kept


\* Only a creation in w adds a name to the files of w.
LEMMA OwnFiles ==
  ASSUME BranchTypes, CreationsInv, NEW w \in Checkouts, [V!BranchNext]_V!branchVars
  PROVE  \/ V!NamesIn(work'[w]) = V!NamesIn(work[w])
         \/ V!WriteNew(w)
<1>1. ASSUME NEW v \in Checkouts, NEW t \in V!Ids, NEW dir \in V!Dirs, V!Edit(v, t, dir)
      PROVE  V!NamesIn(work'[w]) = V!NamesIn(work[w])
  <2>1. /\ work' = [work EXCEPT ![v][t] = [rev |-> x5 + 1, dir |-> dir]] /\ work[v][t] # V!NoCopy
    BY <1>1 DEF V!Edit, V!Seen
  <2>2. [rev |-> x5 + 1, dir |-> dir] \in [rev : Nat, dir : V!Dirs] BY DEF BranchTypes
  <2>3. [rev |-> x5 + 1, dir |-> dir] # V!NoCopy BY <2>2, NoCopyIsNone
  <2>4. \A u \in V!Ids : work'[w][u] # V!NoCopy <=> work[w][u] # V!NoCopy
    BY <2>1, <2>3 DEF BranchTypes
  <2> QED BY <2>4 DEF V!NamesIn
<1>2. ASSUME NEW v \in Checkouts \ {w}, V!WriteNew(v) PROVE work'[w] = work[w]
  BY <1>2 DEF V!WriteNew, BranchTypes
<1>3. ASSUME work' = work PROVE V!NamesIn(work'[w]) = V!NamesIn(work[w])
  BY <1>3
<1>4. CASE UNCHANGED V!branchVars BY <1>3, <1>4 DEF V!branchVars
<1>5. ASSUME NEW v \in Checkouts,
             V!Commit(v) \/ V!BeginCreate(v) \/ V!ReadRefs(v) \/ V!ReadWorktrees(v)
      PROVE  work' = work
  BY <1>5 DEF V!Commit, V!BeginCreate, V!ReadRefs, V!ReadWorktrees, V!Creating
<1>6. ASSUME \/ \E v \in Checkouts, b \in Spare : V!Fork(b, v)
             \/ \E b \in V!Branches : V!CommitOther(b)
             \/ V!Advance
      PROVE  work' = work
  BY <1>6 DEF V!Fork, V!CommitOther, V!Advance
<1>7. ASSUME \/ V!ScanFiles \/ V!ScanStatus \/ V!ScanLog \/ V!ScanRefs \/ V!ScanTree
             \/ V!ScanRefLog \/ V!Answered
      PROVE  work' = work
  BY <1>7 DEF V!ScanFiles, V!ScanStatus, V!ScanLog, V!ScanRefs, V!ScanTree, V!ScanRefLog,
              V!Answered, V!Scanning
<1> QED BY <1>1, <1>2, <1>3, <1>4, <1>5, <1>6, <1>7 DEF V!BranchNext

LEMMA SameCreation ==
  ASSUME CreationsInv, NEW w \in Checkouts, alloc'[w] = alloc[w],
         \A v \in Checkouts : V!NamesIn(work[v]) \subseteq V!NamesIn(work'[v]),
         V!NamesIn(work'[w]) = V!NamesIn(work[w])
  PROVE  CreationInv(w)'
<1>1. UNION {V!NamesIn(work[v]) : v \in Checkouts} \subseteq UNION {V!NamesIn(work'[v]) : v \in Checkouts}
  OBVIOUS
<1>2. CreationInv(w) BY DEF CreationsInv
<1> QED BY <1>1, <1>2 DEF CreationInv

LEMMA NamesAreTasks ==
  ASSUME NEW w PROVE V!NamesIn(work[w]) \subseteq V!Ids /\ V!Used(w) \subseteq V!Ids
BY DEF V!NamesIn, V!Used

\* One step of the creation in w.
LEMMA CreationSteps ==
  ASSUME V!BranchesAssumption, BranchTypes, CreationsInv, NEW w \in Checkouts,
         \/ V!BeginCreate(w) \/ V!ReadRefs(w) \/ V!ReadWorktrees(w) \/ V!WriteNew(w)
  PROVE  /\ alloc' = [alloc EXCEPT ![w] = alloc'[w]] /\ alloc'[w] \in Creations
         /\ CreationInv(w)'
<1> DEFINE a == alloc[w]
<1>1. /\ a \in Creations /\ CreationInv(w) /\ alloc \in [Checkouts -> Creations]
      /\ V!NamesIn(work[w]) \subseteq V!Ids /\ V!Used(w) \subseteq V!Ids
  BY NamesAreTasks DEF CreationsInv
<1>2. CASE V!BeginCreate(w)
  <2>1. /\ alloc' = [alloc EXCEPT ![w] = [V!NoAlloc EXCEPT !.pc = "refs", !.ids = V!NamesIn(work[w]),
                                                          !.had = V!Used(w)]]
        /\ work' = work
    BY <1>2 DEF V!BeginCreate
  <2> QED BY <1>1, <2>1 DEF Creations, V!NoAlloc, CreationInv
<1>3. CASE V!ReadRefs(w)
  <2>1. /\ a.pc = "refs" /\ work' = work
        /\ \/ alloc' = [alloc EXCEPT ![w].pc = "worktrees",
                          ![w].ids = @ \cup UNION {V!RefNames(b) : b \in V!Recent(w)},
                          ![w].had = @ \cap V!Used(w)]
           \/ alloc' = [alloc EXCEPT ![w].pc = "worktrees", ![w].failed = TRUE]
    BY <1>3 DEF V!ReadRefs, V!Creating
  <2>2. UNION {V!RefNames(b) : b \in V!Recent(w)} \subseteq V!Ids BY DEF V!RefNames, V!NamesIn
  <2>3. V!Used(w) = (UNION {V!NamesIn(work[v]) : v \in Checkouts})
                    \cup (UNION {V!RefNames(b) : b \in V!Recent(w)})
    BY DEF V!Used, V!RefNames
  <2>4. CASE alloc' = [alloc EXCEPT ![w].pc = "worktrees",
                         ![w].ids = @ \cup UNION {V!RefNames(b) : b \in V!Recent(w)},
                         ![w].had = @ \cap V!Used(w)]
    <3>1. alloc' = [alloc EXCEPT ![w] = [a EXCEPT !.pc = "worktrees",
                      !.ids = @ \cup UNION {V!RefNames(b) : b \in V!Recent(w)}, !.had = @ \cap V!Used(w)]]
      BY <1>1, <2>4
    <3> HIDE DEF a
    <3>2. alloc'[w] \in Creations /\ alloc' = [alloc EXCEPT ![w] = alloc'[w]]
      BY <1>1, <2>2, <3>1 DEF Creations
    <3>3. /\ alloc'[w].pc = "worktrees" /\ alloc'[w].had \subseteq V!Used(w)
          /\ alloc'[w].ids = a.ids \cup UNION {V!RefNames(b) : b \in V!Recent(w)}
      BY <1>1, <3>1 DEF Creations
    <3>4. V!NamesIn(work[w]) \subseteq a.ids BY <1>1, <2>1 DEF CreationInv, a
    <3>5. alloc'[w].had \subseteq alloc'[w].ids \cup (UNION {V!NamesIn(work[v]) : v \in Checkouts})
      BY <2>3, <3>3
    <3>6. V!NamesIn(work'[w]) \subseteq alloc'[w].ids BY <2>1, <3>3, <3>4
    <3>7. alloc'[w].had \subseteq alloc'[w].ids \cup (UNION {V!NamesIn(work'[v]) : v \in Checkouts})
      BY <2>1, <3>5
    <3>8. CreationInv(w)' BY <3>3, <3>6, <3>7 DEF CreationInv
    <3> QED BY <3>2, <3>8
  <2>5. CASE alloc' = [alloc EXCEPT ![w].pc = "worktrees", ![w].failed = TRUE]
    <3>1. alloc' = [alloc EXCEPT ![w] = [a EXCEPT !.pc = "worktrees", !.failed = TRUE]]
      BY <1>1, <2>5
    <3>2. V!NamesIn(work[w]) \subseteq a.ids BY <1>1, <2>1 DEF CreationInv
    <3> HIDE DEF a
    <3> QED BY <1>1, <2>1, <3>1, <3>2 DEF Creations, CreationInv
  <2> QED BY <2>1, <2>4, <2>5
<1>4. CASE V!ReadWorktrees(w)
  <2>1. /\ a.pc = "worktrees" /\ work' = work
        /\ \/ alloc' = [alloc EXCEPT ![w].pc = "write",
                          ![w].ids = @ \cup UNION {V!NamesIn(work[v]) : v \in Checkouts \ {w}}]
           \/ alloc' = [alloc EXCEPT ![w].pc = "write", ![w].failed = TRUE]
    BY <1>4 DEF V!ReadWorktrees, V!Creating
  <2>2. UNION {V!NamesIn(work[v]) : v \in Checkouts \ {w}} \subseteq V!Ids BY DEF V!NamesIn
  <2>3. UNION {V!NamesIn(work[v]) : v \in Checkouts}
          = V!NamesIn(work[w]) \cup (UNION {V!NamesIn(work[v]) : v \in Checkouts \ {w}})
    OBVIOUS
  <2> HIDE DEF a
  <2> QED BY <1>1, <2>1, <2>2, <2>3 DEF Creations, CreationInv, a
<1>5. CASE V!WriteNew(w)
  BY <1>1, <1>5 DEF V!WriteNew, Creations, V!NoAlloc, CreationInv
<1> QED BY <1>2, <1>3, <1>4, <1>5

LEMMA CreationsKeep ==
  ASSUME V!BranchesAssumption, BranchTypes, CreationsInv, [V!BranchNext]_V!branchVars
  PROVE  CreationsInv'
<1>1. CASE \E w \in Checkouts :
             \/ V!BeginCreate(w) \/ V!ReadRefs(w) \/ V!ReadWorktrees(w) \/ V!WriteNew(w)
  <2>1. PICK w \in Checkouts : \/ V!BeginCreate(w) \/ V!ReadRefs(w) \/ V!ReadWorktrees(w) \/ V!WriteNew(w)
    BY <1>1
  <2>2. /\ alloc' = [alloc EXCEPT ![w] = alloc'[w]] /\ alloc'[w] \in Creations
        /\ CreationInv(w)'
    BY <2>1, CreationSteps
  <2>3. \A v \in Checkouts \ {w} : alloc'[v] = alloc[v]
    BY <2>2 DEF CreationsInv
  <2>4. \A v \in Checkouts \ {w} : V!NamesIn(work'[v]) = V!NamesIn(work[v])
    BY <2>1 DEF V!BeginCreate, V!ReadRefs, V!ReadWorktrees, V!WriteNew, BranchTypes
  <2>5. \A v \in Checkouts : V!NamesIn(work[v]) \subseteq V!NamesIn(work'[v])
    BY BranchTypesKeep
  <2>6. \A v \in Checkouts \ {w} : CreationInv(v)'
    BY <2>3, <2>4, <2>5, SameCreation
  <2>7. alloc' \in [Checkouts -> Creations] BY <2>2 DEF CreationsInv
  <2> QED BY <2>2, <2>6, <2>7 DEF CreationsInv
<1>2. CASE alloc' = alloc /\ ~\E w \in Checkouts : V!WriteNew(w)
  <2>1. \A w \in Checkouts : CreationInv(w)'
    BY <1>2, OwnFiles, BranchTypesKeep, SameCreation
  <2> QED BY <1>2, <2>1 DEF CreationsInv
<1>3. CASE ~\E w \in Checkouts :
             \/ V!BeginCreate(w) \/ V!ReadRefs(w) \/ V!ReadWorktrees(w) \/ V!WriteNew(w)
  <2>1. ASSUME UNCHANGED V!branchVars PROVE alloc' = alloc BY <2>1 DEF V!branchVars
  <2>2. ASSUME \E w \in Checkouts : \/ \E t \in V!Ids, dir \in V!Dirs : V!Edit(w, t, dir)
                                  \/ V!Commit(w) \/ \E b \in Spare : V!Fork(b, w)
        PROVE  alloc' = alloc
    BY <2>2 DEF V!Edit, V!Commit, V!Fork
  <2>3. ASSUME V!Advance \/ \E b \in V!Branches : V!CommitOther(b)
        PROVE  alloc' = alloc
    BY <2>3 DEF V!CommitOther, V!Advance
  <2>4. ASSUME \/ V!ScanFiles \/ V!ScanStatus \/ V!ScanLog \/ V!ScanRefs \/ V!ScanTree
               \/ V!ScanRefLog \/ V!Answered
        PROVE  alloc' = alloc
    BY <2>4 DEF V!ScanFiles, V!ScanStatus, V!ScanLog, V!ScanRefs, V!ScanTree, V!ScanRefLog,
                V!Answered, V!Scanning
  <2>5. alloc' = alloc BY <1>3, <2>1, <2>2, <2>3, <2>4 DEF V!BranchNext
  <2> QED BY <1>2, <1>3, <2>5
<1> QED BY <1>1, <1>3

\* The ids are bounded, so some set of them has a largest.
LEMMA LargestIs ==
  ASSUME V!BranchesAssumption, NEW S \in SUBSET V!Ids
  PROVE  V!Largest(S) + 1 \notin S
<1>1. CASE S = {} BY <1>1
<1>2. CASE S # {}
  <2> DEFINE over == {MaxId - t : t \in S}
  <2>0. \A t \in S : t \in Int /\ t <= MaxId /\ MaxId - t \in Nat
    BY DEF V!Ids, V!BranchesAssumption
  <2>1. over \subseteq Nat /\ over # {} BY <1>2, <2>0
  <2>2. PICK n \in over : \A m \in over : ~(<<m, n>> \in OpToRel(<, Nat))
    BY <2>1, WFMin, NatLessThanWellFounded
  <2>3. \A m \in over : ~(m < n) BY <2>1, <2>2 DEF OpToRel
  <2>4. PICK t \in S : n = MaxId - t OBVIOUS
  <2>5. \A u \in S : ~(MaxId - u < MaxId - t) BY <2>3, <2>4
  <2>6. MaxId \in Int BY DEF V!BranchesAssumption
  <2>7. \A u \in S : u <= t BY <2>0, <2>5, <2>6
  <2>8. V!Largest(S) \in S /\ \A u \in S : u <= V!Largest(S)
    BY <1>2, <2>7 DEF V!Largest
  <2>9. V!Largest(S) \in Int BY <2>0, <2>8
  <2> QED BY <2>0, <2>8, <2>9
<1> QED BY <1>1, <1>2

LEMMA BranchesInvariance ==
  ASSUME V!BranchesAssumption PROVE V!BranchSpec => [](BranchTypes /\ CreationsInv)
<1>1. V!BranchInit => BranchTypes /\ CreationsInv BY BranchInitTypes
<1>2. BranchTypes /\ CreationsInv /\ [V!BranchNext]_V!branchVars => (BranchTypes /\ CreationsInv)'
  BY BranchTypesKeep, CreationsKeep
<1> QED BY <1>1, <1>2, PTL DEF V!BranchSpec

\* The id that a creation gives out is not one that the files of a checkout or a
\* recent branch used when it began, when it listed the branches and when it
\* writes, if git has answered (core/repository.py, _next_task_id).
THEOREM NewIdsAreFresh ==
  ASSUME V!BranchesAssumption PROVE V!BranchSpec => V!NewIdIsFresh
<1>1. BranchTypes /\ CreationsInv => V!AllocatesFresh
  <2> SUFFICES ASSUME CreationsInv, NEW w \in Checkouts, alloc[w].pc = "write", ~alloc[w].failed
               PROVE  V!NewId(w) \notin alloc[w].had
    BY DEF V!AllocatesFresh
  <2>1. alloc[w].had \subseteq alloc[w].ids /\ alloc[w].ids \subseteq V!Ids
    BY DEF CreationsInv, CreationInv, Creations
  <2> QED BY <2>1, LargestIs DEF V!NewId
<1> QED BY <1>1, BranchesInvariance, PTL DEF V!NewIdIsFresh

-----------------------------------------------------------------------------
\* What a scan knows while it goes on.
Finds == [src : V!Branches \ {Viewer}, task : V!Ids, rev : Nat, at : 0..MaxTime]
FileLists   == [V!Ids -> FileCopies]
Keys        == [V!Ids -> 0..V!Inf]
EntryLists  == [V!Ids -> BranchCopies]
Late        == {"tree", "reflog", "answer"}

ScanTypes ==
  /\ scan \in [pc : {"idle", "status", "log", "refs"} \cup Late, same : SUBSET V!Branches,
               failed : BOOLEAN, file : FileLists \cup {<<>>}, dirty : SUBSET V!Ids,
               key : Keys \cup {<<>>}, refs : SUBSET (V!Branches \ {Viewer}), ref : V!Branches,
               entries : EntryLists \cup {<<>>}, found : SUBSET Finds]
  /\ scan.pc # "idle" => scan.file \in FileLists
  /\ scan.pc \in Late \cup {"refs"} => scan.key \in Keys
  /\ scan.pc = "reflog" => scan.ref # Viewer /\ scan.entries \in EntryLists
  /\ scan.pc \notin Late => scan.found = {}

\* The files have not changed since they were read, and their keys say when they did.
FilesSeen ==
  Viewer \in scan.same =>
    /\ scan.pc # "idle" => scan.file = work[Viewer]
    /\ scan.pc = "log" => scan.dirty = {t \in V!Ids : V!Dirty(Viewer, t)}
    /\ scan.pc \in Late \cup {"refs"} => \A t \in V!Ids :
         work[Viewer][t] # V!NoCopy => scan.key[t] = V!Changed(Viewer, t)

\* What was found on a branch that has not changed is there, with the time of its
\* last change; and a branch is still to be read, is being read or has been.
BranchesSeen ==
  /\ scan.pc = "reflog" /\ scan.ref \in scan.same => scan.entries = tree[scan.ref]
  /\ scan.pc = "answer" => scan.refs = {}
  /\ \A c \in scan.found : c.src \in scan.same =>
       V!Seen(tree[c.src][c.task]) /\ c.at = tree[c.src][c.task].at
  /\ scan.pc \in Late => \A b \in scan.same \ {Viewer} :
       \/ b \in scan.refs
       \/ scan.pc = "reflog" /\ scan.ref = b
       \/ \A t \in V!Ids : V!Seen(tree[b][t]) => \E c \in scan.found : c.src = b /\ c.task = t

ScanInv == ScanTypes /\ (~scan.failed => FilesSeen /\ BranchesSeen)

LEMMA ScanStarts ==
  ASSUME V!BranchesAssumption, V!BranchInit PROVE ScanInv
<1>1. scan = V!Idle /\ Viewer \in V!Branches BY DEF V!BranchInit, V!BranchesAssumption, V!Branches
<1> QED BY <1>1 DEF ScanInv, ScanTypes, FilesSeen, BranchesSeen, V!Idle, Late

\* A source that changes is struck from those that have not.
LEMMA OthersMove ==
  ASSUME ScanInv, NEW same \in SUBSET scan.same, scan' = [scan EXCEPT !.same = same],
         \A b \in same : tree'[b] = tree[b], Viewer \in same => work'[Viewer] = work[Viewer]
  PROVE  ScanInv'
<1>1. /\ scan'.same = same /\ scan'.pc = scan.pc /\ scan'.failed = scan.failed
      /\ scan'.file = scan.file /\ scan'.dirty = scan.dirty /\ scan'.key = scan.key
      /\ scan'.refs = scan.refs /\ scan'.ref = scan.ref /\ scan'.entries = scan.entries
      /\ scan'.found = scan.found
  BY DEF ScanInv, ScanTypes
<1>2. ScanTypes' BY <1>1 DEF ScanInv, ScanTypes
<1>3. ASSUME ~scan.failed PROVE FilesSeen'
  <2>1. FilesSeen BY <1>3 DEF ScanInv
  <2> QED BY <1>1, <2>1 DEF FilesSeen, V!Changed, V!Dirty
<1>4. ASSUME ~scan.failed PROVE BranchesSeen'
  <2>1. BranchesSeen BY <1>4 DEF ScanInv
  <2>2. \A b \in scan'.same : b \in scan.same /\ tree'[b] = tree[b] BY <1>1
  <2>3. \A c \in scan'.found : c.src \in scan'.same =>
          V!Seen(tree'[c.src][c.task]) /\ c.at = tree'[c.src][c.task].at
    BY <1>1, <2>1, <2>2 DEF BranchesSeen
  <2>4. scan'.pc \in Late => \A b \in scan'.same \ {Viewer} :
          \/ b \in scan'.refs
          \/ scan'.pc = "reflog" /\ scan'.ref = b
          \/ \A t \in V!Ids : V!Seen(tree'[b][t]) => \E c \in scan'.found : c.src = b /\ c.task = t
    BY <1>1, <2>1, <2>2 DEF BranchesSeen
  <2>5. scan'.pc = "reflog" /\ scan'.ref \in scan'.same => scan'.entries = tree'[scan'.ref]
    BY <1>1, <2>1, <2>2 DEF BranchesSeen
  <2>6. scan'.pc = "answer" => scan'.refs = {} BY <1>1, <2>1 DEF BranchesSeen
  <2> QED BY <2>3, <2>4, <2>5, <2>6 DEF BranchesSeen
<1> QED BY <1>1, <1>2, <1>3, <1>4 DEF ScanInv

LEMMA ScanFilesKeeps ==
  ASSUME V!BranchesAssumption, BranchTypes, ScanInv, V!ScanFiles PROVE ScanInv'
<1>1. /\ scan' = [V!Idle EXCEPT !.pc = "status", !.same = V!Recent(Viewer) \cup {Viewer},
                                !.file = work[Viewer]]
      /\ work' = work /\ Viewer \in Checkouts /\ Viewer \in V!Branches
  BY DEF V!ScanFiles, V!Scanning, V!BranchesAssumption, V!Branches
<1>2. V!Recent(Viewer) \subseteq V!Branches BY DEF V!Recent
<1>3. work[Viewer] \in FileLists BY <1>1 DEF BranchTypes, FileLists
<1> QED BY <1>1, <1>2, <1>3 DEF ScanInv, ScanTypes, FilesSeen, BranchesSeen, V!Idle, Late

LEMMA ScanStatusKeeps ==
  ASSUME V!BranchesAssumption, BranchTypes, ScanInv, V!ScanStatus PROVE ScanInv'
<1>1. /\ scan.pc = "status" /\ work' = work /\ tree' = tree
      /\ \/ scan' = [scan EXCEPT !.pc = "log", !.dirty = {t \in V!Ids : V!Dirty(Viewer, t)}]
         \/ scan' = [scan EXCEPT !.pc = "refs", !.failed = TRUE, !.key = [t \in V!Ids |-> V!Inf]]
  BY DEF V!ScanStatus, V!Scanning
<1>2. [t \in V!Ids |-> V!Inf] \in Keys BY DEF Keys, V!Inf, V!BranchesAssumption
<1>3. CASE scan' = [scan EXCEPT !.pc = "log", !.dirty = {t \in V!Ids : V!Dirty(Viewer, t)}]
  <2>1. {t \in V!Ids : V!Dirty(Viewer, t)}' = {t \in V!Ids : V!Dirty(Viewer, t)}
    BY <1>1 DEF V!Dirty
  <2>2. ScanTypes' BY <1>1, <1>3 DEF ScanInv, ScanTypes, Late
  <2>3. ASSUME ~scan.failed PROVE FilesSeen' /\ BranchesSeen'
    BY <1>1, <1>3, <2>1, <2>3 DEF ScanInv, ScanTypes, FilesSeen, BranchesSeen, Late
  <2>4. scan'.failed = scan.failed BY <1>3 DEF ScanInv, ScanTypes
  <2> QED BY <2>2, <2>3, <2>4 DEF ScanInv
<1>4. CASE scan' = [scan EXCEPT !.pc = "refs", !.failed = TRUE, !.key = [t \in V!Ids |-> V!Inf]]
  BY <1>1, <1>2, <1>4 DEF ScanInv, ScanTypes, Late
<1> QED BY <1>1, <1>3, <1>4

LEMMA ScanLogKeeps ==
  ASSUME V!BranchesAssumption, BranchTypes, ScanInv, V!ScanLog PROVE ScanInv'
<1> DEFINE key == [t \in V!Ids |-> IF t \in scan.dirty \/ tree[Viewer][t] = V!NoCopy THEN V!Inf
                                                                        ELSE tree[Viewer][t].at]
<1>1. /\ scan.pc = "log" /\ work' = work /\ tree' = tree
      /\ \/ scan' = [scan EXCEPT !.pc = "refs", !.key = key]
         \/ scan' = [scan EXCEPT !.pc = "refs", !.failed = TRUE, !.key = [t \in V!Ids |-> V!Inf]]
  BY DEF V!ScanLog, V!Scanning
<1>2. [t \in V!Ids |-> V!Inf] \in Keys BY DEF Keys, V!Inf, V!BranchesAssumption
<1>3. \A t \in V!Ids : tree[Viewer][t] # V!NoCopy => tree[Viewer][t].at \in 0..MaxTime
  BY DEF BranchTypes, BranchCopies, V!BranchesAssumption, V!Branches
<1>4. key \in Keys BY <1>3 DEF Keys, V!Inf, V!BranchesAssumption
<1>5. CASE scan' = [scan EXCEPT !.pc = "refs", !.key = key]
  <2>1. ASSUME ~scan.failed, Viewer \in scan.same, NEW t \in V!Ids, work[Viewer][t] # V!NoCopy
        PROVE  key[t] = V!Changed(Viewer, t)
    <3>1. scan.dirty = {u \in V!Ids : V!Dirty(Viewer, u)} BY <1>1, <2>1 DEF ScanInv, FilesSeen
    <3> QED BY <2>1, <3>1 DEF V!Changed, V!Dirty
  <2> HIDE DEF key
  <2>2. ScanTypes' BY <1>1, <1>4, <1>5 DEF ScanInv, ScanTypes, Late
  <2>3. /\ scan'.failed = scan.failed /\ scan'.same = scan.same /\ scan'.key = key
        /\ scan'.pc = "refs" /\ scan'.file = scan.file /\ scan'.found = {}
    BY <1>1, <1>5 DEF ScanInv, ScanTypes, Late
  <2>4. ASSUME ~scan.failed, Viewer \in scan.same, NEW t \in V!Ids, work'[Viewer][t] # V!NoCopy
        PROVE  scan'.key[t] = V!Changed(Viewer, t)'
    BY <1>1, <2>1, <2>3, <2>4 DEF V!Changed, V!Dirty
  <2>5. ASSUME ~scan.failed PROVE FilesSeen'
    BY <1>1, <2>3, <2>4, <2>5 DEF ScanInv, FilesSeen
  <2>6. BranchesSeen' BY <2>3 DEF BranchesSeen, Late
  <2> QED BY <2>2, <2>3, <2>5, <2>6 DEF ScanInv
<1>6. CASE scan' = [scan EXCEPT !.pc = "refs", !.failed = TRUE, !.key = [t \in V!Ids |-> V!Inf]]
  BY <1>1, <1>2, <1>6 DEF ScanInv, ScanTypes, Late
<1> QED BY <1>1, <1>5, <1>6

LEMMA ScanRefsKeeps ==
  ASSUME V!BranchesAssumption, BranchTypes, ScanInv, V!ScanRefs PROVE ScanInv'
<1>1. /\ scan.pc = "refs" /\ work' = work /\ tree' = tree
      /\ \/ scan' = [scan EXCEPT !.pc = "tree", !.refs = V!Recent(Viewer),
                                 !.same = @ \cap ({Viewer} \cup V!Recent(Viewer))]
         \/ scan' = [scan EXCEPT !.pc = "tree", !.failed = TRUE]
  BY DEF V!ScanRefs, V!Scanning
<1>2. V!Recent(Viewer) \subseteq V!Branches \ {Viewer} BY DEF V!Recent
<1>3. CASE scan' = [scan EXCEPT !.pc = "tree", !.refs = V!Recent(Viewer),
                                !.same = @ \cap ({Viewer} \cup V!Recent(Viewer))]
  <2>1. /\ scan'.failed = scan.failed /\ scan'.same = scan.same \cap ({Viewer} \cup V!Recent(Viewer))
        /\ scan'.key = scan.key /\ scan'.pc = "tree" /\ scan'.file = scan.file /\ scan'.found = {}
        /\ scan'.refs = V!Recent(Viewer)
    BY <1>1, <1>3 DEF ScanInv, ScanTypes, Late
  <2>2. ScanTypes' BY <1>1, <1>2, <1>3 DEF ScanInv, ScanTypes, Late
  <2>3. ASSUME ~scan.failed PROVE FilesSeen'
    <3>1. FilesSeen BY <2>3 DEF ScanInv
    <3> QED BY <1>1, <2>1, <3>1 DEF FilesSeen, V!Changed, V!Dirty
  <2>4. BranchesSeen' BY <2>1 DEF BranchesSeen
  <2> QED BY <2>1, <2>2, <2>3, <2>4 DEF ScanInv
<1>4. CASE scan' = [scan EXCEPT !.pc = "tree", !.failed = TRUE]
  BY <1>1, <1>4 DEF ScanInv, ScanTypes, Late
<1> QED BY <1>1, <1>3, <1>4

LEMMA ScanTreeKeeps ==
  ASSUME V!BranchesAssumption, BranchTypes, ScanInv, V!ScanTree PROVE ScanInv'
<1>1. scan.pc = "tree" /\ work' = work /\ tree' = tree BY DEF V!ScanTree, V!Scanning
<1>2. CASE scan.refs = {} /\ scan' = [scan EXCEPT !.pc = "answer"]
  <2>1. /\ scan'.failed = scan.failed /\ scan'.same = scan.same /\ scan'.refs = {}
        /\ scan'.key = scan.key /\ scan'.pc = "answer" /\ scan'.file = scan.file
        /\ scan'.found = scan.found
    BY <1>2 DEF ScanInv, ScanTypes
  <2>2. ScanTypes' BY <1>1, <1>2 DEF ScanInv, ScanTypes, Late
  <2>3. ASSUME ~scan.failed PROVE FilesSeen'
    <3>1. FilesSeen BY <2>3 DEF ScanInv
    <3> QED BY <1>1, <2>1, <3>1 DEF FilesSeen, V!Changed, V!Dirty, Late
  <2>4. ASSUME ~scan.failed PROVE BranchesSeen'
    <3>1. BranchesSeen BY <2>4 DEF ScanInv
    <3> QED BY <1>1, <1>2, <2>1, <3>1 DEF BranchesSeen, Late
  <2> QED BY <2>1, <2>2, <2>3, <2>4 DEF ScanInv
<1>3. ASSUME NEW b \in scan.refs,
             scan' = [scan EXCEPT !.pc = "reflog", !.refs = @ \ {b}, !.ref = b, !.entries = tree[b]]
      PROVE  ScanInv'
  <2>1. b \in V!Branches \ {Viewer} BY DEF ScanInv, ScanTypes
  <2>2. tree[b] \in EntryLists BY <2>1 DEF BranchTypes, EntryLists
  <2>3. /\ scan'.failed = scan.failed /\ scan'.same = scan.same /\ scan'.refs = scan.refs \ {b}
        /\ scan'.key = scan.key /\ scan'.pc = "reflog" /\ scan'.file = scan.file
        /\ scan'.found = scan.found /\ scan'.ref = b /\ scan'.entries = tree[b]
    BY <1>3 DEF ScanInv, ScanTypes
  <2>4. ScanTypes' BY <1>1, <1>3, <2>1, <2>2 DEF ScanInv, ScanTypes, Late
  <2>5. ASSUME ~scan.failed PROVE FilesSeen'
    <3>1. FilesSeen BY <2>5 DEF ScanInv
    <3> QED BY <1>1, <2>3, <3>1 DEF FilesSeen, V!Changed, V!Dirty, Late
  <2>6. ASSUME ~scan.failed PROVE BranchesSeen'
    <3>1. BranchesSeen BY <2>6 DEF ScanInv
    <3> QED BY <1>1, <2>3, <3>1 DEF BranchesSeen, Late
  <2> QED BY <2>3, <2>4, <2>5, <2>6 DEF ScanInv
<1>4. ASSUME NEW b \in scan.refs, scan' = [scan EXCEPT !.refs = @ \ {b}, !.failed = TRUE]
      PROVE  ScanInv'
  BY <1>1, <1>4 DEF ScanInv, ScanTypes, Late
<1> QED BY <1>1, <1>2, <1>3, <1>4 DEF V!ScanTree

\* What git log tells of the branch that is read.
LEMMA ScanRefLogKeeps ==
  ASSUME V!BranchesAssumption, ~Below, BranchTypes, ScanInv, V!ScanRefLog PROVE ScanInv'
<1> DEFINE b == scan.ref
           stamps == [t \in V!Ids |-> V!Stamp(b, t)]
           tips   == [t \in V!Ids |-> tip[b]]
<1>1. /\ scan.pc = "reflog" /\ work' = work /\ tree' = tree
      /\ \/ scan' = [scan EXCEPT !.pc = "tree", !.found = @ \cup V!Found(stamps)]
         \/ scan' = [scan EXCEPT !.pc = "tree", !.failed = TRUE, !.found = @ \cup V!Found(tips)]
  BY DEF V!ScanRefLog, V!Scanning
<1>2. b \in V!Branches \ {Viewer} /\ scan.entries \in EntryLists BY <1>1 DEF ScanInv, ScanTypes
<1>3. \A t \in V!Ids : /\ tip[b] \in 0..MaxTime
                       /\ tree[b][t] # V!NoCopy => tree[b][t].at \in 0..MaxTime
  BY <1>2 DEF BranchTypes, BranchCopies
<1>4. stamps \in [V!Ids -> 0..MaxTime] /\ tips \in [V!Ids -> 0..MaxTime]
  BY <1>2, <1>3 DEF V!Stamp
<1>5. ASSUME NEW at \in [V!Ids -> 0..MaxTime] PROVE V!Found(at) \subseteq Finds
  <2>1. \A t \in V!Ids : V!Seen(scan.entries[t]) => scan.entries[t].rev \in Nat
    BY <1>2 DEF EntryLists, BranchCopies, V!Seen
  <2> QED BY <1>2, <2>1 DEF Finds, V!Found
<1>6. CASE scan' = [scan EXCEPT !.pc = "tree", !.found = @ \cup V!Found(stamps)]
  <2>0. V!Found(stamps) \subseteq Finds BY <1>4, <1>5
  <2>1. /\ scan'.failed = scan.failed /\ scan'.same = scan.same /\ scan'.refs = scan.refs
        /\ scan'.key = scan.key /\ scan'.pc = "tree" /\ scan'.file = scan.file
        /\ scan'.found = scan.found \cup V!Found(stamps)
    BY <1>6 DEF ScanInv, ScanTypes
  <2>2. ScanTypes'
    <3> HIDE DEF stamps
    <3> QED BY <1>1, <1>6, <2>0 DEF ScanInv, ScanTypes, Late
  <2>3. ASSUME ~scan.failed PROVE FilesSeen'
    <3>1. FilesSeen BY <2>3 DEF ScanInv
    <3> HIDE DEF stamps
    <3> QED BY <1>1, <2>1, <3>1 DEF FilesSeen, V!Changed, V!Dirty, Late
  <2>4. ASSUME ~scan.failed, b \in scan.same PROVE scan.entries = tree[b]
    BY <1>1, <2>4 DEF ScanInv, BranchesSeen
  <2>5. ASSUME ~scan.failed, NEW c \in V!Found(stamps), c.src \in scan.same
        PROVE  V!Seen(tree[c.src][c.task]) /\ c.at = tree[c.src][c.task].at
    <3>1. PICK t \in V!Ids : /\ V!Seen(scan.entries[t]) /\ c.src = b /\ c.task = t
                             /\ c.at = V!Stamp(b, t)
      BY DEF V!Found
    <3>2. scan.entries = tree[b] BY <2>4, <2>5, <3>1
    <3> QED BY <3>1, <3>2 DEF V!Stamp, V!Seen
  <2>6. ASSUME ~scan.failed, b \in scan.same, NEW t \in V!Ids, V!Seen(tree[b][t])
        PROVE  \E c \in V!Found(stamps) : c.src = b /\ c.task = t
    <3>1. V!Seen(scan.entries[t]) BY <2>4, <2>6
    <3>2. [src |-> b, task |-> t, rev |-> scan.entries[t].rev, at |-> stamps[t]] \in V!Found(stamps)
      BY <3>1 DEF V!Found
    <3> QED BY <3>2
  <2>7. ASSUME ~scan.failed PROVE BranchesSeen'
    <3>1. BranchesSeen BY <2>7 DEF ScanInv
    <3> HIDE DEF stamps
    <3>2. \A c \in scan'.found : c.src \in scan'.same =>
            V!Seen(tree'[c.src][c.task]) /\ c.at = tree'[c.src][c.task].at
      BY <1>1, <2>1, <2>5, <2>7, <3>1 DEF BranchesSeen
    <3>3. ASSUME NEW a \in scan'.same \ {Viewer}, a \notin scan'.refs, NEW t \in V!Ids,
                 V!Seen(tree'[a][t])
          PROVE  \E c \in scan'.found : c.src = a /\ c.task = t
      <4>1. CASE a = b BY <1>1, <2>1, <2>6, <2>7, <3>3, <4>1
      <4>2. CASE a # b BY <1>1, <2>1, <3>1, <3>3, <4>2 DEF BranchesSeen, Late
      <4> QED BY <4>1, <4>2
    <3> QED BY <2>1, <3>2, <3>3 DEF BranchesSeen, Late
  <2> QED BY <2>1, <2>2, <2>3, <2>7 DEF ScanInv
<1>7. CASE scan' = [scan EXCEPT !.pc = "tree", !.failed = TRUE, !.found = @ \cup V!Found(tips)]
  <2>1. V!Found(tips) \subseteq Finds BY <1>4, <1>5
  <2> HIDE DEF tips
  <2> QED BY <1>1, <1>7, <2>1 DEF ScanInv, ScanTypes, Late
<1> QED BY <1>1, <1>6, <1>7

LEMMA BranchScanKeeps ==
  ASSUME V!BranchesAssumption, ~Below, BranchTypes, ScanInv, [V!BranchNext]_V!branchVars
  PROVE  ScanInv'
<1> DEFINE Strike(same) == /\ same \in SUBSET scan.same /\ scan' = [scan EXCEPT !.same = same]
                           /\ \A b \in same : tree'[b] = tree[b]
                           /\ Viewer \in same => work'[Viewer] = work[Viewer]
<1>0. /\ scan = [scan EXCEPT !.same = scan.same] /\ scan.same \subseteq V!Branches
      /\ Viewer \in Checkouts /\ Viewer \in V!Branches
  BY DEF ScanInv, ScanTypes, V!BranchesAssumption, V!Branches
<1>1. ASSUME UNCHANGED <<work, tree, scan>> PROVE Strike(scan.same)
  BY <1>0, <1>1
<1>2. CASE UNCHANGED V!branchVars
  BY <1>1, <1>2, OthersMove DEF V!branchVars
<1>3. ASSUME NEW w \in Checkouts, NEW t \in V!Ids, NEW dir \in V!Dirs, V!Edit(w, t, dir)
      PROVE  Strike(scan.same \ {w})
  BY <1>0, <1>3 DEF V!Edit, V!Touched, BranchTypes
<1>4. ASSUME NEW w \in Checkouts, V!Commit(w) PROVE Strike(scan.same \ {w})
  BY <1>0, <1>4 DEF V!Commit, V!Touched, BranchTypes
<1>5. ASSUME NEW w \in Checkouts, NEW b \in Spare, V!Fork(b, w) PROVE Strike(scan.same \ {b})
  BY <1>0, <1>5 DEF V!Fork, V!Touched, BranchTypes
<1>6. ASSUME NEW w \in Checkouts, V!WriteNew(w) PROVE Strike(scan.same \ {w})
  BY <1>0, <1>6 DEF V!WriteNew, V!Creating, V!Touched, BranchTypes
<1>7. ASSUME NEW w \in Checkouts, V!BeginCreate(w) \/ V!ReadRefs(w) \/ V!ReadWorktrees(w)
      PROVE  Strike(scan.same)
  BY <1>1, <1>7 DEF V!BeginCreate, V!ReadRefs, V!ReadWorktrees, V!Creating
<1>8. ASSUME V!Advance \/ \E b \in V!Branches : V!CommitOther(b) PROVE Strike(scan.same)
  BY <1>1, <1>8 DEF V!Advance, V!CommitOther
<1>9. CASE V!Answered
  <2>1. scan' = V!Idle /\ Viewer \in V!Branches BY <1>0, <1>9 DEF V!Answered
  <2> QED BY <2>1 DEF ScanInv, ScanTypes, FilesSeen, BranchesSeen, V!Idle, Late
<1>10. CASE V!ScanFiles \/ V!ScanStatus \/ V!ScanLog \/ V!ScanRefs \/ V!ScanTree \/ V!ScanRefLog
  BY <1>10, ScanFilesKeeps, ScanStatusKeeps, ScanLogKeeps, ScanRefsKeeps, ScanTreeKeeps, ScanRefLogKeeps
<1>11. ASSUME NEW same, Strike(same) PROVE ScanInv'
  BY <1>11, OthersMove
<1> HIDE DEF Strike
<1> QED BY <1>2, <1>3, <1>4, <1>5, <1>6, <1>7, <1>8, <1>9, <1>10, <1>11 DEF V!BranchNext

-----------------------------------------------------------------------------
\* Of candidates there is always a newest.
LEMMA NewestIs ==
  ASSUME NEW S, S # {}, NEW Top \in Nat, \A c \in S : c.at \in 0..Top
  PROVE  \E c \in S : \A d \in S : d.at <= c.at
<1> DEFINE ages == {Top - c.at : c \in S}
<1>1. ages \subseteq Nat /\ ages # {} OBVIOUS
<1>2. PICK n \in ages : \A m \in ages : ~(<<m, n>> \in OpToRel(<, Nat))
  BY <1>1, WFMin, NatLessThanWellFounded
<1>3. \A m \in ages : ~(m < n) BY <1>1, <1>2 DEF OpToRel
<1>4. PICK c \in S : n = Top - c.at OBVIOUS
<1>5. \A d \in S : ~(Top - d.at < Top - c.at) BY <1>3, <1>4
<1> QED BY <1>5

\* The winner is a candidate, and none is newer.
LEMMA WinnerIsNewest ==
  ASSUME V!BranchesAssumption, ScanTypes, scan.pc = "answer", NEW t \in V!Ids, V!Candidates(t) # {}
  PROVE  /\ V!Winner(t) \in V!Candidates(t)
         /\ \A d \in V!Candidates(t) : d.at <= V!Winner(t).at
<1> DEFINE newest == {c \in V!Candidates(t) : \A d \in V!Candidates(t) : d.at <= c.at}
           others == {c \in newest : c.src # Viewer}
<1>1. scan.key[t] \in 0..V!Inf /\ \A c \in scan.found : c.at \in 0..V!Inf
  BY DEF ScanTypes, Keys, Finds, Late, V!Inf, V!BranchesAssumption
<1>2. \A c \in V!Candidates(t) : c.at \in 0..V!Inf
  BY <1>1 DEF V!Candidates
<1>3. V!Inf \in Nat BY DEF V!Inf, V!BranchesAssumption
<1>4. newest # {} BY <1>2, <1>3, NewestIs
<1>5. \E c \in newest : others # {} => c \in others BY <1>4
<1>6. V!Winner(t) \in newest BY <1>5 DEF V!Winner
<1> QED BY <1>6

\* When a scan answers, an unchanged source that has a task is among its candidates,
\* with the time of its last change; and a candidate of one has that time.
LEMMA CandidatesAreKnown ==
  ASSUME V!BranchesAssumption, ScanInv, scan.pc = "answer", ~scan.failed, NEW t \in V!Ids
  PROVE  /\ \A s \in scan.same : V!Has(s, t) =>
              \E c \in V!Candidates(t) : c.src = s
         /\ \A c \in V!Candidates(t) : c.src \in scan.same => c.at = V!Changed(c.src, t)
<1>1. FilesSeen /\ BranchesSeen /\ ScanTypes BY DEF ScanInv
<1>2. ASSUME Viewer \in scan.same
      PROVE  scan.file = work[Viewer] /\ (V!Seen(work[Viewer][t]) => scan.key[t] = V!Changed(Viewer, t))
  BY <1>1, <1>2 DEF FilesSeen, Late, V!Seen
<1>3. ASSUME NEW s \in scan.same, V!Has(s, t) PROVE \E c \in V!Candidates(t) : c.src = s
  <2>1. CASE s = Viewer
    <3>1. V!Seen(scan.file[t]) BY <1>2, <1>3, <2>1 DEF V!Has
    <3>2. [src |-> Viewer, task |-> t, rev |-> scan.file[t].rev, at |-> scan.key[t]] \in V!Candidates(t)
      BY <3>1 DEF V!Candidates
    <3> QED BY <2>1, <3>2
  <2>2. CASE s # Viewer
    <3>1. PICK c \in scan.found : c.src = s /\ c.task = t
      BY <1>1, <1>3, <2>2 DEF BranchesSeen, Late, V!Has
    <3> QED BY <3>1 DEF V!Candidates
  <2> QED BY <2>1, <2>2
<1>4. ASSUME NEW c \in V!Candidates(t), c.src \in scan.same PROVE c.at = V!Changed(c.src, t)
  <2>1. CASE c \in scan.found /\ c.task = t
    <3>1. c.at = tree[c.src][t].at /\ c.src # Viewer
      BY <1>1, <1>4, <2>1 DEF BranchesSeen, ScanTypes, Finds
    <3> QED BY <3>1 DEF V!Changed
  <2>2. CASE V!Seen(scan.file[t]) /\ c.src = Viewer /\ c.at = scan.key[t]
    BY <1>2, <1>4, <2>2
  <2> QED BY <2>1, <2>2 DEF V!Candidates
<1> QED BY <1>3, <1>4

\* If the project is the root of its repository, a scan that git has not failed shows
\* of each task the copy that was changed last, of those in the files and on the
\* recent branches that have not changed meanwhile (core/repository.py,
\* _visible_task_candidates_from_markdown).
THEOREM ShownCopiesAreLatest ==
  ASSUME V!BranchesAssumption, ~Below PROVE V!BranchSpec => []V!ShowsLatestCopy
<1> DEFINE Inv == BranchTypes /\ ScanInv
<1>1. V!BranchInit => Inv BY BranchInitTypes, ScanStarts
<1>2. Inv /\ [V!BranchNext]_V!branchVars => Inv' BY BranchTypesKeep, BranchScanKeeps
<1>3. Inv => V!BranchTypeOK
  BY DEF BranchTypes, FileCopies, BranchCopies, ScanInv, ScanTypes, V!BranchTypeOK
<1>4. Inv => V!VisibleIsLatest
  <2> SUFFICES ASSUME ScanInv, scan.pc = "answer", ~scan.failed, NEW t \in V!Ids
      PROVE LET sources == {s \in scan.same \cap (V!Recent(Viewer) \cup {Viewer}) : V!Has(s, t)} IN
              /\ sources # {} => V!Candidates(t) # {}
              /\ V!Candidates(t) # {} /\ V!Winner(t).src \in scan.same =>
                   \A s \in sources : V!Changed(s, t) <= V!Changed(V!Winner(t).src, t)
    BY DEF V!VisibleIsLatest
  <2>1. \A s \in scan.same : V!Has(s, t) => \E c \in V!Candidates(t) : c.src = s /\ c.at = V!Changed(s, t)
    BY CandidatesAreKnown
  <2>2. ASSUME V!Candidates(t) # {}
        PROVE  V!Winner(t) \in V!Candidates(t) /\ \A d \in V!Candidates(t) : d.at <= V!Winner(t).at
    BY <2>2, WinnerIsNewest DEF ScanInv
  <2>3. ASSUME V!Candidates(t) # {}, V!Winner(t).src \in scan.same
        PROVE  V!Winner(t).at = V!Changed(V!Winner(t).src, t)
    BY <2>2, <2>3, CandidatesAreKnown
  <2> QED BY <2>1, <2>2, <2>3
<1> HIDE DEF Inv
<1>5. V!BranchSpec => []Inv BY <1>1, <1>2, PTL DEF V!BranchSpec
<1>6. Inv => V!ShowsLatestCopy BY <1>3, <1>4 DEF V!ShowsLatestCopy
<1> QED BY <1>5, <1>6, PTL


-----------------------------------------------------------------------------
(* The browser: a page that shows an older board will be told, and an      *)
(* answer says what was done.                                              *)
W == INSTANCE Browser WITH
       MaxId <- LastId,
       task <- x1, milestone <- x2, broken <- x3, lock <- x4, request <- x5, page <- x6, service <- x7,
       changes <- x8, faults <- x9

task      == x1
milestone == x2
broken    == x3
lock      == x4
request   == x5
page      == x6
service   == x7
changes   == x8
faults    == x9

USE DEF task, milestone, lock, broken, faults, page, service, changes, request


CardViews == [rev : Int, refers : BOOLEAN, mutable : BOOLEAN]
Boards    == [cards : [W!Ids -> CardViews], milestone : BOOLEAN]
Views     == [shown : Boards, board : Boards, dialog : BOOLEAN, pending : BOOLEAN,
              feed : {"loading", "events", "poll", "closed", "gone"}]
TaskFile  == [place : W!Places, rev : Nat, refers : BOOLEAN]
TaskFiles == [W!Ids -> TaskFile]
Stages    == {"idle", "lock", "check", "write", "schedule", "payload", "answered"}
PageRequests ==
  [kind : W!Kinds \cup {"none"}, id : W!Ids \cup {0}, refers : BOOLEAN, base : Nat, pc : Stages,
   handling : {"none", "keep", "clear"}, done : BOOLEAN, answer : W!Answers, heard : BOOLEAN]

BrowserTypes ==
  /\ task \in TaskFiles
  /\ milestone \in BOOLEAN /\ broken \in {"none", "config", "policy"} /\ lock \in Pages \cup {NoPage}
  /\ page \in [Pages -> Views] /\ request \in [Pages -> PageRequests]
  /\ service \in [asked : BOOLEAN, stops : 0..1, up : BOOLEAN]

\* A page has loaded the board whose revision it keeps, and gives up its events only
\* when the service ends.
PagesInv ==
  \A p \in Pages : W!Alive(p) => /\ page[p].shown = page[p].board
                                 /\ page[p].feed = "closed" => service.asked

\* What a request that is being answered has found, and that it holds the lock.
RequestInv(r, p) ==
  /\ r.pc \in {"check", "write"} => lock = p /\ r.kind # "shutdown"
  /\ r.pc \in {"lock", "check", "write", "schedule"} =>
       r.kind # "none" /\ ~r.done /\ r.answer = "none" /\ r.id \in W!Ids
  /\ r.pc = "schedule" => r.kind = "shutdown"
  /\ r.pc = "payload" => r.done /\ r.answer = "none"
  /\ r.pc = "write" /\ r.kind \in {"edit", "check"} => task[r.id].rev = r.base
  /\ r.pc = "write" /\ r.kind = "remove" /\ r.handling = "none" => W!References = {}
  /\ r.answer \in {"bad", "missing", "conflict"} => ~r.done
  /\ r.answer = "ok" /\ r.kind # "shutdown" => r.done

RequestsInv == \A p \in Pages : RequestInv(request[p], p)

\* One request has the service stopped.
ShutdownInv ==
  /\ service.stops = 1 => service.asked
  /\ \A p \in Pages : W!At(p, "schedule") =>
       /\ service.asked /\ service.stops = 0
       /\ \A q \in Pages \ {p} : ~W!At(q, "schedule")

BrowserInv == BrowserTypes /\ PagesInv /\ RequestsInv /\ ShutdownInv
-----------------------------------------------------------------------------
LEMMA BoardTypes ==
  ASSUME BrowserTypes PROVE W!Board \in Boards /\ W!NoBoard \in Boards /\ W!NewPage \in Views
<1>1. ASSUME NEW i \in W!Ids PROVE W!Card(i) \in CardViews
  BY DEF BrowserTypes, TaskFiles, TaskFile, W!Card, W!NoCard, CardViews, W!Places
<1>2. W!Board \in Boards BY <1>1 DEF W!Board, Boards, BrowserTypes
<1>3. W!NoBoard \in Boards BY DEF W!NoBoard, Boards, W!NoCard, CardViews
<1> QED BY <1>2, <1>3 DEF W!NewPage, Views

LEMMA RequestForms ==
  ASSUME NEW q \in PageRequests
  PROVE  /\ \A s \in Stages : [q EXCEPT !.pc = s] \in PageRequests
         /\ \A s \in Stages, a \in W!Answers : [q EXCEPT !.pc = s, !.answer = a] \in PageRequests
         /\ \A n \in Nat : [q EXCEPT !.pc = "write", !.base = n] \in PageRequests
         /\ [q EXCEPT !.pc = "payload", !.done = TRUE] \in PageRequests
         /\ [q EXCEPT !.heard = FALSE] \in PageRequests
BY DEF PageRequests, Stages

LEMMA TaskForms ==
  ASSUME NEW f \in TaskFile
  PROVE  /\ \A n \in Nat, b \in BOOLEAN : [f EXCEPT !.rev = n, !.refers = b] \in TaskFile
         /\ \A n \in Nat : [f EXCEPT !.rev = n] \in TaskFile
         /\ \A place \in W!Places : [f EXCEPT !.place = place] \in TaskFile
         /\ \A b \in BOOLEAN : [f EXCEPT !.refers = b] \in TaskFile
BY DEF TaskFile

LEMMA BrowserStarts ==
  ASSUME W!BrowserAssumption, W!BrowserInit PROVE BrowserInv
<1>1. BrowserTypes
  <2>1. task \in TaskFiles
    <3>1. /\ [place |-> "local", rev |-> 0, refers |-> FALSE] \in TaskFile
          /\ [place |-> "none", rev |-> 0, refers |-> FALSE] \in TaskFile
      BY DEF TaskFile, W!Places
    <3> QED BY <3>1 DEF W!BrowserInit, TaskFiles
  <2>2. W!NoRequest \in PageRequests BY DEF W!NoRequest, PageRequests, Stages, W!Answers
  <2>3. W!NoBoard \in Boards BY DEF W!NoBoard, Boards, W!NoCard, CardViews
  <2>4. W!NewPage \in Views BY <2>3 DEF W!NewPage, Views
  <2> QED BY <2>1, <2>2, <2>4 DEF W!BrowserInit, BrowserTypes
<1> QED BY <1>1 DEF W!BrowserInit, BrowserInv, PagesInv, RequestsInv, RequestInv, ShutdownInv, W!NoRequest,
                    W!NewPage, W!Alive, W!At

\* A page loads itself again, or is as it was.
LEMMA PageMoves ==
  ASSUME BrowserInv, NEW p \in Pages, NEW v \in Views, page' = [page EXCEPT ![p] = v],
         v.feed \in {"events", "poll", "closed"} => v.shown = v.board,
         v.feed = "closed" => service.asked,
         UNCHANGED <<task, milestone, broken, lock, service>>,
         request' = request \/ request' = [request EXCEPT ![p].heard = FALSE]
  PROVE  BrowserInv'
<1>1. page' \in [Pages -> Views] BY DEF BrowserInv, BrowserTypes
<1>2. \A q \in Pages : page'[q] = IF q = p THEN v ELSE page[q] BY DEF BrowserInv, BrowserTypes
<1>3. PagesInv' BY <1>2 DEF BrowserInv, PagesInv, W!Alive
<1>4. request' \in [Pages -> PageRequests]
  <2>1. request[p] \in PageRequests BY DEF BrowserInv, BrowserTypes
  <2>3. [request[p] EXCEPT !.heard = FALSE] \in PageRequests BY <2>1, RequestForms
  <2>2. request' = request \/ request' = [request EXCEPT ![p] = [request[p] EXCEPT !.heard = FALSE]]
    BY DEF BrowserInv, BrowserTypes
  <2> QED BY <2>2, <2>3 DEF BrowserInv, BrowserTypes
<1>5. \A q \in Pages : request'[q] = request[q] \/ request'[q] = [request[q] EXCEPT !.heard = FALSE]
  BY DEF BrowserInv, BrowserTypes
<1>6. \A q \in Pages : /\ request'[q].pc = request[q].pc /\ request'[q].kind = request[q].kind
                       /\ request'[q].done = request[q].done /\ request'[q].answer = request[q].answer
                       /\ request'[q].id = request[q].id /\ request'[q].base = request[q].base
                       /\ request'[q].handling = request[q].handling
  BY <1>5 DEF BrowserInv, BrowserTypes, PageRequests
<1>7. W!References' = W!References BY DEF W!References
<1>8. RequestsInv' BY <1>6, <1>7 DEF BrowserInv, RequestsInv, RequestInv
<1>9. ShutdownInv' BY <1>6 DEF BrowserInv, ShutdownInv, W!At
<1> QED BY <1>1, <1>3, <1>4, <1>8, <1>9 DEF BrowserInv, BrowserTypes

LEMMA PagesKeep ==
  ASSUME W!BrowserAssumption, BrowserInv, NEW p \in Pages,
         \/ W!Load(p) \/ W!Open(p) \/ W!OpenDialog(p) \/ W!CloseDialog(p) \/ W!BoardEvent(p) \/ W!Poll(p)
  PROVE  BrowserInv'
<1>1. W!Board \in Boards /\ W!NewPage \in Views /\ page[p] \in Views
      /\ (W!Alive(p) => page[p].shown = page[p].board)
      /\ (page[p].feed = "closed" => service.asked)
  BY BoardTypes DEF BrowserInv, BrowserTypes, PagesInv, W!Alive
<1>2. ASSUME W!Reload(p), UNCHANGED <<task, milestone, broken, lock, service>> PROVE BrowserInv'
  <2>1. W!NewPage.feed = "loading" BY DEF W!NewPage
  <2> QED BY <1>1, <1>2, <2>1, PageMoves DEF W!Reload
<1>3. CASE W!Load(p)
  <2>1. UNCHANGED <<task, milestone, broken, lock, service, request>> BY <1>3 DEF W!Load, W!project
  <2>2. CASE broken = "none"
    <3> DEFINE v == [W!NewPage EXCEPT !.shown = W!Revision(p \in Filtered), !.board = W!Board,
                                      !.feed = "events"]
    <3>1. v \in Views /\ v.shown = v.board /\ v.feed = "events"
      BY <1>1 DEF Views, W!NewPage, W!Revision
    <3>2. page' = [page EXCEPT ![p] = v] BY <1>3, <2>2 DEF W!Load
    <3> HIDE DEF v
    <3> QED BY <2>1, <3>1, <3>2, PageMoves
  <2>3. CASE broken # "none"
    <3> DEFINE v == [page[p] EXCEPT !.feed = "gone"]
    <3>1. v \in Views /\ v.feed = "gone" BY <1>1 DEF Views
    <3>2. page' = [page EXCEPT ![p] = v] BY <1>3, <2>3 DEF W!Load, BrowserInv, BrowserTypes
    <3> HIDE DEF v
    <3> QED BY <2>1, <3>1, <3>2, PageMoves
  <2> QED BY <2>2, <2>3
<1>4. CASE W!Open(p) BY <1>2, <1>4 DEF W!Open, W!project
<1>5. ASSUME NEW b \in BOOLEAN, NEW d \in BOOLEAN, NEW feed \in {"events", "poll", "closed"},
             page' = [page EXCEPT ![p] = [page[p] EXCEPT !.dialog = b, !.pending = d, !.feed = feed]],
             W!Alive(p), feed = "closed" => service.asked,
             UNCHANGED <<task, milestone, broken, lock, service, request>>
      PROVE  BrowserInv'
  <2> DEFINE v == [page[p] EXCEPT !.dialog = b, !.pending = d, !.feed = feed]
  <2>1. v \in Views /\ v.shown = v.board /\ v.feed = feed BY <1>1, <1>5 DEF Views
  <2>2. page' = [page EXCEPT ![p] = v] BY <1>5
  <2> HIDE DEF v
  <2> QED BY <1>5, <2>1, <2>2, PageMoves
<1>6. CASE W!OpenDialog(p)
  <2>1. page' = [page EXCEPT ![p] = [page[p] EXCEPT !.dialog = TRUE, !.pending = page[p].pending,
                                                   !.feed = page[p].feed]]
    BY <1>1, <1>6 DEF W!OpenDialog, BrowserInv, BrowserTypes, Views
  <2>2. page[p].pending \in BOOLEAN BY <1>1 DEF Views
  <2> QED BY <1>1, <1>5, <1>6, <2>1, <2>2 DEF W!OpenDialog, W!project, W!Alive
<1>7. ASSUME UNCHANGED <<task, milestone, broken, lock, service, page, request>> PROVE BrowserInv'
  <2>1. page' = [page EXCEPT ![p] = page[p]] BY <1>7 DEF BrowserInv, BrowserTypes
  <2> QED BY <1>1, <1>7, <2>1, PageMoves DEF W!Alive
<1>8. ASSUME W!Alive(p), NEW r, W!HandleBoardRevision(p, r),
             UNCHANGED <<task, milestone, broken, lock, service>>
      PROVE  BrowserInv'
  <2>1. CASE W!Reload(p) BY <1>2, <1>8, <2>1
  <2>2. CASE page' = [page EXCEPT ![p].pending = TRUE] /\ UNCHANGED request
    <3>1. page' = [page EXCEPT ![p] = [page[p] EXCEPT !.dialog = page[p].dialog, !.pending = TRUE,
                                                     !.feed = page[p].feed]]
      BY <1>1, <2>2 DEF BrowserInv, BrowserTypes, Views
    <3>2. page[p].dialog \in BOOLEAN BY <1>1 DEF Views
    <3> QED BY <1>1, <1>5, <1>8, <2>2, <3>1, <3>2 DEF W!Alive
  <2>3. CASE UNCHANGED <<page, request>> BY <1>7, <1>8, <2>3
  <2> QED BY <1>8, <2>1, <2>2, <2>3 DEF W!HandleBoardRevision
<1>9. CASE W!CloseDialog(p)
  <2>1. UNCHANGED <<task, milestone, broken, lock, service>> BY <1>9 DEF W!CloseDialog, W!project
  <2>2. CASE W!Reload(p) BY <1>2, <2>1, <2>2
  <2>3. CASE page' = [page EXCEPT ![p].dialog = FALSE] /\ UNCHANGED request
    <3> DEFINE v == [page[p] EXCEPT !.dialog = FALSE]
    <3>1. v \in Views /\ v.shown = page[p].shown /\ v.board = page[p].board /\ v.feed = page[p].feed
      BY <1>1 DEF Views
    <3>2. page' = [page EXCEPT ![p] = v] BY <2>3 DEF BrowserInv, BrowserTypes
    <3> HIDE DEF v
    <3> QED BY <1>1, <2>1, <2>3, <3>1, <3>2, PageMoves DEF W!Alive
  <2> QED BY <1>9, <2>2, <2>3 DEF W!CloseDialog
<1>10. CASE W!BoardEvent(p)
  <2>1. UNCHANGED <<task, milestone, broken, lock, service>> /\ W!Alive(p)
    BY <1>10 DEF W!BoardEvent, W!project, W!Alive
  <2>2. ASSUME NEW feed \in {"poll", "closed"}, page' = [page EXCEPT ![p].feed = feed], UNCHANGED request,
               feed = "closed" => service.asked
        PROVE  BrowserInv'
    <3>1. page' = [page EXCEPT ![p] = [page[p] EXCEPT !.dialog = page[p].dialog, !.pending = page[p].pending,
                                                     !.feed = feed]]
      BY <1>1, <2>2 DEF BrowserInv, BrowserTypes, Views
    <3>2. page[p].dialog \in BOOLEAN /\ page[p].pending \in BOOLEAN BY <1>1 DEF Views
    <3> QED BY <1>5, <2>1, <2>2, <3>1, <3>2
  <2> QED BY <1>8, <1>10, <2>1, <2>2 DEF W!BoardEvent
<1>11. CASE W!Poll(p)
  BY <1>8, <1>11 DEF W!Poll, W!project
<1> QED BY <1>3, <1>4, <1>6, <1>9, <1>10, <1>11

\* One request moves on; what it changes in the project the other requests have not
\* looked at.
LEMMA RequestMoves ==
  ASSUME W!BrowserAssumption, BrowserInv, NEW p \in Pages, NEW r \in PageRequests,
         request' = [request EXCEPT ![p] = r],
         task' \in TaskFiles, milestone' \in BOOLEAN, lock' \in Pages \cup {NoPage},
         UNCHANGED <<page, broken, service>>, r.pc # "schedule",
         RequestInv(r, p)',
         \A q \in Pages \ {p} : lock = q => lock' = q /\ task' = task
  PROVE  BrowserInv'
<1>1. request' \in [Pages -> PageRequests] BY DEF BrowserInv, BrowserTypes
<1>2. \A q \in Pages : request'[q] = IF q = p THEN r ELSE request[q] BY DEF BrowserInv, BrowserTypes
<1>3. BrowserTypes' BY <1>1 DEF BrowserInv, BrowserTypes
<1>4. PagesInv' BY DEF BrowserInv, PagesInv, W!Alive
<1>5. ASSUME NEW q \in Pages \ {p} PROVE RequestInv(request[q], q)'
  <2>1. RequestInv(request[q], q) /\ request'[q] = request[q] BY <1>2 DEF BrowserInv, RequestsInv
  <2>2. CASE lock = q
    <3>1. lock' = q /\ task' = task BY <2>2
    <3> QED BY <2>1, <2>2, <3>1 DEF RequestInv, W!References
  <2>3. CASE lock # q BY <2>1, <2>3 DEF RequestInv
  <2> QED BY <2>2, <2>3
<1>6. RequestsInv' BY <1>2, <1>5 DEF RequestsInv
<1>7. ShutdownInv' BY <1>2 DEF BrowserInv, ShutdownInv, W!At
<1> QED BY <1>3, <1>4, <1>6, <1>7 DEF BrowserInv

LEMMA SubmitKeeps ==
  ASSUME W!BrowserAssumption, BrowserInv, NEW p \in Pages, W!Submit(p) PROVE BrowserInv'
<1>1. ASSUME NEW kind \in W!Kinds, NEW i \in W!Ids, NEW refers \in BOOLEAN,
             NEW handling \in {"none", "keep", "clear"},
             request' = [request EXCEPT ![p] = W!Sent(kind, i, refers, handling)]
      PROVE  BrowserInv'
  <2>1. PICK r \in PageRequests : r = W!Sent(kind, i, refers, handling)
    BY DEF W!Sent, W!NoRequest, PageRequests, Stages, W!Answers
  <2>2. r.pc = "lock" /\ r.kind = kind /\ r.id = i /\ ~r.done /\ r.answer = "none"
    BY <2>1 DEF W!Sent, W!NoRequest
  <2>3. request' = [request EXCEPT ![p] = r] BY <1>1, <2>1
  <2>4. UNCHANGED <<task, milestone, broken, lock, page, service>> BY DEF W!Submit, W!project
  <2>5. RequestInv(r, p)' BY <2>2, <2>4 DEF RequestInv, W!Kinds
  <2>6. task' \in TaskFiles /\ milestone' \in BOOLEAN /\ lock' \in Pages \cup {NoPage}
    BY <2>4 DEF BrowserInv, BrowserTypes
  <2>7. r.pc # "schedule" BY <2>2
  <2>8. \A q \in Pages \ {p} : lock = q => lock' = q /\ task' = task BY <2>4
  <2> QED BY <2>3, <2>4, <2>5, <2>6, <2>7, <2>8, RequestMoves
<1> QED BY <1>1 DEF W!Submit

LEMMA RequestAt ==
  ASSUME BrowserInv, NEW p \in Pages
  PROVE  request[p] \in PageRequests /\ RequestInv(request[p], p)
BY DEF BrowserInv, BrowserTypes, RequestsInv

\* A request is answered, and gives up the lock if it holds it.
LEMMA AnswerKeeps ==
  ASSUME W!BrowserAssumption, BrowserInv, NEW p \in Pages, NEW answer \in W!Answers \ {"none"},
         W!AnswerWith(p, answer), UNCHANGED <<task, milestone, page, broken, service>>,
         answer \in {"bad", "missing", "conflict"} => ~request[p].done,
         answer = "ok" /\ request[p].kind # "shutdown" => request[p].done,
         lock' = lock \/ (lock' = NoPage /\ lock = p)
  PROVE  BrowserInv'
<1>0. PICK r \in PageRequests : r = [request[p] EXCEPT !.pc = "answered", !.answer = answer]
  BY RequestAt, RequestForms DEF Stages
<1>1. request' = [request EXCEPT ![p] = r] BY <1>0 DEF W!AnswerWith, BrowserInv, BrowserTypes
<1>2. r.pc = "answered" /\ r.answer = answer /\ r.done = request[p].done /\ r.kind = request[p].kind
  BY <1>0, RequestAt DEF PageRequests
<1>3. RequestInv(r, p)' BY <1>2 DEF RequestInv
<1> QED BY <1>1, <1>2, <1>3, RequestMoves DEF BrowserInv, BrowserTypes, W!BrowserAssumption

LEMMA LockKeeps ==
  ASSUME W!BrowserAssumption, BrowserInv, NEW p \in Pages, W!TakeLock(p) PROVE BrowserInv'
<1>0. PICK r \in PageRequests : r = [request[p] EXCEPT !.pc = "check"]
  BY RequestAt, RequestForms DEF Stages
<1>1. request' = [request EXCEPT ![p] = r] BY <1>0 DEF W!TakeLock, BrowserInv, BrowserTypes
<1>2. /\ r.pc = "check" /\ r.answer = request[p].answer /\ r.done = request[p].done
      /\ r.kind = request[p].kind /\ r.id = request[p].id
  BY <1>0, RequestAt DEF PageRequests
<1>3. /\ request[p].pc = "lock" /\ request[p].kind # "shutdown" /\ lock = NoPage /\ lock' = p
      /\ UNCHANGED <<task, milestone, broken, page, service>>
  BY DEF W!TakeLock, W!At, W!project
<1>4. RequestInv(r, p)' BY <1>2, <1>3, RequestAt DEF RequestInv
<1> QED BY <1>1, <1>2, <1>3, <1>4, RequestMoves DEF BrowserInv, BrowserTypes, W!BrowserAssumption

LEMMA CheckKeeps ==
  ASSUME W!BrowserAssumption, BrowserInv, NEW p \in Pages, W!Check(p) PROVE BrowserInv'
<1>1. /\ request[p].pc = "check" /\ request[p].kind # "shutdown" /\ request[p].kind # "none"
      /\ request[p].kind \in W!Kinds
      /\ ~request[p].done /\ request[p].answer = "none" /\ request[p].id \in W!Ids /\ lock = p
      /\ UNCHANGED <<task, milestone, broken, page, service>>
  BY RequestAt DEF W!Check, W!At, RequestInv, W!project, PageRequests
<1>2. PICK objection \in {"bad", "error", W!Objection(request[p])} :
        /\ objection = "none" => objection = W!Objection(request[p])
        /\ IF objection = "none"
           THEN /\ request' = [request EXCEPT ![p].pc = "write", ![p].base = task[request[p].id].rev]
                /\ UNCHANGED lock
           ELSE W!AnswerWith(p, objection) /\ lock' = NoPage
  BY DEF W!Check
<1>3. W!Objection(request[p]) \in {"none", "bad", "missing", "conflict"}
  BY DEF W!Objection, W!TaskObjection, W!MilestoneObjection
<1>4. CASE objection = "none"
  <2>2. task[request[p].id].rev \in Nat BY <1>1 DEF BrowserInv, BrowserTypes, TaskFiles, TaskFile
  <2>0. PICK r \in PageRequests : r = [request[p] EXCEPT !.pc = "write", !.base = task[request[p].id].rev]
    BY <2>2, RequestAt, RequestForms
  <2>1. request' = [request EXCEPT ![p] = r] BY <1>2, <1>4, <2>0 DEF BrowserInv, BrowserTypes
  <2>3. /\ r.pc = "write" /\ r.answer = "none" /\ ~r.done
        /\ r.kind = request[p].kind /\ r.id = request[p].id /\ r.base = task[request[p].id].rev
        /\ r.handling = request[p].handling
    BY <1>1, <2>0, <2>2, RequestAt DEF PageRequests
  <2>4. request[p].kind = "remove" /\ request[p].handling = "none" => W!References = {}
    BY <1>2, <1>4 DEF W!Objection, W!MilestoneObjection
  <2>5. W!References' = W!References BY <1>1 DEF W!References
  <2>6. RequestInv(r, p)' BY <1>1, <1>2, <1>4, <2>3, <2>4, <2>5 DEF RequestInv
  <2> QED BY <1>1, <1>2, <1>4, <2>1, <2>3, <2>6, RequestMoves DEF BrowserInv, BrowserTypes
<1>5. CASE objection # "none"
  <2>1. objection \in W!Answers \ {"none", "ok"} BY <1>3, <1>5 DEF W!Answers
  <2> QED BY <1>1, <1>2, <1>5, <2>1, AnswerKeeps
<1> QED BY <1>4, <1>5

LEMMA WriteKeepsTasks ==
  ASSUME W!BrowserAssumption, BrowserInv, NEW p \in Pages, W!Write(p)
  PROVE  task' \in TaskFiles /\ milestone' \in BOOLEAN
<1> DEFINE r == request[p]
<1>1. r \in PageRequests /\ r.id \in W!Ids /\ r.kind \in W!Kinds \ {"shutdown"} /\ task \in TaskFiles
  BY RequestAt DEF W!Write, W!At, RequestInv, PageRequests, BrowserInv, BrowserTypes
<1>2. ASSUME NEW i, NEW f \in TaskFile PROVE [task EXCEPT ![i] = f] \in TaskFiles
  BY <1>1 DEF TaskFiles
<1>3. task[r.id] \in TaskFile /\ r.base + 1 \in Nat /\ r.refers \in BOOLEAN BY <1>1 DEF TaskFiles, PageRequests
<1> HIDE DEF r
<1>4. W!EditTask(r) \in TaskFiles
  <2>1. PICK f \in TaskFile : f = [task[r.id] EXCEPT !.rev = r.base + 1, !.refers = r.refers]
    BY <1>3, TaskForms
  <2>2. W!EditTask(r) = [task EXCEPT ![r.id] = f]
    BY <1>1, <1>3, <2>1 DEF W!EditTask, TaskFiles
  <2>3. [task EXCEPT ![r.id] = f] \in TaskFiles BY <1>2
  <2> QED BY <2>2, <2>3
<1>5. W!CheckItem(r) \in TaskFiles
  <2>1. [task[r.id] EXCEPT !.rev = r.base + 1] \in TaskFile BY <1>3, TaskForms
  <2> QED BY <1>2, <2>1 DEF W!CheckItem
<1>6. W!ArchiveTask(r) \in TaskFiles
  <2>1. [task[r.id] EXCEPT !.place = "archived"] \in TaskFile BY <1>3, TaskForms DEF W!Places
  <2> QED BY <1>2, <2>1 DEF W!ArchiveTask
<1>7. W!CreateTask(r) \in TaskFiles
  <2>1. [place |-> "local", rev |-> 0, refers |-> r.refers] \in TaskFile BY <1>3 DEF TaskFile, W!Places
  <2> QED BY <1>2, <2>1 DEF W!CreateTask
<1>8. W!RemoveMilestone(r) \in TaskFiles
  <2>1. ASSUME NEW i \in W!Ids PROVE [task[i] EXCEPT !.rev = @ + 1, !.refers = FALSE] \in TaskFile
    <3>1. task[i] \in TaskFile /\ task[i].rev + 1 \in Nat BY <1>1 DEF TaskFiles, TaskFile
    <3> QED BY <3>1, TaskForms
  <2> QED BY <1>1, <2>1 DEF W!RemoveMilestone, TaskFiles
<1>9. task' = W!EditTask(r) \/ task' = W!CheckItem(r) \/ task' = W!ArchiveTask(r)
      \/ task' = W!CreateTask(r) \/ task' = W!RemoveMilestone(r)
  BY <1>1 DEF W!Write, W!Kinds, r
<1>10. milestone' \in BOOLEAN BY DEF W!Write
<1> QED BY <1>4, <1>5, <1>6, <1>7, <1>8, <1>9, <1>10

LEMMA WriteKeepsPages ==
  ASSUME W!BrowserAssumption, BrowserInv, NEW p \in Pages, W!Write(p) PROVE BrowserInv'
<1>0. PICK r \in PageRequests : r = [request[p] EXCEPT !.pc = "payload", !.done = TRUE]
  BY RequestAt, RequestForms
<1>1. /\ request[p].pc = "write" /\ request[p].answer = "none" /\ lock = p
      /\ UNCHANGED <<broken, page, service>> /\ lock' = NoPage
  BY RequestAt DEF W!Write, W!At, RequestInv
<1>2. request' = [request EXCEPT ![p] = r] BY <1>0 DEF W!Write, BrowserInv, BrowserTypes
<1>3. r.pc = "payload" /\ r.done /\ r.answer = "none" BY <1>0, <1>1, RequestAt DEF PageRequests
<1>4. RequestInv(r, p)' BY <1>3 DEF RequestInv
<1> QED BY <1>1, <1>2, <1>3, <1>4, RequestMoves, WriteKeepsTasks DEF W!BrowserAssumption

LEMMA AnswersKeep ==
  ASSUME W!BrowserAssumption, BrowserInv, NEW p \in Pages,
         W!Refuse(p) \/ W!LockTimeout(p) \/ W!Raise(p) \/ W!Answer(p)
  PROVE  BrowserInv'
<1>1. CASE W!Refuse(p)
  <2>1. ~request[p].done BY <1>1, RequestAt DEF W!Refuse, W!At, RequestInv
  <2> QED BY <1>1, <2>1, AnswerKeeps DEF W!Refuse, W!project, W!Answers
<1>2. CASE W!LockTimeout(p)
  BY <1>2, AnswerKeeps DEF W!LockTimeout, W!project, W!Answers
<1>3. CASE W!Raise(p)
  <2>1. ~request[p].done /\ lock = p BY <1>3, RequestAt DEF W!Raise, W!At, RequestInv
  <2>2. PICK answer \in {"bad", "error"} : W!AnswerWith(p, answer) BY <1>3 DEF W!Raise
  <2> QED BY <1>3, <2>1, <2>2, AnswerKeeps DEF W!Raise, W!project, W!Answers
<1>4. CASE W!Answer(p)
  <2>1. request[p].done BY <1>4, RequestAt DEF W!Answer, W!At, RequestInv
  <2>2. PICK answer \in {"ok", "error"} : W!AnswerWith(p, answer)
    BY <1>4 DEF W!Answer, BrowserInv, BrowserTypes
  <2> QED BY <1>4, <2>1, <2>2, AnswerKeeps DEF W!Answer, W!project, W!Answers
<1> QED BY <1>1, <1>2, <1>3, <1>4

LEMMA DeliverKeeps ==
  ASSUME W!BrowserAssumption, BrowserInv, NEW p \in Pages, W!Deliver(p) PROVE BrowserInv'
<1>1. /\ request' = [request EXCEPT ![p] = W!NoRequest]
      /\ UNCHANGED <<task, milestone, broken, lock, service>>
      /\ page' = page \/ page' = [page EXCEPT ![p] = W!NewPage]
  BY DEF W!Deliver, W!project
<1>2. W!NoRequest \in PageRequests BY DEF W!NoRequest, PageRequests, Stages, W!Answers
<1>3. \A q \in Pages : request'[q] = IF q = p THEN W!NoRequest ELSE request[q]
  BY <1>1 DEF BrowserInv, BrowserTypes
<1>4. \A q \in Pages : page'[q] = page[q] \/ page'[q] = W!NewPage BY <1>1 DEF BrowserInv, BrowserTypes
<1>5. BrowserTypes' BY <1>1, <1>2, BoardTypes DEF BrowserInv, BrowserTypes
<1>6. PagesInv' BY <1>1, <1>4 DEF BrowserInv, PagesInv, W!Alive, W!NewPage
<1>7. \A q \in Pages : RequestInv(request[q], q)'
  <2>1. RequestInv(W!NoRequest, p)' BY DEF RequestInv, W!NoRequest
  <2>2. ASSUME NEW q \in Pages \ {p} PROVE RequestInv(request[q], q)'
    BY <1>1, <1>3, RequestAt DEF RequestInv, W!References
  <2>3. request'[p] = W!NoRequest BY <1>3
  <2> QED BY <2>1, <2>2, <2>3
<1>8. RequestsInv' BY <1>7 DEF RequestsInv
<1>9. ShutdownInv' BY <1>1, <1>3 DEF BrowserInv, ShutdownInv, W!At, W!NoRequest
<1> QED BY <1>5, <1>6, <1>8, <1>9 DEF BrowserInv

LEMMA ShutdownKeeps ==
  ASSUME W!BrowserAssumption, BrowserInv, NEW p \in Pages, W!AskShutdown(p) \/ W!ScheduleShutdown(p)
  PROVE  BrowserInv'
<1>1. UNCHANGED <<task, milestone, broken, lock, page>>
  BY DEF W!AskShutdown, W!ScheduleShutdown, W!project
<1>2. PICK pc \in {"schedule", "answered"}, answer \in {"none", "ok"} :
        /\ request' = [request EXCEPT ![p].pc = pc, ![p].answer = answer]
        /\ pc = "schedule" => answer = "none" /\ W!AskShutdown(p) /\ ~service.asked
  <2>1. CASE W!AskShutdown(p) /\ ~service.asked
    <3>1. request[p].answer = "none" BY <2>1, RequestAt DEF W!AskShutdown, W!At, RequestInv
    <3>2. request' = [request EXCEPT ![p].pc = "schedule", ![p].answer = "none"]
      BY <2>1, <3>1 DEF W!AskShutdown, BrowserInv, BrowserTypes, PageRequests
    <3> QED BY <2>1, <3>2
  <2>2. CASE W!AskShutdown(p) /\ service.asked BY <2>2 DEF W!AskShutdown, W!AnswerWith
  <2>3. CASE W!ScheduleShutdown(p) BY <2>3 DEF W!ScheduleShutdown, W!AnswerWith
  <2> QED BY <2>1, <2>2, <2>3
<1>0. PICK r \in PageRequests : r = [request[p] EXCEPT !.pc = pc, !.answer = answer]
  BY RequestAt, RequestForms DEF Stages, W!Answers
<1>3. request' = [request EXCEPT ![p] = r] BY <1>0, <1>2 DEF BrowserInv, BrowserTypes
<1>4. /\ r.pc = pc /\ r.answer = answer /\ r.kind = request[p].kind
      /\ r.done = request[p].done /\ r.id = request[p].id
  BY <1>0, RequestAt DEF PageRequests
<1>5. \A q \in Pages : request'[q] = IF q = p THEN r ELSE request[q] BY <1>3 DEF BrowserInv, BrowserTypes
<1>6. request[p].pc \in {"lock", "schedule"} /\ ~request[p].done /\ request[p].kind # "none"
      /\ request[p].id \in W!Ids
  BY RequestAt DEF W!AskShutdown, W!ScheduleShutdown, W!At, RequestInv
<1>7. W!AskShutdown(p) => request[p].kind = "shutdown" BY DEF W!AskShutdown
<1>8. /\ service' \in [asked : BOOLEAN, stops : 0..1, up : BOOLEAN]
      /\ service'.asked
      /\ W!AskShutdown(p) => service'.stops = service.stops
  <2>1. service \in [asked : BOOLEAN, stops : 0..1, up : BOOLEAN] BY DEF BrowserInv, BrowserTypes
  <2>2. CASE W!AskShutdown(p)
    <3>1. service' = [service EXCEPT !.asked = TRUE] BY <2>2 DEF W!AskShutdown
    <3> QED BY <2>1, <3>1
  <2>3. CASE W!ScheduleShutdown(p) /\ ~W!AskShutdown(p)
    <3>1. service' = [service EXCEPT !.stops = @ + 1] BY <2>3 DEF W!ScheduleShutdown
    <3>2. service.asked /\ service.stops = 0 BY <2>3 DEF W!ScheduleShutdown, BrowserInv, ShutdownInv
    <3> QED BY <2>1, <2>3, <3>1, <3>2
  <2> QED BY <2>2, <2>3
<1>9. BrowserTypes' BY <1>1, <1>3, <1>4, <1>8 DEF BrowserInv, BrowserTypes
<1>10. PagesInv' BY <1>1, <1>8 DEF BrowserInv, PagesInv, W!Alive
<1>11. W!ScheduleShutdown(p) => request[p].pc = "schedule" BY DEF W!ScheduleShutdown, W!At
<1>12. RequestInv(r, p)'
  <2>1. request[p].kind = "shutdown" BY <1>7, <1>11, RequestAt DEF RequestInv
  <2> QED BY <1>2, <1>4, <1>6, <2>1 DEF RequestInv
<1>13. ASSUME NEW q \in Pages \ {p} PROVE RequestInv(request[q], q)'
  BY <1>1, <1>5, RequestAt DEF RequestInv, W!References
<1>14. RequestsInv' BY <1>5, <1>12, <1>13 DEF RequestsInv
<1>15. ShutdownInv'
  <2>1. service'.stops = 1 => service'.asked BY <1>8
  <2>2. ASSUME NEW q \in Pages, request'[q].pc = "schedule"
        PROVE  /\ service'.asked /\ service'.stops = 0
               /\ \A o \in Pages \ {q} : request'[o].pc # "schedule"
    <3>1. CASE q = p
      <4>1. pc = "schedule" BY <1>4, <1>5, <2>2, <3>1
      <4>2. ~service.asked /\ W!AskShutdown(p) BY <1>2, <4>1
      <4> QED BY <1>5, <1>8, <3>1, <4>2 DEF BrowserInv, BrowserTypes, ShutdownInv, W!At
    <3>2. CASE q # p
      <4>1. request[q].pc = "schedule" /\ q # p BY <1>5, <2>2, <3>2
      <4>2. service.asked /\ service.stops = 0 /\ ~W!At(p, "schedule")
        BY <4>1 DEF BrowserInv, ShutdownInv, W!At
      <4>3. W!AskShutdown(p) /\ pc # "schedule" BY <1>2, <1>11, <4>2 DEF W!At
      <4> QED BY <1>4, <1>5, <1>8, <4>1, <4>2, <4>3 DEF BrowserInv, ShutdownInv, W!At
    <3> QED BY <3>1, <3>2
  <2> QED BY <2>1, <2>2 DEF ShutdownInv, W!At
<1> QED BY <1>9, <1>10, <1>14, <1>15 DEF BrowserInv

\* What others do leaves the requests and the pages as they are.
LEMMA OthersKeep ==
  ASSUME W!BrowserAssumption, BrowserInv,
         \/ \E i \in W!Ids : W!OtherWrites(i) \/ W!BranchMoves(i)
         \/ W!Spoil \/ W!Mend
  PROVE  BrowserInv'
<1>0. /\ UNCHANGED <<milestone, lock, request, page, service>>
      /\ broken' \in {"none", "config", "policy"}
  BY DEF W!OtherWrites, W!BranchMoves, W!Spoil, W!Mend, BrowserInv, BrowserTypes
<1>1. ASSUME task' \in TaskFiles,
             \/ lock = NoPage
             \/ W!References' = W!References /\ \A i \in W!Ids : task'[i].rev = task[i].rev
      PROVE  BrowserInv'
  <2>1. BrowserTypes' BY <1>0, <1>1 DEF BrowserInv, BrowserTypes
  <2>2. PagesInv' /\ ShutdownInv' BY <1>0 DEF BrowserInv, PagesInv, ShutdownInv, W!Alive, W!At
  <2>3. ASSUME NEW p \in Pages PROVE RequestInv(request[p], p)'
    <3>1. RequestInv(request[p], p) /\ request'[p] = request[p] /\ lock' = lock
      BY <1>0, RequestAt
    <3>2. CASE lock = NoPage BY <3>1, <3>2 DEF RequestInv, W!BrowserAssumption
    <3>3. CASE W!References' = W!References /\ \A i \in W!Ids : task'[i].rev = task[i].rev
      BY <3>1, <3>3 DEF RequestInv
    <3> QED BY <1>1, <3>2, <3>3
  <2> QED BY <2>1, <2>2, <2>3 DEF BrowserInv, RequestsInv
<1>2. task \in TaskFiles BY DEF BrowserInv, BrowserTypes
<1>3. ASSUME NEW i \in W!Ids, W!OtherWrites(i) PROVE BrowserInv'
  <2>1. task[i] \in TaskFile /\ task[i].rev + 1 \in Nat BY <1>2 DEF TaskFiles, TaskFile
  <2>2. ASSUME NEW f \in TaskFile, task' = [task EXCEPT ![i] = f] PROVE task' \in TaskFiles
    BY <1>2, <2>2 DEF TaskFiles
  <2>3. ASSUME NEW refers \in BOOLEAN, task' = [task EXCEPT ![i].rev = @ + 1, ![i].refers = refers]
        PROVE  task' \in TaskFiles
    <3>1. PICK f \in TaskFile : f = [task[i] EXCEPT !.rev = task[i].rev + 1, !.refers = refers]
      BY <2>1, TaskForms
    <3>2. task' = [task EXCEPT ![i] = f] BY <1>2, <2>1, <2>3, <3>1 DEF TaskFiles
    <3> QED BY <2>2, <3>2
  <2>4. ASSUME task' = [task EXCEPT ![i].place = "archived"] PROVE task' \in TaskFiles
    <3>1. [task[i] EXCEPT !.place = "archived"] \in TaskFile BY <2>1, TaskForms DEF W!Places
    <3> QED BY <2>2, <2>4, <3>1
  <2>5. task' \in TaskFiles /\ lock = NoPage BY <1>3, <2>3, <2>4 DEF W!OtherWrites
  <2> QED BY <1>1, <2>5
<1>4. ASSUME NEW i \in W!Ids, W!BranchMoves(i) PROVE BrowserInv'
  <2> DEFINE place == W!Moved(task[i].place)
  <2>0. task' = [task EXCEPT ![i] = [task[i] EXCEPT !.place = place]]
    BY <1>2, <1>4 DEF W!BranchMoves, TaskFiles
  <2>1. /\ place \in W!Places
        /\ place \in {"local", "older"} <=> task[i].place \in {"local", "older"}
    BY <1>2 DEF W!Moved, TaskFiles, TaskFile, W!Places
  <2> HIDE DEF place
  <2>2. PICK f \in TaskFile : f = [task[i] EXCEPT !.place = place]
    BY <1>2, <2>1, TaskForms DEF TaskFiles
  <2>3. task' = [task EXCEPT ![i] = f] BY <2>0, <2>2
  <2>4. f.place = place /\ f.rev = task[i].rev /\ f.refers = task[i].refers
    BY <1>2, <2>2 DEF TaskFiles, TaskFile
  <2>5. task' \in TaskFiles BY <1>2, <2>3 DEF TaskFiles
  <2>6. ASSUME NEW j \in W!Ids
        PROVE  /\ task'[j].rev = task[j].rev /\ task'[j].refers = task[j].refers
               /\ task'[j].place \in {"local", "older"} <=> task[j].place \in {"local", "older"}
    BY <1>2, <2>1, <2>3, <2>4 DEF TaskFiles
  <2>7. W!References' = W!References BY <2>6 DEF W!References
  <2> QED BY <1>1, <2>5, <2>6, <2>7
<1>5. CASE W!Spoil \/ W!Mend
  <2>1. task' = task BY <1>5 DEF W!Spoil, W!Mend
  <2> QED BY <1>1, <1>2, <2>1 DEF W!References
<1> QED BY <1>3, <1>4, <1>5

LEMMA StopKeeps ==
  ASSUME W!BrowserAssumption, BrowserInv, W!Stop PROVE BrowserInv'
<1>1. /\ request' = [p \in Pages |-> [request[p] EXCEPT !.pc = "idle"]]
      /\ service' = [service EXCEPT !.up = FALSE] /\ lock' = NoPage
      /\ UNCHANGED <<task, milestone, broken, page>>
  BY DEF W!Stop, W!project
<1>2. ASSUME NEW p \in Pages
      PROVE  /\ request'[p] \in PageRequests /\ request'[p].pc = "idle" /\ request'[p].answer = request[p].answer
             /\ request'[p].kind = request[p].kind /\ request'[p].done = request[p].done
  <2>1. request[p] \in PageRequests BY RequestAt
  <2>2. request'[p] = [request[p] EXCEPT !.pc = "idle"] BY <1>1
  <2>3. [request[p] EXCEPT !.pc = "idle"] \in PageRequests BY <2>1, RequestForms DEF Stages
  <2> QED BY <2>1, <2>2, <2>3 DEF PageRequests
<1>3. request' \in [Pages -> PageRequests] BY <1>1, <1>2
<1>4. /\ service' \in [asked : BOOLEAN, stops : 0..1, up : BOOLEAN]
      /\ service'.asked = service.asked /\ service'.stops = service.stops
  BY <1>1 DEF BrowserInv, BrowserTypes
<1>5. BrowserTypes' BY <1>1, <1>3, <1>4 DEF BrowserInv, BrowserTypes
<1>6. PagesInv' BY <1>1, <1>4 DEF BrowserInv, PagesInv, W!Alive
<1>7. ASSUME NEW p \in Pages PROVE RequestInv(request[p], p)'
  BY <1>2, RequestAt DEF RequestInv
<1>8. ShutdownInv' BY <1>2, <1>4 DEF BrowserInv, ShutdownInv, W!At
<1> QED BY <1>5, <1>6, <1>7, <1>8 DEF BrowserInv, RequestsInv

LEMMA BrowserKeeps ==
  ASSUME W!BrowserAssumption, BrowserInv, [W!BrowserNext]_W!browserVars PROVE BrowserInv'
<1>1. CASE UNCHANGED W!browserVars
  BY <1>1 DEF W!browserVars, BrowserInv, BrowserTypes, PagesInv, RequestsInv, RequestInv, ShutdownInv,
              W!References, W!Alive, W!At
<1> QED BY <1>1, PagesKeep, SubmitKeeps, LockKeeps, CheckKeeps, WriteKeepsPages, AnswersKeep, DeliverKeeps,
           ShutdownKeeps, OthersKeep, StopKeeps DEF W!BrowserNext

LEMMA BrowserInvariance ==
  ASSUME W!BrowserAssumption PROVE W!Spec => []BrowserInv
<1>1. W!BrowserInit => BrowserInv BY BrowserStarts
<1>2. BrowserInv /\ [W!BrowserNext]_W!browserVars => BrowserInv' BY BrowserKeeps
<1> QED BY <1>1, <1>2, PTL DEF W!Spec

\* A page loads itself again on an event or a poll only if it shows another board.
LEMMA ReloadIsForChange ==
  ASSUME BrowserInv, [W!BrowserNext]_W!browserVars PROVE W!ReloadsForChange
<1> SUFFICES ASSUME NEW p \in Pages, W!Alive(p), page'[p].feed = "loading", ~W!At(p, "answered"),
                    ~page[p].pending
             PROVE  page[p].board # W!Board
  BY DEF W!ReloadsForChange
<1>1. page[p].shown = page[p].board /\ page[p].feed # "loading" /\ page \in [Pages -> Views]
  BY DEF BrowserInv, BrowserTypes, PagesInv, W!Alive
<1>2. page' # page BY <1>1
<1>3. PICK q \in Pages : W!Load(q) \/ W!Open(q) \/ W!OpenDialog(q) \/ W!CloseDialog(q) \/ W!BoardEvent(q)
                         \/ W!Poll(q) \/ W!Deliver(q)
  BY <1>2 DEF W!BrowserNext, W!browserVars, W!Submit, W!Refuse, W!TakeLock, W!LockTimeout, W!Check, W!Write,
     W!Raise, W!Answer, W!AskShutdown, W!ScheduleShutdown, W!Stop, W!OtherWrites, W!BranchMoves, W!Spoil, W!Mend
<1>4. q = p
  <2>1. \A r \in Pages \ {q} : page'[r] = page[r]
    BY <1>1, <1>3 DEF W!Load, W!Open, W!OpenDialog, W!CloseDialog, W!BoardEvent, W!Poll, W!Deliver, W!Reload,
       W!HandleBoardRevision
  <2> QED BY <1>1, <2>1
<1>5. CASE W!Load(p) \/ W!Open(p) BY <1>5 DEF W!Load, W!Open, W!Alive
<1>6. CASE W!OpenDialog(p) BY <1>1, <1>6 DEF W!OpenDialog, Views
<1>7. CASE W!CloseDialog(p) BY <1>1, <1>7 DEF W!CloseDialog, Views
<1>8. CASE W!Deliver(p) BY <1>8 DEF W!Deliver, W!At
<1>9. ASSUME W!HandleBoardRevision(p, W!Revision(FALSE)) PROVE page[p].board # W!Board
  <2>1. CASE page' = [page EXCEPT ![p].pending = TRUE] BY <1>1, <2>1 DEF Views
  <2>2. CASE W!Revision(FALSE) # page[p].shown BY <1>1, <2>2 DEF W!Revision
  <2>3. CASE page' = page BY <1>2, <2>3
  <2> QED BY <1>9, <2>1, <2>2, <2>3 DEF W!HandleBoardRevision
<1>10. CASE W!Poll(p) BY <1>9, <1>10 DEF W!Poll
<1>11. CASE W!BoardEvent(p)
  <2>1. CASE page' = [page EXCEPT ![p].feed = "closed"] \/ page' = [page EXCEPT ![p].feed = "poll"]
    BY <1>1, <2>1 DEF Views
  <2> QED BY <1>9, <1>11, <2>1 DEF W!BoardEvent
<1> QED BY <1>3, <1>4, <1>5, <1>6, <1>7, <1>8, <1>10, <1>11

\* A page that shows another board than there is will be told of it while the service
\* runs, and no feed makes one load itself that shows the board as it is
\* (browser/assets/board.js, _board_revision of browser/service.py).
THEOREM PagesAreTold ==
  ASSUME W!BrowserAssumption PROVE W!Spec => W!PagesFollowBoard
<1>1. BrowserInv => W!BrowserTypeOK /\ W!StalePagesAreTold
  BY DEF BrowserInv, BrowserTypes, PagesInv, TaskFiles, TaskFile, PageRequests, Stages, Views,
         W!BrowserTypeOK, W!StalePagesAreTold, W!Alive
<1>2. BrowserInv /\ [W!BrowserNext]_W!browserVars => [W!ReloadsForChange]_W!browserVars
  BY ReloadIsForChange
<1> QED BY <1>1, <1>2, BrowserInvariance, PTL DEF W!Spec, W!PagesFollowBoard

\* A request is answered with what was done, the service is stopped once, and no
\* request writes over what was stored after it looked or removes a milestone that
\* tasks refer to without being told what to do with them (browser/service.py).
THEOREM RequestsAreAnsweredAsDone ==
  ASSUME W!BrowserAssumption PROVE W!Spec => W!BrowserWrites
<1>1. BrowserInv => W!AnswersAreTrue
  BY DEF BrowserInv, BrowserTypes, RequestsInv, RequestInv, ShutdownInv, W!AnswersAreTrue
<1>2. BrowserInv => W!WritesWhatItChecked
  BY DEF BrowserInv, RequestsInv, RequestInv, W!WritesWhatItChecked, W!At
<1> QED BY <1>1, <1>2, BrowserInvariance, PTL DEF W!Spec, W!BrowserWrites


-----------------------------------------------------------------------------
(* The terminal board: what is asked for once is carried out once, and the *)
(* daemon is left only when a load has failed.                             *)
Y == INSTANCE Tui WITH
       Cards <- TaskCount, Spare <- Creatable, Last <- LastColumn,
       disk <- x1, source <- x2, load <- x3, jobs <- x4, queue <- x5, app <- x6, jump <- x7, changes <- x8

source == x2
jobs   == x4
queue  == x5
app    == x6

USE DEF source, jobs, queue, app


\* A sequence, whatever is in it.
IsSequence(s) == \E n \in Nat : DOMAIN s = 1..n /\ s = [i \in 1..n |-> s[i]]

\* A thread has carried out what it is for once if it says so, and not before.
JobInv(x) ==
  /\ x \in [op : {x.op}, task : {x.task}, to : {x.to}, heard : {x.heard}, carried : {0, 1},
            phase : {"running", "carried", "done", "failed"}]
  /\ x.phase = "running" => x.carried = 0
  /\ x.phase \in {"carried", "done"} => x.carried = 1

Messages == {"board", "daemonError", "error", "failed", "done", "editor"}

TuiInv ==
  /\ source \in {"daemon", "local"}
  /\ IsSequence(jobs) /\ \A j \in DOMAIN jobs : JobInv(jobs[j])
  /\ IsSequence(queue) /\ \A i \in DOMAIN queue : queue[i].kind \in Messages

-----------------------------------------------------------------------------
LEMMA SequenceOf ==
  ASSUME NEW s, IsSequence(s), NEW S, \A i \in DOMAIN s : s[i] \in S
  PROVE  s \in Seq(S)
<1>1. PICK n \in Nat : DOMAIN s = 1..n /\ s = [i \in 1..n |-> s[i]] BY DEF IsSequence
<1>2. s \in [1..n -> S] BY <1>1
<1> QED BY <1>2

LEMMA SequencesAre ==
  ASSUME NEW S, NEW s \in Seq(S) PROVE IsSequence(s)
<1>1. Len(s) \in Nat /\ DOMAIN s = 1..Len(s) /\ s \in [1..Len(s) -> S] OBVIOUS
<1>2. s = [i \in 1..Len(s) |-> s[i]] BY <1>1
<1> QED BY <1>1, <1>2 DEF IsSequence

LEMMA JoinKeeps ==
  ASSUME NEW s, IsSequence(s), \A i \in DOMAIN s : s[i].kind \in Messages,
         NEW t, IsSequence(t), \A i \in DOMAIN t : t[i].kind \in Messages
  PROVE  IsSequence(s \o t) /\ \A i \in DOMAIN (s \o t) : (s \o t)[i].kind \in Messages
<1> DEFINE S == {s[i] : i \in DOMAIN s} \cup {t[i] : i \in DOMAIN t}
<1>1. s \in Seq(S) /\ t \in Seq(S) BY SequenceOf
<1>2. \A m \in S : m.kind \in Messages OBVIOUS
<1> HIDE DEF S
<1>3. s \o t \in Seq(S) BY <1>1
<1>4. \A i \in DOMAIN (s \o t) : (s \o t)[i] \in S BY <1>3
<1> QED BY <1>2, <1>3, <1>4, SequencesAre

LEMMA AppendIs ==
  ASSUME NEW s, IsSequence(s), NEW e
  PROVE  /\ IsSequence(Append(s, e))
         /\ \A i \in DOMAIN Append(s, e) :
              Append(s, e)[i] = e \/ \E j \in DOMAIN s : Append(s, e)[i] = s[j]
<1> DEFINE S == {s[i] : i \in DOMAIN s} \cup {e}
<1>1. s \in Seq(S) /\ e \in S BY SequenceOf
<1> HIDE DEF S
<1>2. /\ Append(s, e) \in Seq(S) /\ Len(Append(s, e)) = Len(s) + 1 /\ DOMAIN s = 1..Len(s)
      /\ DOMAIN Append(s, e) = 1..(Len(s) + 1) /\ Len(s) \in Nat
  BY <1>1
<1>3. ASSUME NEW i \in 1..(Len(s) + 1)
      PROVE  Append(s, e)[i] = e \/ \E j \in DOMAIN s : Append(s, e)[i] = s[j]
  <2>1. CASE i = Len(s) + 1 BY <1>1, <1>2, <2>1
  <2>2. CASE i # Len(s) + 1
    <3>1. i \in 1..Len(s) BY <1>2, <1>3, <2>2
    <3>2. Append(s, e)[i] = s[i] BY <1>1, <3>1
    <3> QED BY <1>2, <3>1, <3>2
  <2> QED BY <2>1, <2>2
<1>4. IsSequence(Append(s, e)) BY <1>2, SequencesAre
<1> QED BY <1>2, <1>3, <1>4

LEMMA TailIs ==
  ASSUME NEW s, IsSequence(s), s # <<>>
  PROVE  /\ IsSequence(Tail(s)) /\ 1 \in DOMAIN s /\ Head(s) = s[1]
         /\ \A i \in DOMAIN Tail(s) : \E j \in DOMAIN s : Tail(s)[i] = s[j]
<1> DEFINE S == {s[i] : i \in DOMAIN s}
<1>1. s \in Seq(S) BY SequenceOf
<1> HIDE DEF S
<1>2. /\ Tail(s) \in Seq(S) /\ Len(Tail(s)) = Len(s) - 1 /\ DOMAIN s = 1..Len(s) /\ Len(s) \in Nat
      /\ Len(s) > 0 /\ DOMAIN Tail(s) = 1..(Len(s) - 1)
  BY <1>1
<1>3. ASSUME NEW i \in 1..(Len(s) - 1) PROVE \E j \in DOMAIN s : Tail(s)[i] = s[j]
  <2>1. Tail(s)[i] = s[i + 1] /\ i + 1 \in 1..Len(s) BY <1>1, <1>2, <1>3
  <2> QED BY <1>2, <2>1
<1>4. IsSequence(Tail(s)) BY <1>2, SequencesAre
<1>5. Head(s) = s[1] /\ 1 \in DOMAIN s BY <1>1, <1>2
<1> QED BY <1>2, <1>3, <1>4, <1>5

LEMMA EmptyIs == IsSequence(<<>>) /\ DOMAIN <<>> = {}
BY DEF IsSequence

LEMMA TuiStarts ==
  ASSUME Y!TuiAssumption, Y!TuiInit PROVE TuiInv
BY EmptyIs DEF Y!TuiAssumption, Y!TuiInit, TuiInv

LEMMA AskIs ==
  ASSUME NEW o, NEW t, NEW c PROVE JobInv(Y!Ask(o, t, c))
BY DEF JobInv, Y!Ask

LEMMA JobForms ==
  ASSUME NEW x, JobInv(x), NEW t
  PROVE  /\ JobInv([x EXCEPT !.heard = FALSE])
         /\ x.phase = "running" => JobInv([x EXCEPT !.task = t, !.phase = "carried", !.carried = @ + 1])
<1>1. x \in [op : {x.op}, task : {x.task}, to : {x.to}, heard : {x.heard}, carried : {0, 1},
             phase : {"running", "carried", "done", "failed"}]
  BY DEF JobInv
<1>2. JobInv([x EXCEPT !.heard = FALSE]) BY <1>1 DEF JobInv
<1>3. ASSUME x.phase = "running"
      PROVE  JobInv([x EXCEPT !.task = t, !.phase = "carried", !.carried = @ + 1])
  <2>1. x.carried + 1 = 1 BY <1>3 DEF JobInv
  <2> QED BY <1>1, <2>1 DEF JobInv
<1> QED BY <1>2, <1>3

\* A thread that is cancelled runs on.
LEMMA CancelledIs ==
  ASSUME TuiInv
  PROVE  IsSequence(Y!Cancelled) /\ \A j \in DOMAIN Y!Cancelled : JobInv(Y!Cancelled[j])
<1>1. PICK n \in Nat : DOMAIN jobs = 1..n BY DEF TuiInv, IsSequence
<1>2. DOMAIN Y!Cancelled = 1..n /\ Y!Cancelled = [j \in 1..n |-> Y!Cancelled[j]]
  BY <1>1 DEF Y!Cancelled
<1>3. ASSUME NEW j \in DOMAIN jobs PROVE JobInv(Y!Cancelled[j])
  <2>1. JobInv(jobs[j]) BY DEF TuiInv
  <2>2. Y!Cancelled[j] = jobs[j] \/ Y!Cancelled[j] = [jobs[j] EXCEPT !.heard = FALSE]
    BY DEF Y!Cancelled
  <2>3. JobInv([jobs[j] EXCEPT !.heard = FALSE]) BY <2>1, JobForms
  <2> QED BY <2>1, <2>2, <2>3
<1> QED BY <1>1, <1>2, <1>3 DEF IsSequence

LEMMA AskKeeps ==
  ASSUME NEW js, IsSequence(js), \A j \in DOMAIN js : JobInv(js[j]), NEW x, JobInv(x)
  PROVE  /\ IsSequence(Append(js, x))
         /\ \A j \in DOMAIN Append(js, x) : JobInv(Append(js, x)[j])
BY AppendIs

LEMMA PostKeeps ==
  ASSUME TuiInv, NEW m, m.kind \in Messages, queue' = Append(queue, m)
  PROVE  IsSequence(queue') /\ \A i \in DOMAIN queue' : queue'[i].kind \in Messages
BY AppendIs DEF TuiInv

LEMMA ThreadsKeep ==
  ASSUME TuiInv, Y!Threads PROVE TuiInv' /\ source' = source
<1> DEFINE QueueOK == IsSequence(queue) /\ \A i \in DOMAIN queue : queue[i].kind \in Messages
<1>1. ASSUME NEW m, m.kind \in Messages, Y!Post(m) PROVE QueueOK'
  BY <1>1, PostKeeps DEF Y!Post
<1>2. ASSUME UNCHANGED queue PROVE QueueOK'
  BY <1>2 DEF TuiInv
<1>3. CASE Y!LoadColumns
  <2>1. UNCHANGED <<source, jobs>> BY <1>3 DEF Y!LoadColumns
  <2>2. QueueOK'
    <3>1. ASSUME NEW snap PROVE [kind |-> "board", snap |-> snap].kind \in Messages BY DEF Messages
    <3> HIDE DEF QueueOK
    <3> QED BY <1>1, <1>2, <1>3, <3>1 DEF Y!LoadColumns
  <2> QED BY <2>1, <2>2 DEF TuiInv
<1>4. CASE Y!LoadView
  <2>1. UNCHANGED <<source, jobs>> BY <1>4 DEF Y!LoadView
  <2>2. [kind |-> "daemonError"].kind \in Messages
        /\ \A snap : [kind |-> "board", snap |-> snap].kind \in Messages
    BY DEF Messages
  <2>3. UNCHANGED queue \/ Y!Post([kind |-> "daemonError"]) \/ Y!Post([kind |-> "board", snap |-> x3.snap])
    BY <1>4 DEF Y!LoadView
  <2>4. QueueOK'
    <3> HIDE DEF QueueOK
    <3> QED BY <1>1, <1>2, <2>2, <2>3
  <2> QED BY <2>1, <2>4 DEF TuiInv
<1>5. CASE Y!LoadFails
  <2>1. UNCHANGED <<source, jobs>> BY <1>5 DEF Y!LoadFails
  <2>2. PICK kind \in {"daemonError", "error"} : Y!Post([kind |-> kind]) BY <1>5 DEF Y!LoadFails
  <2>3. [kind |-> kind].kind \in Messages BY DEF Messages
  <2>4. QueueOK'
    <3> HIDE DEF QueueOK
    <3> QED BY <1>1, <2>2, <2>3
  <2> QED BY <2>1, <2>4 DEF TuiInv
<1>6. ASSUME NEW j \in DOMAIN jobs, NEW x, JobInv(x), jobs' = [jobs EXCEPT ![j] = x]
      PROVE  IsSequence(jobs') /\ \A k \in DOMAIN jobs' : JobInv(jobs'[k])
  BY <1>6 DEF TuiInv, IsSequence
<1>7. ASSUME NEW j \in DOMAIN jobs, Y!Carry(j) PROVE TuiInv' /\ source' = source
  <2>1. JobInv(jobs[j]) /\ jobs[j].phase = "running" /\ UNCHANGED <<source, queue>>
    BY <1>7 DEF Y!Carry, TuiInv
  <2>2. PICK t : jobs' = [jobs EXCEPT ![j].task = t, ![j].phase = "carried", ![j].carried = @ + 1]
    BY <1>7 DEF Y!Carry
  <2>3. jobs' = [jobs EXCEPT ![j] = [jobs[j] EXCEPT !.task = t, !.phase = "carried", !.carried = @ + 1]]
    BY <2>1, <2>2 DEF JobInv, TuiInv, IsSequence
  <2>4. JobInv([jobs[j] EXCEPT !.task = t, !.phase = "carried", !.carried = @ + 1])
    BY <2>1, JobForms
  <2>5. IsSequence(jobs') /\ \A k \in DOMAIN jobs' : JobInv(jobs'[k]) BY <1>6, <2>3, <2>4
  <2> QED BY <1>2, <2>1, <2>5 DEF TuiInv
<1>8. ASSUME NEW j \in DOMAIN jobs, NEW phase \in {"done", "failed"}, Y!End(j, phase)
      PROVE  TuiInv' /\ source' = source
  <2>1. JobInv(jobs[j]) /\ UNCHANGED source BY <1>8 DEF Y!End, TuiInv
  <2>2. jobs' = [jobs EXCEPT ![j] = [jobs[j] EXCEPT !.phase = phase]] BY <1>8 DEF Y!End
  <2>3. JobInv([jobs[j] EXCEPT !.phase = phase]) BY <1>8, <2>1 DEF JobInv, Y!End, Y!Busy
  <2>4. IsSequence(jobs') /\ \A k \in DOMAIN jobs' : JobInv(jobs'[k]) BY <1>6, <2>2, <2>3
  <2>5. [kind |-> phase, job |-> j].kind \in Messages BY DEF Messages
  <2>6. UNCHANGED queue \/ Y!Post([kind |-> phase, job |-> j]) BY <1>8 DEF Y!End
  <2>7. QueueOK'
    <3> HIDE DEF QueueOK
    <3> QED BY <1>1, <1>2, <2>5, <2>6
  <2> QED BY <2>1, <2>4, <2>7 DEF TuiInv
<1> QED BY <1>3, <1>4, <1>5, <1>7, <1>8 DEF Y!Threads

LEMMA HandleKeeps ==
  ASSUME TuiInv, Y!Handle
  PROVE  TuiInv' /\ (source' # source => source = "daemon" /\ queue # <<>> /\ Head(queue).kind = "daemonError")
<1> DEFINE m == Head(queue)
<1>1. queue # <<>> /\ queue' = Tail(queue) /\ m.kind \in Messages
  BY TailIs DEF Y!Handle, TuiInv
<1>2. IsSequence(queue') /\ \A i \in DOMAIN queue' : queue'[i].kind \in Messages
  BY <1>1, TailIs DEF TuiInv
<1>3. source' = source \/ (m.kind = "daemonError" /\ source' = "local")
  BY <1>1 DEF Y!Handle, Messages
<1>4. jobs' = jobs \/ jobs' = Y!Cancelled \/ \E t, c : jobs' = Append(Y!Cancelled, Y!Ask("editor", t, c))
  BY <1>1 DEF Y!Handle, Y!Refresh, Messages
<1>5. IsSequence(jobs') /\ \A j \in DOMAIN jobs' : JobInv(jobs'[j])
  <2>1. CASE jobs' = jobs BY <2>1 DEF TuiInv
  <2>2. CASE jobs' = Y!Cancelled BY <2>2, CancelledIs
  <2>3. ASSUME NEW t, NEW c, jobs' = Append(Y!Cancelled, Y!Ask("editor", t, c))
        PROVE  IsSequence(jobs') /\ \A j \in DOMAIN jobs' : JobInv(jobs'[j])
    BY <2>3, CancelledIs, AskIs, AskKeeps
  <2> QED BY <1>4, <2>1, <2>2, <2>3
<1> QED BY <1>1, <1>2, <1>3, <1>5 DEF TuiInv

LEMMA PutOffIs == IsSequence(Y!PutOff) /\ \A i \in DOMAIN Y!PutOff : Y!PutOff[i].kind \in Messages
<1>1. CASE Y!PutOff = <<>> BY <1>1, EmptyIs
<1>2. CASE Y!PutOff = <<[kind |-> "board", snap |-> app.deferred]>>
  <2>1. Y!PutOff = [i \in 1..1 |-> [kind |-> "board", snap |-> app.deferred]] BY <1>2
  <2>2. DOMAIN Y!PutOff = 1..1 /\ \A i \in 1..1 : Y!PutOff[i].kind = "board" BY <2>1
  <2> QED BY <2>1, <2>2 DEF IsSequence, Messages
<1> QED BY <1>1, <1>2 DEF Y!PutOff

LEMMA UserKeepsBoard ==
  ASSUME TuiInv, Y!User PROVE TuiInv' /\ source' = source
<1> DEFINE QueueOK == IsSequence(queue) /\ \A i \in DOMAIN queue : queue[i].kind \in Messages
           JobsOK  == IsSequence(jobs) /\ \A j \in DOMAIN jobs : JobInv(jobs[j])
<1>0. QueueOK /\ JobsOK BY DEF TuiInv
<1>1. source' = source
  BY DEF Y!User, Y!MoveColumns, Y!MoveRows, Y!MoveSelected, Y!SelectTask, Y!SubmitSearch, Y!SetFilters,
         Y!OpenDialog, Y!SubmitDialog, Y!SubmitEditor, Y!CancelDialog, Y!Jumps, Y!Jump, Y!JumpBack
<1>2. \/ queue' = queue
      \/ queue' = queue \o Y!PutOff
      \/ \E t, c : queue' = Append(queue, [kind |-> "editor", task |-> t, to |-> c]) \o Y!PutOff
  BY DEF Y!User, Y!MoveColumns, Y!MoveRows, Y!MoveSelected, Y!SelectTask, Y!SubmitSearch, Y!SetFilters,
         Y!OpenDialog, Y!SubmitDialog, Y!SubmitEditor, Y!CancelDialog, Y!Jumps, Y!Jump, Y!JumpBack
<1>3. jobs' = jobs \/ \E o, t, c : jobs' = Append(jobs, Y!Ask(o, t, c))
  <2>1. ASSUME NEW c, Y!SubmitDialog(c) PROVE \E o, t, e : jobs' = Append(jobs, Y!Ask(o, t, e))
    BY <2>1 DEF Y!SubmitDialog, Y!Answer
  <2>2. ASSUME NEW delta, Y!MoveSelected(delta) PROVE \E o, t, e : jobs' = Append(jobs, Y!Ask(o, t, e))
    BY <2>2 DEF Y!MoveSelected
  <2> QED BY <2>1, <2>2 DEF Y!User, Y!MoveColumns, Y!MoveRows, Y!SelectTask, Y!SubmitSearch, Y!SetFilters,
         Y!OpenDialog, Y!SubmitEditor, Y!CancelDialog, Y!Jumps, Y!Jump, Y!JumpBack
<1>4. JobsOK' BY <1>0, <1>3, AskIs, AskKeeps
<1>5. QueueOK'
  <2>1. CASE queue' = queue BY <1>0, <2>1
  <2>2. CASE queue' = queue \o Y!PutOff BY <1>0, <2>2, PutOffIs, JoinKeeps
  <2>3. ASSUME NEW t, NEW c, queue' = Append(queue, [kind |-> "editor", task |-> t, to |-> c]) \o Y!PutOff
        PROVE  QueueOK'
    <3> DEFINE m == [kind |-> "editor", task |-> t, to |-> c]
    <3>1. m.kind \in Messages BY DEF Messages
    <3> HIDE DEF m
    <3>2. /\ IsSequence(Append(queue, m))
          /\ \A i \in DOMAIN Append(queue, m) : Append(queue, m)[i].kind \in Messages
      BY <1>0, <3>1, AppendIs
    <3>3. queue' = Append(queue, m) \o Y!PutOff BY <2>3 DEF m
    <3> QED BY <3>2, <3>3, PutOffIs, JoinKeeps
  <2> QED BY <1>2, <2>1, <2>2, <2>3
<1> QED BY <1>1, <1>4, <1>5 DEF TuiInv

LEMMA TuiKeeps ==
  ASSUME TuiInv, [Y!TuiNext]_Y!tuiVars PROVE TuiInv' /\ Y!LeavesSource
<1>1. CASE UNCHANGED Y!tuiVars
  BY <1>1 DEF Y!tuiVars, TuiInv, IsSequence, Y!LeavesSource
<1>2. CASE Y!Change BY <1>2 DEF Y!Change, TuiInv, IsSequence, Y!LeavesSource
<1>3. CASE Y!Tick
  BY <1>3, CancelledIs DEF Y!Tick, Y!Refresh, TuiInv, Y!LeavesSource
<1>4. CASE Y!Threads BY <1>4, ThreadsKeep DEF Y!LeavesSource
<1>5. CASE Y!Handle BY <1>5, HandleKeeps DEF Y!LeavesSource
<1>6. CASE Y!User BY <1>6, UserKeepsBoard DEF Y!LeavesSource
<1> QED BY <1>1, <1>2, <1>3, <1>4, <1>5, <1>6 DEF Y!TuiNext

\* What a user asks for once is carried out at most once, and reported as done only
\* if it was; and the daemon is left, for good, only because a load from it has
\* failed (tui/app.py, tui/data_source.py).
THEOREM AskedOnceIsDoneOnce ==
  ASSUME Y!TuiAssumption PROVE Y!TuiSpec => Y!TuiWrites
<1>1. Y!TuiInit => TuiInv BY TuiStarts
<1>2. TuiInv /\ [Y!TuiNext]_Y!tuiVars => TuiInv' /\ Y!LeavesSource BY TuiKeeps
<1>3. TuiInv => Y!CarriedOutOnce BY DEF TuiInv, JobInv, Y!CarriedOutOnce
<1> QED BY <1>1, <1>2, <1>3, PTL DEF Y!TuiSpec, Y!TuiWrites
============================================================================
