----------------------------- MODULE ScanCache -----------------------------
(***************************************************************************)
(* ProjectScanCache (src/backlog_py/runtime/scan_cache.py): one scan of a  *)
(* project shared by the requests of a browser service or a daemon while   *)
(* the signature of the files is unchanged.  Requests are threads that     *)
(* share one mutex; the files change at any time.                          *)
(*                                                                         *)
(* The configuration is one of the files: a request reads it before it     *)
(* asks for the mutex, and it is part of the signature twice, as read and  *)
(* as a file.  What the board is built from and the signature does not     *)
(* list, the orchestration policy among it, is left out.                   *)
(***************************************************************************)
EXTENDS WatchedFiles

CONSTANTS Requests,  \* threads that answer requests
          Config,    \* the configuration file
          NoThread, NoScan

\* What is assumed of them.
CacheAssumption == FilesAssumption /\ Config \in Files /\ NoThread \notin Requests

VARIABLES mutex,     \* ProjectScanCache._lock
          cache,     \* its _signature and the scan of its _repository
          req        \* req[r]: the request of thread r

cacheVars == <<mutex, cache, req>>

NoReq == [pc |-> "idle", start |-> 0, now |-> 0, conf |-> NoFile, sig |-> None, scan |-> None]

CacheInit ==
  /\ mutex = NoThread
  /\ cache = [conf |-> NoFile, sig |-> None, scan |-> NoScan]
  /\ req = [r \in Requests |-> NoReq]

CacheTypeOK ==
  /\ mutex \in Requests \cup {NoThread}
  /\ DOMAIN req = Requests
  /\ \A r \in Requests :
       /\ req[r].pc \in {"idle", "wait", "sign", "scan", "answer"}
       /\ req[r].start \in Nat /\ req[r].now \in Nat /\ req[r].conf \in Contents
       /\ DOMAIN req[r].sig \subseteq Files /\ DOMAIN req[r].scan \subseteq Files
       /\ \A f \in DOMAIN req[r].sig : req[r].sig[f] \in Signatures
       /\ \A f \in DOMAIN req[r].scan : req[r].scan[f] \in Contents
  /\ cache.scan # NoScan => DOMAIN cache.scan = Files

\* A request begins and loads the project (_refreshed_project).
Request(r) ==
  /\ req[r].pc = "idle" /\ file[Config].data # NoFile
  /\ req' = [req EXCEPT ![r] = [NoReq EXCEPT !.pc = "wait", !.start = clock,
                                             !.conf = file[Config].data]]
  /\ UNCHANGED <<mutex, cache>>

Enter(r) ==
  /\ req[r].pc = "wait" /\ mutex = NoThread
  /\ mutex' = r
  /\ req' = [req EXCEPT ![r].pc = "sign", ![r].now = clock]
  /\ UNCHANGED cache

\* _project_signature stats the files one by one.
Sign(r) ==
  /\ req[r].pc = "sign" /\ DOMAIN req[r].sig # Files
  /\ LET f == First(Files \ DOMAIN req[r].sig) IN
       req' = [req EXCEPT ![r].sig = Put(@, f, FileSignature(f, req[r].now))]
  /\ UNCHANGED <<mutex, cache>>

IsCurrent(r) == cache.conf = req[r].conf /\ cache.sig = req[r].sig

IsFiles(r) == req[r].pc = "sign" /\ DOMAIN req[r].sig = Files

\* Unchanged and scanned: the cached scan is the answer.
Hit(r) ==
  /\ IsFiles(r) /\ IsCurrent(r) /\ cache.scan # NoScan
  /\ req' = [req EXCEPT ![r].pc = "answer", ![r].scan = cache.scan]
  /\ UNCHANGED <<mutex, cache>>

\* Otherwise the signature is stored, and the scan begins.
Miss(r) ==
  /\ IsFiles(r) /\ (~IsCurrent(r) \/ cache.scan = NoScan)
  /\ cache' = [conf |-> req[r].conf, sig |-> req[r].sig, scan |-> NoScan]
  /\ req' = [req EXCEPT ![r].pc = "scan"]
  /\ UNCHANGED mutex

\* The files are read one by one; the configuration was read already.
Scan(r) ==
  /\ req[r].pc = "scan" /\ DOMAIN req[r].scan # Files
  /\ LET f == First(Files \ DOMAIN req[r].scan) IN
       req' = [req EXCEPT ![r].scan =
                 Put(@, f, IF f = Config THEN req[r].conf ELSE file[f].data)]
  /\ UNCHANGED <<mutex, cache>>

\* Mutant: the signature that is stored is taken after the scan.
Store_SignsAfter(r) ==
  /\ req[r].pc = "scan" /\ DOMAIN req[r].scan = Files
  /\ cache' = [conf |-> req[r].conf, sig |-> [f \in Files |-> FileSignature(f, clock)],
               scan |-> req[r].scan]
  /\ req' = [req EXCEPT ![r].pc = "answer"]
  /\ UNCHANGED mutex

Store(r) ==
  /\ req[r].pc = "scan" /\ DOMAIN req[r].scan = Files
  /\ cache' = [cache EXCEPT !.scan = req[r].scan]
  /\ req' = [req EXCEPT ![r].pc = "answer"]
  /\ UNCHANGED mutex

\* The scan raises: a repository that has read nothing stays behind, and the
\* next request with this signature reads it.
ScanRaises(r) ==
  /\ req[r].pc = "scan"
  /\ mutex' = NoThread /\ req' = [req EXCEPT ![r] = NoReq]
  /\ UNCHANGED cache

Answer(r) ==
  /\ req[r].pc = "answer"
  /\ mutex' = NoThread /\ req' = [req EXCEPT ![r] = NoReq]
  /\ UNCHANGED cache

CacheStep ==
  \E r \in Requests :
    \/ Request(r) \/ Enter(r) \/ Sign(r) \/ Hit(r) \/ Miss(r)
    \/ Scan(r) \/ Store(r) \/ ScanRaises(r) \/ Answer(r)

\* Listing and stat-ing the files takes less than the window.
Advance ==
  /\ clock < MaxClock
  /\ \A r \in Requests : req[r].pc = "sign" => clock + 1 - req[r].now < Window
  /\ clock' = clock + 1
  /\ UNCHANGED <<file, lastHad, writes>>

Init == FilesInit /\ CacheInit

Next ==
  \/ CacheStep /\ UNCHANGED fileVars
  \/ (Advance \/ \E f \in Files : WriteFile(f)) /\ UNCHANGED cacheVars

Spec == Init /\ [][Next]_<<fileVars, cacheVars>>

-----------------------------------------------------------------------------
(* Properties. *)

\* What a request answers, each signed file had since the request began, but
\* for contents replaced and restored within one recent tick, which may show
\* for as long as the tick is recent, and for a file that was created and
\* removed again while it was scanned, which leaves no trace in the signature.
\* However the signature, the scan, the mutex and the writes interleave, and
\* whatever raised, no older state is served (read_repository: "never sees
\* state older than its own last write").
AnswerIsRecent ==
  \A r \in Requests : req[r].pc = "answer" =>
    \A f \in Files : LET d == req[r].scan[f] IN
      Recent(f, d, req[r].start) \/ (d # NoFile /\ req[r].sig[f] = Missing)

\* Every variable has its type as well.
ScanAnswerIsRecent == CacheTypeOK /\ FilesTypeOK /\ AnswerIsRecent
=============================================================================
