---------------------------- MODULE DaemonProofs ----------------------------
(***************************************************************************)
(* Proofs about Daemon and McpForward: whatever the commands, daemons and  *)
(* strangers are, a managed daemon that serves can be found, its record    *)
(* and its log are kept, and a forwarded call is carried out by the daemon *)
(* its session found.                                                      *)
(*                                                                         *)
(* The inductive invariant IInv has five parts.  ProcInv: a token names at *)
(* most one process and a port has at most one listener.  LockInv: whoever *)
(* is at a point inside the lock holds it.  RecordInv and CommandOK: what  *)
(* the record and each command say of a daemon is still true of it, or the *)
(* daemon no longer listens.  Tracked and Logged: what the theorems say,   *)
(* for daemons that have yet to listen as well.                            *)
(*                                                                         *)
(* Every process moves by Change(i, p), whatever moves it, so what no step *)
(* may do to a process is proved once (ChangeKeeps, AgesKeeps).  Steps are *)
(* grouped by what they touch: a command that touches no process           *)
(* (CommandStepOK), a process on its own (ProcessStepOK), a command that   *)
(* signals a process (SignalOK).                                           *)
(***************************************************************************)
EXTENDS McpForward, TLAPS

-----------------------------------------------------------------------------
(* Processes. *)

Process == [st : ProcStates, port : Ports \cup {NoPort},
            token : Tokens \cup {NoToken}, managed : BOOLEAN]

Early == {"booting", "bound", "recording"}
Late  == {"serving", "stopping", "closing"}

\* A token names at most one process, and a port has at most one listener.
ProcInv ==
  /\ proc \in [Pids -> Process] /\ launches \in 0..MaxLaunches
  /\ \A i \in Pids : proc[i].token \in 0..launches
  /\ \A i, j \in Pids : proc[i].token = proc[j].token /\ proc[i].token # NoToken => i = j
  /\ \A i \in Pids : proc[i].st = "stranger" => proc[i].token = NoToken
  /\ \A i \in Pids : proc[i].st \notin {"free", "stranger"} => proc[i].token # NoToken
  /\ \A i \in Pids : proc[i].managed => proc[i].st \notin {"bound", "recording"}
  /\ \A i \in Pids : proc[i].st \in Early => proc[i].port \in Ports
  /\ \A i, j \in Pids : Listens(i) /\ Listens(j) /\ proc[i].port = proc[j].port
                          /\ proc[i].port # NoPort => i = j

\* The process that bears the token of record r, if there is one left, is the
\* one that r names, and is in one of the states S.
Bears(r, S) ==
  \A i \in Pids : proc[i].token = r.token =>
    /\ i = r.pid /\ proc[i].st \in S
    /\ proc[i].st # "closing" => proc[i].port = r.port

\* A record that was written; one that a start is still waiting for; one whose
\* daemon no longer listens.
Known(r)    == r \in Records /\ r.token <= launches /\ Bears(r, Late)
Launched(r) == /\ r \in Records /\ r.token <= launches /\ Bears(r, Late \cup {"booting"})
               /\ \A i \in Pids : proc[i].token = r.token => proc[i].managed
Gone(r)     == Bears(r, {"closing"})

\* The life of a process: it is launched, moves on, and ends.
Moves == {<<"bound", "recording">>, <<"bound", "serving">>, <<"recording", "serving">>,
          <<"serving", "stopping">>}

Started(i, p) ==
  /\ proc[i] = FreeProc /\ launches < MaxLaunches /\ launches' = launches + 1
  /\ \E q \in Ports, m \in BOOLEAN :
       p = [st |-> "booting", port |-> q, token |-> launches + 1, managed |-> m]

Moved(i, p) ==
  /\ UNCHANGED launches
  /\ \/ p = FreeProc
     \/ p = proc[i]
     \/ \E s \in ProcStates : <<proc[i].st, s>> \in Moves /\ p = [proc[i] EXCEPT !.st = s]
     \/ /\ proc[i].st = "booting" /\ Listeners(proc[i].port) = {}
        /\ p = [proc[i] EXCEPT !.st = IF proc[i].managed THEN "serving" ELSE "bound"]
     \/ proc[i].st = "stopping" /\ p = [proc[i] EXCEPT !.st = "closing", !.port = NoPort]
     \/ /\ proc[i] = FreeProc
        /\ \E q \in Ports \cup {NoPort} :
             /\ q # NoPort => Listeners(q) = {}
             /\ p = [FreeProc EXCEPT !.st = "stranger", !.port = q]

Change(i, p) == proc' = [proc EXCEPT ![i] = p] /\ (Started(i, p) \/ Moved(i, p))

\* Tokens are handed out once, and nobody goes back in life.
Ages ==
  /\ launches <= launches'
  /\ \A i \in Pids : proc'[i].token \in 1..launches =>
       /\ proc'[i].token = proc[i].token /\ proc'[i].managed = proc[i].managed
       /\ proc'[i].st # "closing" => proc'[i].port = proc[i].port /\ proc[i].st # "closing"
       /\ proc[i].st \in Late => proc'[i].st \in Late
       /\ proc[i].st = "booting" /\ proc[i].managed => proc'[i].st \in {"booting", "serving"}
       /\ proc'[i].st = "booting" => proc[i].st = "booting"
       /\ proc'[i].st = "serving" /\ proc'[i].managed => proc[i].st \in {"booting", "serving"}

\* What is left of a process that has moved.
MovedWell(i, p) ==
  /\ p \in Process /\ p.token \in {proc[i].token, NoToken}
  /\ p.st = "stranger" => p.token = NoToken
  /\ p.st \notin {"free", "stranger"} =>
       p.token = proc[i].token /\ proc[i].st \notin {"free", "stranger"}
  /\ p.managed => p.st \notin {"bound", "recording"}
  /\ p.st \in Early => proc[i].st \in Early
  /\ p.st \in {"bound", "recording", "serving", "stopping", "stranger"} /\ p.port # NoPort =>
       \/ Listens(i) /\ p.port = proc[i].port
       \/ Listeners(p.port) = {}
  /\ p.token # NoToken =>
       /\ p.token = proc[i].token /\ p.managed = proc[i].managed
       /\ p.st # "closing" => p.port = proc[i].port /\ proc[i].st # "closing"
       /\ proc[i].st \in Late => p.st \in Late
       /\ proc[i].st = "booting" /\ proc[i].managed => p.st \in {"booting", "serving"}
       /\ p.st = "booting" => proc[i].st = "booting"
       /\ p.st = "serving" /\ p.managed => proc[i].st \in {"booting", "serving"}

LEMMA MovesWell ==
  ASSUME ProcInv, NEW i \in Pids, NEW p, Moved(i, p)
  PROVE  MovedWell(i, p)
<1>1. /\ proc[i] \in Process
      /\ proc[i].st = "stranger" => proc[i].token = NoToken
      /\ proc[i].managed => proc[i].st \notin {"bound", "recording"}
  BY DEF ProcInv
<1>2. /\ FreeProc \in Process /\ FreeProc.st = "free" /\ FreeProc.token = NoToken
      /\ FreeProc.managed = FALSE
  BY DEF FreeProc, Process, ProcStates
<1>3. CASE p = FreeProc
  BY <1>2, <1>3 DEF MovedWell, Early
<1>4. CASE p = proc[i]
  BY <1>1, <1>4 DEF MovedWell, Listens
<1>5. ASSUME NEW s \in ProcStates, <<proc[i].st, s>> \in Moves, p = [proc[i] EXCEPT !.st = s]
      PROVE  MovedWell(i, p)
  <2>1. /\ p \in Process /\ p.st = s /\ p.port = proc[i].port
        /\ p.token = proc[i].token /\ p.managed = proc[i].managed
    BY <1>1, <1>5 DEF Process
  <2>2. \/ proc[i].st = "bound" /\ s = "recording"
        \/ proc[i].st = "bound" /\ s = "serving"
        \/ proc[i].st = "recording" /\ s = "serving"
        \/ proc[i].st = "serving" /\ s = "stopping"
    BY <1>5 DEF Moves
  <2>. QED
    BY <1>1, <2>1, <2>2 DEF MovedWell, Listens, Late, Early
<1>6. ASSUME proc[i].st = "booting", Listeners(proc[i].port) = {},
             p = [proc[i] EXCEPT !.st = IF proc[i].managed THEN "serving" ELSE "bound"]
      PROVE  MovedWell(i, p)
  <2>1. PICK s \in {"serving", "bound"} :
          p = [proc[i] EXCEPT !.st = s] /\ (proc[i].managed => s = "serving")
    BY <1>6
  <2>2. /\ p \in Process /\ p.st = s /\ p.port = proc[i].port
        /\ p.token = proc[i].token /\ p.managed = proc[i].managed
    BY <1>1, <2>1 DEF Process, ProcStates
  <2>. QED
    BY <1>1, <1>6, <2>1, <2>2 DEF MovedWell, Late, Early
<1>7. ASSUME proc[i].st = "stopping", p = [proc[i] EXCEPT !.st = "closing", !.port = NoPort]
      PROVE  MovedWell(i, p)
  <2>1. /\ p \in Process /\ p.st = "closing"
        /\ p.token = proc[i].token /\ p.managed = proc[i].managed
    BY <1>1, <1>7 DEF Process, ProcStates
  <2>. QED
    BY <1>1, <1>7, <2>1 DEF MovedWell, Late, Early
<1>8. ASSUME proc[i] = FreeProc, NEW q \in Ports \cup {NoPort}, q # NoPort => Listeners(q) = {},
             p = [FreeProc EXCEPT !.st = "stranger", !.port = q]
      PROVE  MovedWell(i, p)
  <2>1. /\ p \in Process /\ p.st = "stranger" /\ p.port = q /\ p.token = NoToken
        /\ p.managed = FALSE
    BY <1>8 DEF FreeProc, Process, ProcStates
  <2>. QED
    BY <1>8, <2>1 DEF MovedWell, Early
<1>. QED
  BY <1>3, <1>4, <1>5, <1>6, <1>7, <1>8 DEF Moved

LEMMA ChangeKeeps ==
  ASSUME ProcInv, NEW i \in Pids, NEW p, Change(i, p)
  PROVE  ProcInv' /\ Ages
<1>1. /\ proc \in [Pids -> Process] /\ launches \in 0..MaxLaunches /\ MaxLaunches \in Nat
      /\ launches \in Nat
  BY BoundsAssumption DEF ProcInv
<1>2. FreeProc \in Process
  BY DEF FreeProc, Process, ProcStates
<1>3. CASE Started(i, p)
  <2>1. /\ launches' = launches + 1 /\ launches' \in 0..MaxLaunches /\ proc[i] = FreeProc
        /\ launches + 1 \in Tokens
    BY <1>1, <1>3 DEF Started, Tokens
  <2>2. /\ p \in Process /\ p.st = "booting" /\ p.token = launches + 1
    BY <1>3, <2>1 DEF Started, Process, ProcStates
  <2>3. /\ proc' \in [Pids -> Process] /\ proc'[i] = p
        /\ \A j \in Pids \ {i} : proc'[j] = proc[j]
    BY <1>1, <2>2 DEF Change
  <2>. QED
    BY <1>1, <1>3, <2>1, <2>2, <2>3 DEF Started, ProcInv, Ages, Listens, FreeProc
<1>4. CASE Moved(i, p)
  <2>1. MovedWell(i, p) /\ launches' = launches
    BY <1>4, MovesWell DEF Moved
  <2>2. /\ proc' \in [Pids -> Process] /\ proc'[i] = p
        /\ \A j \in Pids \ {i} : proc'[j] = proc[j]
    BY <1>1, <2>1 DEF Change, MovedWell
  <2>6. Ages
    BY <1>1, <2>1, <2>2 DEF Ages, NoToken, MovedWell
  <2>7. \A j, k \in Pids : Listens(j)' /\ Listens(k)' /\ proc'[j].port = proc'[k].port
                             /\ proc'[j].port # NoPort => j = k
    BY <2>1, <2>2 DEF ProcInv, Listens, Listeners, MovedWell
  <2>8. \A j \in Pids : proc'[j].token \in {proc[j].token, NoToken}
    BY <2>1, <2>2 DEF MovedWell
  <2>9. \A j \in Pids : proc'[j].st \in Early => proc'[j].port \in Ports
    BY <2>1, <2>2 DEF ProcInv, MovedWell, Early, NoToken
  <2>. QED
    BY <1>1, <2>1, <2>2, <2>6, <2>7, <2>8, <2>9 DEF ProcInv, NoToken, MovedWell
<1>. QED
  BY <1>3, <1>4 DEF Change

LEMMA AgesKeeps ==
  ASSUME ProcInv, Ages, ProcInv'
  PROVE  \A r : /\ Known(r) => Known(r)'
                /\ Launched(r) => Launched(r)'
                /\ Known(r) /\ Gone(r) => Gone(r)'
<1>. SUFFICES ASSUME NEW r
             PROVE  /\ Known(r) => Known(r)'
                    /\ Launched(r) => Launched(r)'
                    /\ Known(r) /\ Gone(r) => Gone(r)'
  OBVIOUS
<1>1. launches \in Nat /\ launches' \in Nat /\ launches <= launches'
  BY BoundsAssumption DEF ProcInv, Ages
<1>2. r \in Records => r.token \in Nat /\ r.token >= 1
  BY BoundsAssumption DEF Records, Tokens
<1>3. \A i \in Pids : r \in Records /\ r.token <= launches /\ proc'[i].token = r.token =>
        proc'[i].token \in 1..launches
  BY <1>1, <1>2
<1>. QED
  BY <1>1, <1>2, <1>3 DEF Ages, Known, Launched, Gone, Bears, Late

\* A definite "no" is never said of a daemon that still listens.
LEMMA NoMeansGone ==
  ASSUME ProcInv, NEW r, Known(r),
         "no" \in RecordIsLive(r) \/ (Alive(r.pid) => "no" \in EndpointOwned(r))
  PROVE  Gone(r)
<1>. SUFFICES ASSUME NEW i \in Pids, proc[i].token = r.token, proc[i].st # "closing"
             PROVE  FALSE
  BY DEF Gone, Bears, Known
<1>1. /\ i = r.pid /\ proc[i].st \in {"serving", "stopping"} /\ proc[i].port = r.port
      /\ r.port # NoPort
  BY NamesAssumption DEF Known, Bears, Late, Records
<1>2. Alive(r.pid) /\ i \in Listeners(r.port)
  BY <1>1 DEF Alive, Listeners, Listens
<1>3. \A j \in Listeners(r.port) : j = i
  BY <1>1 DEF ProcInv, Listeners, Listens
<1>4. StatusAnswers(i, r.token) = {"yes", "unknown"}
  BY <1>1 DEF StatusAnswers, Authorized
<1>5. EndpointOwned(r) = {"yes", "unknown"}
  BY <1>2, <1>3, <1>4 DEF EndpointOwned
<1>. QED
  BY <1>2, <1>5 DEF RecordIsLive

LEMMA GoneIsNotServing ==
  ASSUME NEW r, Gone(r), NEW i \in Pids, Names(r, i)
  PROVE  ~Serves(i)
  BY DEF Gone, Bears, Names, Serves

-----------------------------------------------------------------------------
(* The inductive invariant. *)

CommandType == [op : Ops, pc : PCs, seen : Records \cup {NoRecord}]

Inside   == {"discarding", "startCheck", "launch", "await", "record",
             "stopCheck", "term", "wait", "kill", "waitKilled"}
Starting == {"launch", "await", "record"}
Waits    == {"await", "record"}
Stopping == {"term", "wait", "kill", "waitKilled"}

\* The lock belongs to whoever is at a point inside it.
LockInv ==
  /\ \A c \in Commands : cmd[c].pc \in Inside <=> holder = c
  /\ \A i \in Pids : proc[i].st = "recording" <=> holder = i

RecordInv == record # NoRecord => Known(record)

\* What command c goes on is still true: a record to be discarded is of a daemon
\* that has stopped listening, there is no record while a daemon is started, and
\* the record is the one that stop looked at.
CommandOK(c) ==
  LET r == cmd[c].seen
  IN  /\ r # NoRecord => IF cmd[c].pc = "await" THEN Launched(r) ELSE Known(r)
      /\ cmd[c].pc \in Waits => r # NoRecord /\ r.token \in logs
      /\ cmd[c].pc \in {"discard", "discarding"} => r # NoRecord /\ Gone(r)
      /\ cmd[c].pc \in Starting => record = NoRecord
      /\ cmd[c].pc \in Stopping => r # NoRecord /\ record = r

\* The managed daemon i is on somebody's mind.
Awaited(i, pcs) == \E c \in Commands : cmd[c].pc \in pcs /\ Names(cmd[c].seen, i)
Tracked(i) ==
  proc[i].managed =>
    /\ proc[i].st = "booting" => Awaited(i, {"await"}) \/ proc[i].token \in abandoned
    /\ proc[i].st = "serving" =>
         Names(record, i) \/ Awaited(i, Waits) \/ proc[i].token \in abandoned

Logged(i) == Serves(i) /\ proc[i].managed /\ Names(record, i) => record.token \in logs

IInv ==
  /\ TypeOK /\ ProcInv /\ LockInv /\ RecordInv
  /\ \A c \in Commands : CommandOK(c)
  /\ \A i \in Pids : Tracked(i) /\ Logged(i)

LEMMA InitIInv == Init => IInv
<1>. SUFFICES ASSUME Init PROVE IInv
  OBVIOUS
<1>1. /\ \A i \in Pids : proc[i] = FreeProc
      /\ \A c \in Commands : cmd[c] = Idle
      /\ record = NoRecord /\ holder = NoProc /\ launches = 0
  BY DEF Init
<1>2. /\ FreeProc \in Process /\ FreeProc.st = "free" /\ FreeProc.token = NoToken
      /\ FreeProc.managed = FALSE /\ Idle \in CommandType /\ Idle.pc = "idle"
      /\ Idle.seen = NoRecord
  BY DEF FreeProc, Process, ProcStates, Idle, CommandType, Ops, PCs
<1>3. TypeOK
  BY <1>1, <1>2, BoundsAssumption DEF Init, TypeOK, Process, CommandType
<1>4. ProcInv
  BY <1>1, <1>2, BoundsAssumption DEF ProcInv, Init, Listens, NoToken, Early
<1>5. LockInv
  BY <1>1, <1>2, NamesAssumption DEF LockInv, Inside
<1>6. RecordInv /\ \A c \in Commands : CommandOK(c)
  BY <1>1, <1>2 DEF RecordInv, CommandOK, Waits, Starting, Stopping
<1>7. \A i \in Pids : Tracked(i) /\ Logged(i)
  BY <1>1, <1>2 DEF Tracked, Logged, Serves
<1>. QED
  BY <1>3, <1>4, <1>5, <1>6, <1>7 DEF IInv

LEMMA AgesWithout ==
  ASSUME ProcInv, UNCHANGED <<proc, launches>>
  PROVE  ProcInv' /\ Ages
<1>1. ProcInv'
  BY DEF ProcInv, Listens
<1>2. launches <= launches'
  BY BoundsAssumption DEF ProcInv
<1>. QED
  BY <1>1, <1>2 DEF Ages, Late, ProcInv

\* A command that does not move stays right, as long as whoever holds the lock is
\* the only one to change the record and the logs.
LEMMA CommandStays ==
  ASSUME IInv, Ages, ProcInv', NEW c \in Commands, cmd'[c] = cmd[c],
         holder = c => record' = record /\ logs' = logs
  PROVE  CommandOK(c)'
<1>1. CommandOK(c) /\ (cmd[c].pc \in Inside <=> holder = c)
  BY DEF IInv, LockInv
<1>2. Waits \subseteq Inside /\ Starting \subseteq Inside /\ Stopping \subseteq Inside
  BY DEF Inside, Waits, Starting, Stopping
<1>3. LET r == cmd[c].seen
      IN  /\ Known(r) => Known(r)'
          /\ Launched(r) => Launched(r)'
          /\ Known(r) /\ Gone(r) => Gone(r)'
  BY AgesKeeps DEF IInv
<1>. QED
  BY <1>1, <1>2, <1>3 DEF CommandOK

\* An old process that is booting or serving was so before, and the same records
\* name it.
LEMMA OldProcess ==
  ASSUME IInv, Ages, ProcInv', NEW i \in Pids, proc'[i].managed,
         proc'[i].st \in {"booting", "serving"}, proc'[i].token <= launches
  PROVE  /\ proc[i].managed /\ proc'[i].token = proc[i].token
         /\ proc[i].st \in {"booting", "serving"}
         /\ proc'[i].st = "booting" => proc[i].st = "booting"
         /\ \A r : Names(r, i)' <=> Names(r, i)
<1>1. proc'[i].token \in Nat /\ launches \in Nat
  BY BoundsAssumption DEF IInv, ProcInv
<1>2. proc'[i].token # NoToken => proc'[i].token \in 1..launches
  BY <1>1 DEF NoToken
<1>3. proc'[i].token # NoToken
  BY DEF ProcInv
<1>. QED
  BY <1>2, <1>3 DEF Ages, Names, ProcInv

-----------------------------------------------------------------------------
(* Steps of a command that touch no process. *)

\* The three ways in which a command may move with respect to the lock.
MovesInLock(c) ==
  \/ holder' = holder /\ (cmd'[c].pc \in Inside <=> cmd[c].pc \in Inside)
  \/ holder = NoProc /\ holder' = c /\ cmd'[c].pc \in Inside
  \/ holder = c /\ holder' = NoProc /\ cmd'[c].pc \notin Inside

OnlyMoves(c) ==
  /\ cmd' \in [Commands -> CommandType]
  /\ \A d \in Commands \ {c} : cmd'[d] = cmd[d]

\* What it may do to the record and the logs.
MovesRecord(c) ==
  \/ record' = record /\ logs' = logs
  \/ holder = c /\ record' = NoRecord /\ (record = NoRecord \/ Gone(record))
  \/ holder = c /\ cmd[c].pc = "record" /\ record' = cmd[c].seen /\ logs' = logs

\* What becomes of the daemon that a command waits for.
HandsOver(c) ==
  cmd[c].pc \in Waits =>
    \/ cmd[c].seen.token \in abandoned'
    \/ cmd[c].pc = "record" /\ record' = cmd[c].seen
    \/ /\ cmd[c].pc = "await" /\ cmd'[c].pc = "record" /\ cmd'[c].seen = cmd[c].seen
       /\ proc[cmd[c].seen.pid].st # "booting"

\* Command d waits for daemon i.
WaitsFor(d, i) ==
  /\ cmd[d].pc \in Waits /\ Names(cmd[d].seen, i)
  /\ proc[i].st = "booting" => cmd[d].pc = "await"

LEMMA LockMoves ==
  ASSUME IInv, NEW c \in Commands, OnlyMoves(c), MovesInLock(c), UNCHANGED proc
  PROVE  LockInv' /\ holder' \in Commands \cup Pids \cup {NoProc}
<1>1. holder \in Commands \cup Pids \cup {NoProc} /\ LockInv
  BY DEF IInv, TypeOK
<1>2. c \notin Pids /\ NoProc \notin Commands /\ NoProc \notin Pids
  BY NamesAssumption
<1>3. holder' \in Commands \cup Pids \cup {NoProc}
  BY <1>1 DEF MovesInLock
<1>4. ASSUME NEW d \in Commands PROVE cmd'[d].pc \in Inside <=> holder' = d
  <2>1. d # c => cmd'[d] = cmd[d]
    BY DEF OnlyMoves
  <2>2. cmd[d].pc \in Inside <=> holder = d
    BY <1>1 DEF LockInv
  <2>. QED
    BY <1>2, <2>1, <2>2 DEF MovesInLock
<1>5. ASSUME NEW i \in Pids PROVE proc[i].st = "recording" <=> holder' = i
  <2>1. proc[i].st = "recording" <=> holder = i
    BY <1>1 DEF LockInv
  <2>. QED
    BY <1>2, <2>1 DEF MovesInLock
<1>. QED
  BY <1>3, <1>4, <1>5 DEF LockInv

\* What every step does right: nobody takes away or replaces the record of a daemon
\* that still listens, and the lock passes from one to the next.
StepOK ==
  /\ IInv'
  /\ record' = record \/ record = NoRecord \/ Gone(record)
  /\ [Lock!Next]_holder

LEMMA CommandStepOK ==
  ASSUME IInv, NEW c \in Commands, UNCHANGED <<proc, launches>>,
         OnlyMoves(c), MovesInLock(c), MovesRecord(c), HandsOver(c), CommandOK(c)',
         logs' \subseteq Tokens, abandoned \subseteq abandoned', abandoned' \subseteq Tokens
  PROVE  StepOK
<1>1. ProcInv' /\ Ages
  BY AgesWithout DEF IInv
<1>2. LockInv' /\ holder' \in Commands \cup Pids \cup {NoProc}
  BY LockMoves
<1>3. \A d \in Commands : CommandOK(d)
  BY DEF IInv
<1>4. RecordInv' /\ record' \in Records \cup {NoRecord}
  <2>1. CASE record' = record
    BY <1>1, <2>1, AgesKeeps DEF IInv, RecordInv, TypeOK
  <2>2. CASE record' = NoRecord
    BY <2>2 DEF RecordInv
  <2>3. CASE cmd[c].pc = "record" /\ record' = cmd[c].seen
    <3>1. Known(cmd[c].seen)
      BY <1>3, <2>3 DEF CommandOK, Waits
    <3>. QED
      BY <1>1, <2>3, <3>1, AgesKeeps DEF IInv, RecordInv, Known
  <2>. QED
    BY <2>1, <2>2, <2>3 DEF MovesRecord
<1>5. TypeOK'
  BY <1>2, <1>4 DEF IInv, TypeOK, OnlyMoves, CommandType
<1>6. \A d \in Commands : CommandOK(d)'
  <2>. SUFFICES ASSUME NEW d \in Commands \ {c} PROVE CommandOK(d)'
    OBVIOUS
  <2>1. holder = d => record' = record /\ logs' = logs
    BY DEF MovesRecord
  <2>. QED
    BY <1>1, <2>1, CommandStays DEF OnlyMoves
<1>7. ASSUME NEW i \in Pids PROVE Tracked(i)'
  <2>. SUFFICES ASSUME proc[i].managed, proc[i].st \in {"booting", "serving"},
                      proc[i].token \notin abandoned'
               PROVE  /\ proc[i].st = "booting" => Awaited(i, {"await"})'
                      /\ proc[i].st = "serving" => Names(record, i)' \/ Awaited(i, Waits)'
    BY DEF Tracked
  <2>1. \A r : Names(r, i)' <=> Names(r, i)
    BY DEF Names
  <2>2. proc[i].token \notin abandoned
    OBVIOUS
  <2>3. CASE Names(record, i) /\ proc[i].st = "serving"
    <3>1. ~Gone(record) /\ record # NoRecord
      BY <2>3, GoneIsNotServing DEF Names, Serves
    <3>2. ~(cmd[c].pc = "record")
      BY <1>3, <3>1 DEF CommandOK, Starting
    <3>3. record' = record
      BY <3>1, <3>2 DEF MovesRecord
    <3>. QED
      BY <2>1, <2>3, <3>3
  <2>4. ASSUME NEW d \in Commands, WaitsFor(d, i)
        PROVE  /\ proc[i].st = "booting" => Awaited(i, {"await"})'
               /\ proc[i].st = "serving" => Names(record, i)' \/ Awaited(i, Waits)'
    <3>1. CASE d # c
      <4>1. cmd'[d] = cmd[d]
        BY <3>1 DEF OnlyMoves
      <4>. QED
        BY <2>1, <2>4, <4>1 DEF Awaited, WaitsFor
    <3>2. CASE d = c
      <4>1. cmd[c].seen.token = proc[i].token /\ cmd[c].seen.pid = i
        BY <2>4, <3>2 DEF Names, WaitsFor
      <4>2. CASE cmd[c].pc = "record" /\ record' = cmd[c].seen
        BY <2>1, <2>4, <3>2, <4>2 DEF WaitsFor
      <4>3. CASE /\ cmd[c].pc = "await" /\ cmd'[c].pc = "record" /\ cmd'[c].seen = cmd[c].seen
                 /\ proc[cmd[c].seen.pid].st # "booting"
        BY <2>1, <2>4, <3>2, <4>1, <4>3 DEF Awaited, Waits, WaitsFor
      <4>. QED
        BY <2>4, <3>2, <4>1, <4>2, <4>3 DEF HandsOver, WaitsFor
    <3>. QED
      BY <3>1, <3>2
  <2>5. \/ Names(record, i) /\ proc[i].st = "serving"
        \/ \E d \in Commands : WaitsFor(d, i)
    BY <2>2 DEF IInv, Tracked, Awaited, Waits, WaitsFor
  <2>6. CASE Names(record, i) /\ proc[i].st = "serving"
    BY <2>3, <2>6
  <2>7. CASE \E d \in Commands : WaitsFor(d, i)
    <3>1. PICK d \in Commands : WaitsFor(d, i)
      BY <2>7
    <3>. QED
      BY <2>4, <3>1
  <2>. QED
    BY <2>5, <2>6, <2>7
<1>8. ASSUME NEW i \in Pids PROVE Logged(i)'
  <2>. SUFFICES ASSUME Serves(i), proc[i].managed, Names(record', i)
               PROVE  record'.token \in logs'
    BY DEF Logged, Serves, Names
  <2>1. CASE record' = record /\ logs' = logs
    BY <2>1 DEF IInv, Logged
  <2>2. CASE record' = NoRecord
    BY <2>2 DEF Names
  <2>3. CASE cmd[c].pc = "record" /\ record' = cmd[c].seen /\ logs' = logs
    BY <1>3, <2>3 DEF CommandOK, Waits
  <2>. QED
    BY <2>1, <2>2, <2>3 DEF MovesRecord
<1>9. record' = record \/ record = NoRecord \/ Gone(record)
  BY <1>3 DEF MovesRecord, CommandOK, Starting
<1>10. [Lock!Next]_holder
  BY DEF MovesInLock, Lock!Next, Lock!Enter, Lock!Leave
<1>11. IInv'
  BY <1>1, <1>2, <1>4, <1>5, <1>6, <1>7, <1>8 DEF IInv
<1>. QED
  BY <1>9, <1>10, <1>11 DEF StepOK

\* Steps of a process on its own.
MovesByItself(i) ==
  \/ holder' = holder /\ (proc'[i].st = "recording" <=> proc[i].st = "recording")
  \/ holder = NoProc /\ holder' = i /\ proc'[i].st = "recording"
  \/ holder = i /\ holder' = NoProc /\ proc'[i].st # "recording"

LEMMA ProcessStepOK ==
  ASSUME IInv, NEW i \in Pids, NEW p, Change(i, p), MovesByItself(i),
         Started(i, p) => ~p.managed,
         UNCHANGED <<record, cmd, logs, abandoned>>
  PROVE  StepOK
<1>1. ProcInv' /\ Ages
  BY ChangeKeeps DEF IInv
<1>2. proc \in [Pids -> Process] /\ proc'[i] = p /\ \A j \in Pids \ {i} : proc'[j] = proc[j]
  BY DEF IInv, ProcInv, Change
<1>3. LockInv' /\ holder' \in Commands \cup Pids \cup {NoProc}
  <2>1. holder \in Commands \cup Pids \cup {NoProc} /\ LockInv
    BY DEF IInv, TypeOK
  <2>2. i \notin Commands /\ NoProc \notin Commands /\ NoProc \notin Pids
    BY NamesAssumption
  <2>3. holder' \in Commands \cup Pids \cup {NoProc}
    BY <2>1 DEF MovesByItself
  <2>4. ASSUME NEW c \in Commands PROVE cmd[c].pc \in Inside <=> holder' = c
    <3>1. cmd[c].pc \in Inside <=> holder = c
      BY <2>1 DEF LockInv
    <3>. QED
      BY <2>2, <3>1 DEF MovesByItself
  <2>5. ASSUME NEW j \in Pids PROVE proc'[j].st = "recording" <=> holder' = j
    <3>1. proc[j].st = "recording" <=> holder = j
      BY <2>1 DEF LockInv
    <3>. QED
      BY <1>2, <2>2, <3>1 DEF MovesByItself
  <2>. QED
    BY <2>3, <2>4, <2>5 DEF LockInv
<1>4. TypeOK'
  BY <1>1, <1>3 DEF IInv, TypeOK, ProcInv, Process
<1>5. RecordInv'
  BY <1>1, AgesKeeps DEF IInv, RecordInv
<1>6. \A c \in Commands : CommandOK(c)'
  BY <1>1, CommandStays
<1>7. ASSUME NEW j \in Pids, proc'[j].managed, proc'[j].st \in {"booting", "serving"}
      PROVE  Tracked(j)' /\ Logged(j)'
  <2>1. proc'[j].token <= launches
    <3>1. CASE j = i /\ Started(i, p)
      BY <1>2, <1>7, <3>1
    <3>2. CASE j # i \/ Moved(i, p)
      <4>1. launches \in Nat /\ proc[j].token \in 0..launches
        BY BoundsAssumption DEF IInv, ProcInv
      <4>2. proc'[j].token \in {proc[j].token, NoToken}
        BY <1>2, <3>2, MovesWell DEF MovedWell, IInv
      <4>. QED
        BY <4>1, <4>2 DEF NoToken
    <3>. QED
      BY <3>1, <3>2 DEF Change
  <2>2. /\ proc[j].managed /\ proc'[j].token = proc[j].token
        /\ proc[j].st \in {"booting", "serving"}
        /\ proc'[j].st = "booting" => proc[j].st = "booting"
        /\ \A r : Names(r, j)' <=> Names(r, j)
    BY <1>1, <1>7, <2>1, OldProcess
  <2>3. Tracked(j) /\ Logged(j)
    BY DEF IInv
  <2>4. Awaited(j, {"await"}) => Awaited(j, Waits)
    BY DEF Awaited, Waits
  <2>5. (Awaited(j, {"await"}) => Awaited(j, {"await"})') /\ (Awaited(j, Waits) => Awaited(j, Waits)')
    BY <2>2 DEF Awaited
  <2>6. Tracked(j)'
    BY <2>2, <2>3, <2>4, <2>5 DEF Tracked
  <2>7. Logged(j)'
    <3>1. Names(record, j) => proc[j].st # "booting"
      BY DEF IInv, RecordInv, Known, Bears, Late, Names
    <3>. QED
      BY <2>2, <2>3, <3>1 DEF Logged, Serves
  <2>. QED
    BY <2>6, <2>7
<1>8. \A j \in Pids : Tracked(j)' /\ Logged(j)'
  BY <1>7 DEF Tracked, Logged, Serves
<1>9. [Lock!Next]_holder
  BY DEF MovesByItself, Lock!Next, Lock!Enter, Lock!Leave
<1>10. IInv'
  BY <1>1, <1>3, <1>4, <1>5, <1>6, <1>8 DEF IInv
<1>. QED
  BY <1>9, <1>10 DEF StepOK

-----------------------------------------------------------------------------
(* Steps of a command that signals or launches a process; a daemon that      *)
(* records itself.                                                           *)

LEMMA SigtermMoves ==
  ASSUME ProcInv, NEW i \in Pids, UNCHANGED launches
  PROVE  /\ Moved(i, FreeProc)
         /\ Moved(i, AfterSigterm(proc[i]))
         /\ AfterSigterm(proc[i]).st \notin {"booting", "serving", "recording"}
<1>1. CASE proc[i].st = "serving"
  <2>1. AfterSigterm(proc[i]) = [proc[i] EXCEPT !.st = "stopping"]
    BY <1>1 DEF AfterSigterm
  <2>2. AfterSigterm(proc[i]).st = "stopping"
    BY <2>1 DEF ProcInv, Process
  <2>. QED
    BY <1>1, <2>1, <2>2 DEF Moved, Moves, ProcStates
<1>2. CASE proc[i].st # "serving"
  BY <1>2 DEF AfterSigterm, Moved, FreeProc
<1>. QED
  BY <1>1, <1>2

LEMMA SignalOK ==
  ASSUME IInv, NEW c \in Commands, NEW i \in Pids, NEW p,
         proc' = [proc EXCEPT ![i] = p], Moved(i, p), p.st # "recording",
         OnlyMoves(c), CommandOK(c)', UNCHANGED <<record, logs, abandoned>>,
         holder = c,
         \/ holder' = c /\ cmd'[c].pc \in Inside
         \/ holder' = NoProc /\ cmd'[c].pc \notin Inside,
         cmd[c].pc \in Waits =>
           \A j \in Pids : Names(cmd[c].seen, j) => proc'[j].st \notin {"booting", "serving"}
  PROVE  StepOK
<1>1. ProcInv' /\ Ages
  BY ChangeKeeps DEF IInv, Change
<1>2. /\ proc \in [Pids -> Process] /\ proc'[i] = p /\ \A j \in Pids \ {i} : proc'[j] = proc[j]
  BY DEF IInv, ProcInv
<1>3. /\ c \notin Pids /\ NoProc \notin Commands /\ NoProc \notin Pids /\ LockInv
  BY NamesAssumption DEF IInv
<1>4. LockInv' /\ holder' \in Commands \cup Pids \cup {NoProc}
  <2>1. ASSUME NEW d \in Commands PROVE cmd'[d].pc \in Inside <=> holder' = d
    <3>1. d # c => cmd'[d] = cmd[d] /\ cmd[d].pc \notin Inside
      BY <1>3 DEF OnlyMoves, LockInv
    <3>. QED
      BY <1>3, <3>1
  <2>2. ASSUME NEW j \in Pids PROVE proc'[j].st = "recording" <=> holder' = j
    BY <1>2, <1>3 DEF LockInv
  <2>. QED
    BY <2>1, <2>2 DEF LockInv
<1>5. TypeOK'
  BY <1>1, <1>4 DEF IInv, TypeOK, ProcInv, Process, OnlyMoves, CommandType
<1>6. RecordInv'
  BY <1>1, AgesKeeps DEF IInv, RecordInv
<1>7. \A d \in Commands : CommandOK(d)'
  BY <1>1, CommandStays DEF OnlyMoves
<1>8. ASSUME NEW j \in Pids, proc'[j].managed, proc'[j].st \in {"booting", "serving"}
      PROVE  Tracked(j)' /\ Logged(j)'
  <2>1. proc'[j].token <= launches
    <3>1. launches \in Nat /\ proc[j].token \in 0..launches
      BY BoundsAssumption DEF IInv, ProcInv
    <3>2. proc'[j].token \in {proc[j].token, NoToken}
      BY <1>2, MovesWell DEF MovedWell, IInv
    <3>. QED
      BY <3>1, <3>2 DEF NoToken
  <2>2. /\ proc[j].managed /\ proc'[j].token = proc[j].token
        /\ proc[j].st \in {"booting", "serving"}
        /\ proc'[j].st = "booting" => proc[j].st = "booting"
        /\ \A r : Names(r, j)' <=> Names(r, j)
    BY <1>1, <1>8, <2>1, OldProcess
  <2>3. Tracked(j) /\ Logged(j)
    BY DEF IInv
  <2>4. Awaited(j, {"await"}) => Awaited(j, Waits)
    BY DEF Awaited, Waits
  <2>5. ASSUME NEW pcs \in SUBSET Waits, Awaited(j, pcs) PROVE Awaited(j, pcs)'
    <3>1. PICK d \in Commands : cmd[d].pc \in pcs /\ Names(cmd[d].seen, j)
      BY <2>5 DEF Awaited
    <3>2. d # c
      BY <1>8, <3>1
    <3>3. cmd'[d] = cmd[d]
      BY <3>2 DEF OnlyMoves
    <3>. QED
      BY <2>2, <3>1, <3>3 DEF Awaited
  <2>6. Tracked(j)'
    <3>1. {"await"} \in SUBSET Waits /\ Waits \in SUBSET Waits
      BY DEF Waits
    <3>. QED
      BY <2>2, <2>3, <2>4, <2>5, <3>1 DEF Tracked
  <2>7. Logged(j)'
    <3>1. Names(record, j) => proc[j].st # "booting"
      BY DEF IInv, RecordInv, Known, Bears, Late, Names
    <3>. QED
      BY <2>2, <2>3, <3>1 DEF Logged, Serves
  <2>. QED
    BY <2>6, <2>7
<1>9. \A j \in Pids : Tracked(j)' /\ Logged(j)'
  BY <1>8 DEF Tracked, Logged, Serves
<1>10. [Lock!Next]_holder
  BY DEF Lock!Next, Lock!Leave
<1>11. IInv'
  BY <1>1, <1>4, <1>5, <1>6, <1>7, <1>9 DEF IInv
<1>. QED
  BY <1>10, <1>11 DEF StepOK

LEMMA LaunchOK ==
  ASSUME IInv, NEW c \in Commands, Launch(c)
  PROVE  StepOK
<1>1. PICK i \in Pids, q \in Ports :
        /\ proc[i] = FreeProc
        /\ proc' = [proc EXCEPT ![i] = [st |-> "booting", port |-> q,
                                        token |-> launches', managed |-> TRUE]]
        /\ cmd' = [cmd EXCEPT ![c].pc = "await",
                              ![c].seen = [pid |-> i, port |-> q, token |-> launches']]
  BY DEF Launch
<1>. PICK t : t = launches + 1
  OBVIOUS
<1>. DEFINE p == [st |-> "booting", port |-> q, token |-> t, managed |-> TRUE]
            r == [pid |-> i, port |-> q, token |-> t]
<1>2. /\ cmd[c].pc = "launch" /\ launches < MaxLaunches /\ launches' = t
      /\ logs' = logs \cup {t} /\ UNCHANGED <<record, holder, abandoned>>
  BY DEF Launch
<1>3. launches \in 0..MaxLaunches /\ MaxLaunches \in Nat
  BY BoundsAssumption DEF IInv, ProcInv
<1>4. t \in Tokens /\ t \in Nat /\ ~(t <= launches)
  BY <1>2, <1>3 DEF Tokens
<1>5. Change(i, p)
  BY <1>1, <1>2 DEF Change, Started
<1>6. ProcInv' /\ Ages
  BY <1>5, ChangeKeeps DEF IInv
<1>7. /\ proc \in [Pids -> Process] /\ proc'[i] = p /\ \A j \in Pids \ {i} : proc'[j] = proc[j]
  BY <1>1, <1>2 DEF IInv, ProcInv
<1>8. /\ OnlyMoves(c) /\ cmd'[c].pc = "await" /\ cmd'[c].seen = r /\ r \in Records
      /\ cmd[c].pc \in Inside /\ cmd'[c].pc \in Inside
  <2>1. r \in Records /\ cmd \in [Commands -> CommandType]
    BY <1>4 DEF Records, IInv, TypeOK, CommandType
  <2>2. PICK m : m = [cmd[c] EXCEPT !.pc = "await", !.seen = r]
    OBVIOUS
  <2>3. m \in CommandType /\ m.pc = "await" /\ m.seen = r
    BY <2>1, <2>2 DEF CommandType, PCs
  <2>4. cmd' = [cmd EXCEPT ![c] = m]
    BY <1>1, <1>2, <2>1, <2>2 DEF CommandType
  <2>5. cmd' \in [Commands -> CommandType] /\ cmd'[c] = m /\ \A d \in Commands \ {c} : cmd'[d] = cmd[d]
    BY <2>1, <2>3, <2>4
  <2>. QED
    BY <1>2, <2>1, <2>3, <2>5 DEF OnlyMoves, Inside
<1>9. LockInv'
  <2>1. ASSUME NEW d \in Commands PROVE cmd'[d].pc \in Inside <=> holder' = d
    BY <1>2, <1>8 DEF OnlyMoves, IInv, LockInv
  <2>2. ASSUME NEW j \in Pids PROVE proc'[j].st = "recording" <=> holder' = j
    <3>1. FreeProc.st # "recording" /\ p.st # "recording"
      BY DEF FreeProc
    <3>. QED
      BY <1>1, <1>2, <1>7, <3>1 DEF IInv, LockInv
  <2>. QED
    BY <2>1, <2>2 DEF LockInv
<1>10. TypeOK'
  BY <1>2, <1>4, <1>6, <1>8 DEF IInv, TypeOK, ProcInv, Process, OnlyMoves, CommandType
<1>11. RecordInv'
  BY <1>2, <1>6, AgesKeeps DEF IInv, RecordInv
<1>12. \A d \in Commands : CommandOK(d)'
  <2>1. CommandOK(c)'
    <3>1. Launched(r)'
      <4>1. \A j \in Pids : proc'[j].token = t => j = i
        BY <1>4, <1>7 DEF IInv, ProcInv
      <4>. QED
        BY <1>2, <1>3, <1>7, <1>8, <4>1 DEF Launched, Bears
    <3>2. record' = NoRecord
      BY <1>2 DEF IInv, CommandOK, Starting
    <3>3. r # NoRecord /\ r.token \in logs'
      BY <1>2, <1>8, NoRecordAssumption
    <3>. QED
      BY <1>8, <3>1, <3>2, <3>3 DEF CommandOK, Waits, Stopping
  <2>2. ASSUME NEW d \in Commands \ {c} PROVE CommandOK(d)'
    <3>1. holder = c
      BY <1>2, <1>8 DEF IInv, LockInv
    <3>. QED
      BY <1>6, <1>8, <3>1, CommandStays DEF OnlyMoves
  <2>. QED
    BY <2>1, <2>2
<1>13. Tracked(i)' /\ Logged(i)'
  <2>1. Names(cmd[c].seen, i)'
    BY <1>7, <1>8, NoRecordAssumption DEF Names
  <2>2. Awaited(i, {"await"})'
    BY <1>8, <2>1 DEF Awaited
  <2>. QED
    BY <1>7, <2>2 DEF Tracked, Logged, Serves
<1>14. ASSUME NEW j \in Pids \ {i}, proc[j].managed, proc[j].st \in {"booting", "serving"}
      PROVE  Tracked(j)' /\ Logged(j)'
  <2>1. \A x : Names(x, j)' <=> Names(x, j)
    BY <1>7 DEF Names
  <2>2. Tracked(j) /\ Logged(j)
    BY DEF IInv
  <2>3. ASSUME NEW pcs \in SUBSET Waits, Awaited(j, pcs) PROVE Awaited(j, pcs)'
    <3>1. PICK d \in Commands : cmd[d].pc \in pcs /\ Names(cmd[d].seen, j)
      BY <2>3 DEF Awaited
    <3>2. cmd'[d] = cmd[d]
      BY <1>2, <1>8, <3>1 DEF OnlyMoves, Waits
    <3>. QED
      BY <2>1, <3>1, <3>2 DEF Awaited
  <2>4. {"await"} \in SUBSET Waits /\ Waits \in SUBSET Waits
    BY DEF Waits
  <2>. QED
    BY <1>2, <1>7, <2>1, <2>2, <2>3, <2>4 DEF Tracked, Logged, Serves
<1>15. \A j \in Pids : Tracked(j)' /\ Logged(j)'
  BY <1>7, <1>13, <1>14 DEF Tracked, Logged, Serves
<1>16. IInv'
  BY <1>6, <1>9, <1>10, <1>11, <1>12, <1>15 DEF IInv
<1>. QED
  BY <1>2, <1>16 DEF StepOK

LEMMA RecordForegroundOK ==
  ASSUME IInv, NEW i \in Pids, RecordForeground(i)
  PROVE  StepOK
<1>. PICK mine : mine = [pid |-> i, port |-> proc[i].port, token |-> proc[i].token]
  OBVIOUS
<1>1. PICK live \in IF record = NoRecord THEN {"no"}
                    ELSE IF record.pid = i THEN {"no"} ELSE RecordIsLive(record) :
        /\ record' = IF live = "no" THEN mine ELSE record
        /\ proc' = [proc EXCEPT ![i] = IF live = "garbage" THEN FreeProc
                                       ELSE [@ EXCEPT !.st = "serving"]]
  BY DEF RecordForeground
<1>2. /\ proc[i].st = "recording" /\ holder = i /\ holder' = NoProc
      /\ UNCHANGED <<cmd, launches, logs, abandoned>>
  BY DEF RecordForeground, Leave, Lock!Leave
<1>3. /\ proc \in [Pids -> Process] /\ proc[i].token # NoToken /\ ~proc[i].managed
      /\ proc[i].token \in 0..launches /\ launches \in 0..MaxLaunches
  BY <1>2 DEF IInv, ProcInv
<1>. DEFINE p == IF live = "garbage" THEN FreeProc ELSE [proc[i] EXCEPT !.st = "serving"]
<1>4. /\ Change(i, p) /\ Moved(i, p) /\ p.st # "recording" /\ ~p.managed
      /\ live # "garbage" => p.st = "serving" /\ p.port = proc[i].port /\ p.token = proc[i].token
  <2>1. CASE live = "garbage"
    BY <1>1, <1>2, <2>1 DEF Change, Moved, FreeProc
  <2>2. CASE live # "garbage"
    <3>1. p = [proc[i] EXCEPT !.st = "serving"]
      BY <2>2
    <3>2. p.st = "serving" /\ p.port = proc[i].port /\ p.token = proc[i].token /\ ~p.managed
      BY <1>3, <3>1 DEF Process
    <3>3. Moved(i, p)
      BY <1>2, <3>1 DEF Moved, Moves, ProcStates
    <3>. QED
      BY <1>1, <2>2, <3>2, <3>3 DEF Change
  <2>. QED
    BY <2>1, <2>2
<1>. HIDE DEF p
<1>5. ProcInv' /\ Ages
  BY <1>4, ChangeKeeps DEF IInv
<1>6. /\ proc'[i] = p /\ \A j \in Pids \ {i} : proc'[j] = proc[j]
  BY <1>3, <1>4 DEF Change
<1>7. record' = record \/ record = NoRecord \/ Gone(record)
  <2>1. CASE record # NoRecord /\ record.pid = i
    BY <1>2, <2>1 DEF IInv, RecordInv, Known, Bears, Gone, Late
  <2>2. CASE record # NoRecord /\ record.pid # i /\ live = "no"
    BY <1>1, <2>2, NoMeansGone DEF IInv, RecordInv
  <2>. QED
    BY <1>1, <2>1, <2>2
<1>8. RecordInv' /\ record' \in Records \cup {NoRecord}
  <2>1. CASE live = "no"
    <3>1. mine \in Records /\ mine.token <= launches
      <4>1. proc[i].port \in Ports
        BY <1>2 DEF IInv, ProcInv, Early
      <4>. QED
        BY <1>3, <4>1, BoundsAssumption DEF Records, Process, NoToken
    <3>2. \A j \in Pids : proc'[j].token = mine.token => j = i
      BY <1>3, <1>4, <1>5, <1>6, <2>1 DEF ProcInv
    <3>3. proc'[i].st = "serving" /\ proc'[i].port = mine.port
      BY <1>4, <1>6, <2>1
    <3>4. Known(mine)'
      BY <1>2, <3>1, <3>2, <3>3 DEF Known, Bears, Late
    <3>. QED
      BY <1>1, <2>1, <3>1, <3>4 DEF RecordInv, Known
  <2>2. CASE live # "no"
    BY <1>1, <1>5, <2>2, AgesKeeps DEF IInv, RecordInv, TypeOK
  <2>. QED
    BY <2>1, <2>2
<1>9. LockInv'
  <2>1. i \notin Commands /\ NoProc \notin Commands /\ NoProc \notin Pids
    BY NamesAssumption
  <2>. QED
    BY <1>2, <1>4, <1>6, <2>1 DEF IInv, LockInv
<1>10. TypeOK'
  BY <1>2, <1>5, <1>8 DEF IInv, TypeOK, ProcInv, Process
<1>11. ASSUME NEW c \in Commands PROVE CommandOK(c)'
  BY <1>2, <1>5, CommandStays, NamesAssumption
<1>12. ASSUME NEW j \in Pids, proc'[j].managed, proc'[j].st \in {"booting", "serving"}
       PROVE  Tracked(j)' /\ Logged(j)'
  <2>1. j # i /\ proc'[j] = proc[j]
    BY <1>4, <1>6, <1>12
  <2>2. \A r : Names(r, j)' <=> Names(r, j)
    BY <2>1 DEF Names
  <2>3. \A pcs : Awaited(j, pcs)' <=> Awaited(j, pcs)
    BY <1>2, <2>2 DEF Awaited
  <2>4. Tracked(j) /\ Logged(j)
    BY DEF IInv
  <2>5. proc[j].st = "serving" /\ Names(record, j) => record' = record
    BY <1>7, GoneIsNotServing DEF Names, Serves
  <2>6. ~Names(mine, j)
    BY <2>1 DEF Names
  <2>7. Tracked(j)'
    BY <1>2, <2>1, <2>2, <2>3, <2>4, <2>5 DEF Tracked
  <2>8. Logged(j)'
    BY <1>1, <1>2, <2>1, <2>2, <2>4, <2>6 DEF Logged, Serves
  <2>. QED
    BY <2>7, <2>8
<1>13. \A j \in Pids : Tracked(j)' /\ Logged(j)'
  BY <1>12 DEF Tracked, Logged, Serves
<1>14. [Lock!Next]_holder
  BY <1>2 DEF Lock!Next, Lock!Leave
<1>15. IInv'
  BY <1>5, <1>8, <1>9, <1>10, <1>11, <1>13 DEF IInv
<1>. QED
  BY <1>7, <1>14, <1>15 DEF StepOK

-----------------------------------------------------------------------------
(* The actions of a command. *)

Outside == PCs \ (Inside \cup {"discard"})

LEMMA CommandMoves ==
  ASSUME IInv, NEW c \in Commands
  PROVE  /\ \A pc \in PCs : Goto(c, pc) =>
              OnlyMoves(c) /\ cmd'[c].pc = pc /\ cmd'[c].seen = cmd[c].seen
         /\ Finish(c) => OnlyMoves(c) /\ cmd'[c].pc = "idle" /\ cmd'[c].seen = NoRecord
         /\ NotRunning(c) => /\ OnlyMoves(c) /\ cmd'[c].pc \in {"startLock", "local", "idle"}
                             /\ cmd'[c].seen \in {NoRecord, cmd[c].seen}
         /\ \A r \in Records : Running(c, r) =>
              /\ OnlyMoves(c) /\ cmd'[c].pc \in {"session", "idle"}
              /\ cmd'[c].seen \in {NoRecord, r}
<1>1. cmd \in [Commands -> CommandType] /\ cmd[c] \in CommandType
  BY DEF IInv, TypeOK, CommandType
<1>2. /\ Idle \in CommandType /\ Idle.pc = "idle" /\ Idle.seen = NoRecord
      /\ {"startLock", "local", "idle", "session"} \subseteq PCs
  BY DEF Idle, CommandType, Ops, PCs
<1>3. \A x \in CommandType : cmd' = [cmd EXCEPT ![c] = x] => OnlyMoves(c) /\ cmd'[c] = x
  BY <1>1 DEF OnlyMoves
<1>4. ASSUME NEW pc \in PCs, Goto(c, pc)
      PROVE  OnlyMoves(c) /\ cmd'[c].pc = pc /\ cmd'[c].seen = cmd[c].seen
  <2>1. [cmd[c] EXCEPT !.pc = pc] \in CommandType
    BY <1>1 DEF CommandType
  <2>2. cmd' = [cmd EXCEPT ![c] = [cmd[c] EXCEPT !.pc = pc]]
    BY <1>4 DEF Goto
  <2>. QED
    BY <1>1, <1>3, <2>1, <2>2 DEF CommandType
<1>5. Finish(c) => OnlyMoves(c) /\ cmd'[c] = Idle
  BY <1>2, <1>3 DEF Finish
<1>6. ASSUME NEW pc \in PCs, NEW r \in Records \cup {NoRecord},
             cmd' = [cmd EXCEPT ![c].pc = pc, ![c].seen = r]
      PROVE  OnlyMoves(c) /\ cmd'[c].pc = pc /\ cmd'[c].seen = r
  <2>1. [cmd[c] EXCEPT !.pc = pc, !.seen = r] \in CommandType
    BY <1>1 DEF CommandType
  <2>2. cmd' = [cmd EXCEPT ![c] = [cmd[c] EXCEPT !.pc = pc, !.seen = r]]
    BY <1>1, <1>6
  <2>. QED
    BY <1>1, <1>3, <2>1, <2>2 DEF CommandType
<1>7. NotRunning(c) => /\ OnlyMoves(c) /\ cmd'[c].pc \in {"startLock", "local", "idle"}
                       /\ cmd'[c].seen \in {NoRecord, cmd[c].seen}
  BY <1>2, <1>4, <1>5, <1>6 DEF NotRunning
<1>8. \A r \in Records : Running(c, r) =>
        OnlyMoves(c) /\ cmd'[c].pc \in {"session", "idle"} /\ cmd'[c].seen \in {NoRecord, r}
  BY <1>2, <1>4, <1>5, <1>6 DEF Running
<1>. QED
  BY <1>2, <1>4, <1>5, <1>7, <1>8

\* A command that ends up outside the lock.
LEMMA OutsideOK ==
  ASSUME IInv, NEW c \in Commands, UNCHANGED <<proc, launches>>,
         OnlyMoves(c), cmd'[c].pc \in Outside,
         cmd'[c].seen # NoRecord => Known(cmd'[c].seen),
         \/ cmd[c].pc \notin Inside /\ holder' = holder
         \/ holder = c /\ holder' = NoProc,
         MovesRecord(c), HandsOver(c),
         logs' \subseteq Tokens, abandoned \subseteq abandoned', abandoned' \subseteq Tokens
  PROVE  StepOK
<1>1. ProcInv' /\ Ages
  BY AgesWithout DEF IInv
<1>2. cmd'[c].pc \notin Inside \cup {"discard"}
  BY DEF Outside
<1>3. CommandOK(c)'
  <2>1. Known(cmd'[c].seen) => Known(cmd[c].seen)'
    BY DEF Known, Bears
  <2>. QED
    BY <1>2, <2>1 DEF CommandOK, Inside, Waits, Starting, Stopping
<1>4. MovesInLock(c)
  BY <1>2 DEF MovesInLock
<1>. QED
  BY <1>3, <1>4, CommandStepOK

\* What is known at a point of command c.
At(c) ==
  /\ CommandOK(c) /\ (cmd[c].pc \in Inside <=> holder = c)
  /\ cmd[c].seen \in Records \cup {NoRecord} /\ record \in Records \cup {NoRecord}
  /\ record # NoRecord => Known(record)
  /\ logs \subseteq Tokens /\ abandoned \subseteq Tokens
  /\ "idle" \in Outside /\ "startLock" \in Outside /\ "stopLock" \in Outside
  /\ "probe" \in Outside /\ "local" \in Outside /\ "session" \in Outside

LEMMA KnownAt == ASSUME IInv, NEW c \in Commands PROVE At(c)
<1>1. cmd[c].seen \in Records \cup {NoRecord}
  BY DEF IInv, TypeOK
<1>. QED
  BY <1>1 DEF At, IInv, LockInv, RecordInv, TypeOK, Outside, PCs, Inside

LEMMA BeginOK == ASSUME IInv, NEW c \in Commands, Begin(c) PROVE StepOK
<1>1. PICK op \in Ops \ {"none"} :
        cmd' = [cmd EXCEPT ![c].op = op,
                 ![c].pc = CASE op = "start" -> "startLock"
                             [] op \in {"stop", "forceStop"} -> "stopLock"
                             [] OTHER -> "probe",
                 ![c].seen = IF op \in {"status", "ensure", "stdio"} THEN record ELSE NoRecord]
  BY DEF Begin
<1>2. /\ cmd[c] = Idle /\ cmd[c].pc = "idle" /\ At(c)
      /\ UNCHANGED <<record, proc, holder, launches, logs, abandoned>>
  BY KnownAt DEF Begin, Idle
<1>3. cmd \in [Commands -> CommandType]
  BY DEF IInv, TypeOK, CommandType
<1>4. PICK pc \in {"startLock", "stopLock", "probe"}, r \in {record, NoRecord} :
        cmd' = [cmd EXCEPT ![c].op = op, ![c].pc = pc, ![c].seen = r]
  BY <1>1
<1>5. pc \in Outside /\ pc \in PCs
  BY <1>2 DEF At, Outside
<1>6. OnlyMoves(c) /\ cmd'[c].pc = pc /\ cmd'[c].seen = r
  <2>. DEFINE x == [cmd[c] EXCEPT !.op = op, !.pc = pc, !.seen = r]
  <2>1. x \in CommandType /\ x.pc = pc /\ x.seen = r
    BY <1>2, <1>3, <1>5 DEF CommandType, At
  <2>2. cmd' = [cmd EXCEPT ![c] = x]
    BY <1>3, <1>4
  <2>. QED
    BY <1>3, <2>1, <2>2 DEF OnlyMoves
<1>. QED
  BY <1>2, <1>5, <1>6, OutsideOK DEF At, MovesRecord, HandsOver, Waits, Inside

LEMMA StatusProbeOK == ASSUME IInv, NEW c \in Commands, StatusProbe(c) PROVE StepOK
<1>1. /\ cmd[c].pc = "probe" /\ At(c)
      /\ UNCHANGED <<record, proc, holder, launches, logs, abandoned>>
  BY KnownAt DEF StatusProbe
<1>2. cmd[c].seen # NoRecord => Known(cmd[c].seen) /\ cmd[c].seen \in Records
  BY <1>1 DEF At, CommandOK
<1>3. MovesRecord(c) /\ HandsOver(c) /\ cmd[c].pc \notin Inside
  BY <1>1 DEF MovesRecord, HandsOver, Waits, Inside
<1>4. CASE NotRunning(c) \/ Finish(c) \/ (cmd[c].seen # NoRecord /\ Running(c, cmd[c].seen))
  <2>1. /\ OnlyMoves(c) /\ cmd'[c].pc \in Outside
        /\ cmd'[c].seen \in {NoRecord, cmd[c].seen}
    BY <1>1, <1>2, <1>4, CommandMoves DEF At
  <2>. QED
    BY <1>1, <1>2, <1>3, <2>1, OutsideOK DEF At
<1>5. CASE /\ cmd[c].seen # NoRecord /\ "no" \in RecordIsLive(cmd[c].seen)
           /\ Goto(c, "discard")
  <2>1. OnlyMoves(c) /\ cmd'[c].pc = "discard" /\ cmd'[c].seen = cmd[c].seen
    BY <1>5, CommandMoves DEF PCs
  <2>2. Gone(cmd[c].seen)
    BY <1>2, <1>5, NoMeansGone DEF IInv
  <2>3. CommandOK(c)'
    BY <1>1, <1>2, <1>5, <2>1, <2>2
    DEF CommandOK, Known, Gone, Bears, Waits, Starting, Stopping
  <2>4. MovesInLock(c)
    BY <1>1, <2>1 DEF MovesInLock, Inside
  <2>. QED
    BY <1>1, <1>3, <2>1, <2>3, <2>4, CommandStepOK DEF At
<1>. QED
  BY <1>1, <1>4, <1>5 DEF StatusProbe

LEMMA DiscardOK ==
  ASSUME IInv, NEW c \in Commands, DiscardEnter(c) \/ DiscardGivesUp(c) \/ Discard(c)
  PROVE  StepOK
<1>1. /\ cmd[c].pc \in {"discard", "discarding"} /\ At(c) /\ HandsOver(c)
      /\ UNCHANGED <<proc, launches, logs, abandoned>>
  BY KnownAt DEF DiscardEnter, DiscardGivesUp, Discard, HandsOver, Waits
<1>2. Known(cmd[c].seen) /\ Gone(cmd[c].seen) /\ cmd[c].seen # NoRecord
  BY <1>1 DEF At, CommandOK
<1>3. CASE DiscardEnter(c)
  <2>1. /\ OnlyMoves(c) /\ cmd'[c].pc = "discarding" /\ cmd'[c].seen = cmd[c].seen
        /\ record' = record /\ holder = NoProc /\ holder' = c
    BY <1>3, CommandMoves DEF PCs, DiscardEnter, Lock!Enter
  <2>2. CommandOK(c)'
    BY <1>1, <1>2, <2>1 DEF CommandOK, Known, Gone, Bears, Waits, Starting, Stopping
  <2>3. MovesInLock(c) /\ MovesRecord(c)
    BY <1>1, <2>1 DEF MovesInLock, Inside, MovesRecord
  <2>. QED
    BY <1>1, <2>1, <2>2, <2>3, CommandStepOK DEF At
<1>4. CASE DiscardGivesUp(c)
  <2>1. /\ OnlyMoves(c) /\ cmd'[c].pc \in Outside /\ cmd'[c].seen \in {NoRecord, cmd[c].seen}
        /\ record' = record /\ holder' = holder /\ cmd[c].pc = "discard"
    BY <1>1, <1>4, CommandMoves DEF DiscardGivesUp, At
  <2>2. MovesRecord(c) /\ cmd[c].pc \notin Inside
    BY <1>1, <2>1 DEF Inside, MovesRecord
  <2>. QED
    BY <1>1, <1>2, <2>1, <2>2, OutsideOK DEF At
<1>5. CASE Discard(c)
  <2>1. /\ OnlyMoves(c) /\ cmd'[c].pc \in Outside /\ cmd'[c].seen \in {NoRecord, cmd[c].seen}
        /\ holder' = NoProc /\ holder = c
    BY <1>1, <1>5, CommandMoves DEF Discard, At, Leave, Lock!Leave
  <2>2. record' = record \/ (record' = NoRecord /\ Gone(record))
    BY <1>2, <1>5 DEF Discard, DeleteIfUnchanged, SameIdentity
  <2>3. MovesRecord(c)
    BY <1>1, <2>1, <2>2 DEF MovesRecord
  <2>. QED
    BY <1>1, <1>2, <2>1, <2>3, OutsideOK DEF At
<1>. QED
  BY <1>3, <1>4, <1>5

LEMMA EnterOK ==
  ASSUME IInv, NEW c \in Commands, EnterLocked(c) \/ EnterTimesOut(c) PROVE StepOK
<1>1. /\ cmd[c].pc \in {"startLock", "stopLock"} /\ At(c) /\ HandsOver(c)
      /\ MovesRecord(c) /\ cmd[c].pc \notin Inside
      /\ UNCHANGED <<record, proc, launches, logs, abandoned>>
  BY KnownAt DEF EnterLocked, EnterTimesOut, HandsOver, Waits, MovesRecord, Inside
<1>2. CASE EnterLocked(c)
  <2>1. PICK pc \in {"startCheck", "stopCheck"} : Goto(c, pc)
    BY <1>2 DEF EnterLocked
  <2>2. /\ OnlyMoves(c) /\ cmd'[c].pc = pc /\ cmd'[c].seen = cmd[c].seen
        /\ holder = NoProc /\ holder' = c
    BY <1>2, <2>1, CommandMoves DEF PCs, EnterLocked, Lock!Enter
  <2>3. CommandOK(c)'
    BY <1>1, <2>2 DEF At, CommandOK, Known, Bears, Waits, Starting, Stopping
  <2>4. MovesInLock(c)
    BY <1>1, <2>2 DEF MovesInLock, Inside
  <2>. QED
    BY <1>1, <2>2, <2>3, <2>4, CommandStepOK DEF At
<1>3. CASE EnterTimesOut(c)
  BY <1>1, <1>3, OutsideOK, CommandMoves DEF EnterTimesOut, At
<1>. QED
  BY <1>2, <1>3

LEMMA StartCheckOK == ASSUME IInv, NEW c \in Commands, StartCheck(c) PROVE StepOK
<1>1. PICK live \in IF record = NoRecord THEN {"no"} ELSE RecordIsLive(record) :
        IF live # "no"
        THEN Finish(c) /\ Leave(c) /\ UNCHANGED <<record, logs>>
        ELSE /\ DeleteIfUnchanged(record)
             /\ Goto(c, "launch")
             /\ logs' \in AfterPruning(logs)
             /\ UNCHANGED holder
  BY DEF StartCheck
<1>2. /\ cmd[c].pc = "startCheck" /\ At(c) /\ HandsOver(c) /\ holder = c
      /\ cmd[c].pc \in Inside /\ UNCHANGED <<proc, launches, abandoned>>
  BY KnownAt DEF StartCheck, HandsOver, Waits, At, Inside
<1>3. CASE live # "no"
  BY <1>1, <1>2, <1>3, OutsideOK, CommandMoves DEF At, MovesRecord, Leave, Lock!Leave
<1>4. CASE live = "no"
  <2>1. OnlyMoves(c) /\ cmd'[c].pc = "launch" /\ cmd'[c].seen = cmd[c].seen
    BY <1>1, <1>4, CommandMoves DEF PCs
  <2>2. record' = NoRecord /\ (record = NoRecord \/ Gone(record)) /\ logs' \subseteq logs
    <3>1. record' = NoRecord /\ logs' \subseteq logs
      BY <1>1, <1>4 DEF DeleteIfUnchanged, SameIdentity, AfterPruning
    <3>2. record # NoRecord => Gone(record)
      BY <1>1, <1>2, <1>4, NoMeansGone DEF IInv, At
    <3>. QED
      BY <3>1, <3>2
  <2>3. CommandOK(c)'
    BY <1>2, <2>1, <2>2 DEF At, CommandOK, Known, Bears, Waits, Starting, Stopping
  <2>4. MovesInLock(c) /\ MovesRecord(c)
    BY <1>1, <1>2, <1>4, <2>1, <2>2 DEF MovesInLock, MovesRecord, Inside
  <2>. QED
    BY <1>2, <2>1, <2>2, <2>3, <2>4, CommandStepOK DEF At
<1>. QED
  BY <1>3, <1>4

LEMMA AwaitOK ==
  ASSUME IInv, NEW c \in Commands,
         Healthy(c) \/ HealthCheckRaises(c) \/ RecordDaemon(c) \/ RecordFails(c)
  PROVE  StepOK
<1>1. /\ cmd[c].pc \in Waits /\ At(c) /\ holder = c
      /\ UNCHANGED <<proc, launches, logs>>
  BY KnownAt DEF Healthy, HealthCheckRaises, RecordDaemon, RecordFails, Waits, At, Inside
<1>. DEFINE r == cmd[c].seen
<1>2. r # NoRecord /\ r \in Records /\ r.token \in logs /\ r.token \in Tokens
  BY <1>1 DEF At, CommandOK
<1>3. CASE Healthy(c)
  <2>1. /\ OnlyMoves(c) /\ cmd'[c].pc = "record" /\ cmd'[c].seen = r
        /\ UNCHANGED <<record, holder, abandoned>> /\ cmd[c].pc = "await"
        /\ proc[r.pid].st \in {"serving", "stopping"}
    BY <1>3, CommandMoves DEF PCs, Healthy, Child
  <2>2. Launched(r) /\ record = NoRecord
    BY <1>1, <1>2, <2>1 DEF At, CommandOK, Starting
  <2>3. Known(r)
    BY <2>1, <2>2 DEF Launched, Known, Bears, Late
  <2>4. CommandOK(c)'
    BY <1>1, <1>2, <2>1, <2>2, <2>3 DEF CommandOK, Known, Bears, Waits, Stopping
  <2>5. MovesInLock(c) /\ MovesRecord(c) /\ HandsOver(c)
    BY <1>1, <2>1 DEF MovesInLock, MovesRecord, HandsOver, Inside
  <2>. QED
    BY <1>1, <2>1, <2>4, <2>5, CommandStepOK DEF At
<1>4. CASE HealthCheckRaises(c) \/ RecordFails(c)
  <2>1. /\ OnlyMoves(c) /\ cmd'[c].pc \in Outside /\ cmd'[c].seen = NoRecord
        /\ record' = record /\ holder' = NoProc
        /\ abandoned' = abandoned \cup {r.token}
    BY <1>1, <1>4, CommandMoves DEF At, HealthCheckRaises, RecordFails, Leave, Lock!Leave
  <2>2. MovesRecord(c) /\ HandsOver(c)
    BY <1>1, <2>1 DEF MovesRecord, HandsOver
  <2>. QED
    BY <1>1, <1>2, <2>1, <2>2, OutsideOK DEF At
<1>5. CASE RecordDaemon(c)
  <2>1. /\ OnlyMoves(c) /\ cmd'[c].pc \in Outside /\ cmd'[c].seen = NoRecord
        /\ record' = r /\ holder' = NoProc /\ UNCHANGED abandoned
        /\ cmd[c].pc = "record"
    BY <1>1, <1>5, CommandMoves DEF At, RecordDaemon, Leave, Lock!Leave
  <2>2. MovesRecord(c) /\ HandsOver(c)
    BY <1>1, <2>1 DEF MovesRecord, HandsOver
  <2>. QED
    BY <1>1, <2>1, <2>2, OutsideOK DEF At
<1>. QED
  BY <1>3, <1>4, <1>5

LEMMA UnhealthyOK == ASSUME IInv, NEW c \in Commands, Unhealthy(c) PROVE StepOK
<1>1. /\ cmd[c].pc = "await" /\ At(c) /\ holder = c /\ holder' = NoProc
      /\ UNCHANGED <<record, launches, logs, abandoned>>
  BY KnownAt DEF Unhealthy, At, Inside
<1>2. OnlyMoves(c) /\ cmd'[c].pc \in Outside /\ cmd'[c].seen = NoRecord
  BY <1>1, CommandMoves DEF Unhealthy, At
<1>3. cmd[c].seen # NoRecord /\ cmd[c].seen \in Records /\ Child(c) \in Pids
  BY <1>1 DEF At, CommandOK, Waits, Child, Records
<1>4. proc \in [Pids -> Process] /\ ProcInv
  BY DEF IInv, ProcInv
<1>5. proc[Child(c)].st # "recording"
  BY <1>1, <1>3, NamesAssumption DEF IInv, LockInv
<1>6. PICK p : /\ proc' = [proc EXCEPT ![Child(c)] = p] /\ Moved(Child(c), p)
               /\ p.st # "recording"
               /\ IsChild(c) => p.st \notin {"booting", "serving"}
  <2>1. CASE IsChild(c)
    BY <1>1, <1>3, <1>4, <2>1, SigtermMoves DEF Unhealthy
  <2>2. CASE ~IsChild(c)
    BY <1>1, <1>4, <1>5, <2>2 DEF Unhealthy, Moved
  <2>. QED
    BY <2>1, <2>2
<1>7. ASSUME NEW j \in Pids, Names(cmd[c].seen, j)
      PROVE  proc'[j].st \notin {"booting", "serving"}
  <2>1. j = Child(c) /\ IsChild(c)
    BY <1>7 DEF Names, Child, IsChild, Authorized
  <2>. QED
    BY <1>4, <1>6, <2>1
<1>8. CommandOK(c)' /\ cmd'[c].pc \notin Inside
  BY <1>2 DEF CommandOK, Outside, Inside, Waits, Starting, Stopping
<1>. QED
  BY <1>1, <1>2, <1>3, <1>6, <1>7, <1>8, SignalOK

LEMMA StopCheckOK == ASSUME IInv, NEW c \in Commands, StopCheck(c) PROVE StepOK
<1>1. /\ cmd[c].pc = "stopCheck" /\ At(c) /\ HandsOver(c) /\ holder = c
      /\ UNCHANGED <<proc, launches, logs, abandoned>>
  BY KnownAt DEF StopCheck, At, Inside, HandsOver, Waits
<1>2. CASE Leave(c) /\ Finish(c) /\ (record' = record \/ (record' = NoRecord /\ Gone(record)))
  <2>1. MovesRecord(c)
    BY <1>1, <1>2 DEF MovesRecord
  <2>. QED
    BY <1>1, <1>2, <2>1, OutsideOK, CommandMoves DEF At, Leave, Lock!Leave
<1>3. CASE /\ record # NoRecord /\ UNCHANGED <<record, holder>>
           /\ cmd' = [cmd EXCEPT ![c].pc = "term", ![c].seen = record]
  <2>1. OnlyMoves(c) /\ cmd'[c].pc = "term" /\ cmd'[c].seen = record
    <3>. DEFINE x == [cmd[c] EXCEPT !.pc = "term", !.seen = record]
    <3>1. cmd \in [Commands -> CommandType]
      BY DEF IInv, TypeOK, CommandType
    <3>2. x \in CommandType /\ x.pc = "term" /\ x.seen = record
      BY <1>1, <3>1 DEF CommandType, At, PCs
    <3>3. cmd' = [cmd EXCEPT ![c] = x]
      BY <1>3, <3>1
    <3>. QED
      BY <3>1, <3>2, <3>3 DEF OnlyMoves
  <2>2. CommandOK(c)'
    BY <1>1, <1>3, <2>1 DEF At, CommandOK, Known, Bears, Waits, Starting
  <2>3. MovesInLock(c) /\ MovesRecord(c)
    BY <1>1, <1>3, <2>1 DEF MovesInLock, MovesRecord, Inside
  <2>. QED
    BY <1>1, <1>3, <2>1, <2>2, <2>3, CommandStepOK DEF At
<1>4. ASSUME NEW owned \in IF Alive(record.pid) THEN EndpointOwned(record) ELSE {"no"},
             owned = "no", record # NoRecord
      PROVE  Gone(record)
  BY <1>1, <1>4, NoMeansGone DEF At, IInv
<1>5. CASE record = NoRecord
  <2>1. Leave(c) /\ Finish(c) /\ record' = record
    BY <1>5 DEF StopCheck, Leave, Lock!Leave, Finish
  <2>. QED
    BY <1>2, <2>1
<1>6. CASE record # NoRecord
  <2>1. PICK owned \in IF Alive(record.pid) THEN EndpointOwned(record) ELSE {"no"} :
          CASE owned = "no"      -> record' = NoRecord /\ Leave(c) /\ Finish(c)
            [] owned = "garbage" -> Leave(c) /\ Finish(c) /\ UNCHANGED record
            [] OTHER -> /\ cmd' = [cmd EXCEPT ![c].pc = "term", ![c].seen = record]
                        /\ UNCHANGED <<record, holder>>
    BY <1>6 DEF StopCheck
  <2>2. CASE owned = "no"
    BY <1>2, <1>4, <1>6, <2>1, <2>2
  <2>3. CASE owned = "garbage"
    <3>1. Leave(c) /\ Finish(c) /\ record' = record
      BY <2>1, <2>3 DEF Leave, Lock!Leave, Finish
    <3>. QED
      BY <1>2, <3>1
  <2>4. CASE owned \notin {"no", "garbage"}
    BY <1>3, <1>6, <2>1, <2>4
  <2>. QED
    BY <2>2, <2>3, <2>4
<1>. QED
  BY <1>5, <1>6

LEMMA StopOK ==
  ASSUME IInv, NEW c \in Commands,
         Terminate(c) \/ Kill(c) \/ Exited(c) \/ StopTimesOut(c)
  PROVE  StepOK
<1>. DEFINE r == cmd[c].seen
<1>1. /\ cmd[c].pc \in Stopping /\ cmd[c].pc \notin Waits /\ At(c) /\ HandsOver(c) /\ holder = c
      /\ UNCHANGED <<launches, logs, abandoned>>
  BY KnownAt DEF Terminate, Kill, Exited, StopTimesOut, At, Inside, HandsOver, Waits, Stopping
<1>2. r # NoRecord /\ r = record /\ Known(r) /\ r.pid \in Pids
  BY <1>1 DEF At, CommandOK, Stopping, Records
<1>3. CASE UNCHANGED proc /\ Leave(c) /\ Finish(c) /\ MovesRecord(c)
  BY <1>1, <1>3, OutsideOK, CommandMoves DEF At, Leave, Lock!Leave
<1>4. ASSUME NEW pc \in {"wait", "waitKilled", "kill"}, Goto(c, pc), Ages, ProcInv',
             UNCHANGED <<record, holder>>
      PROVE  /\ OnlyMoves(c) /\ CommandOK(c)' /\ cmd'[c].pc = pc
             /\ cmd'[c].pc \in Inside /\ MovesInLock(c) /\ MovesRecord(c)
  <2>1. OnlyMoves(c) /\ cmd'[c].pc = pc /\ cmd'[c].seen = r /\ pc \in Inside
    BY <1>4, CommandMoves DEF PCs, Inside
  <2>2. Known(r)' /\ r' # NoRecord /\ r' = record'
    BY <1>2, <1>4, <2>1, AgesKeeps DEF IInv, Known, Bears
  <2>3. CommandOK(c)'
    BY <2>1, <2>2 DEF CommandOK, Waits, Starting, Stopping
  <2>. QED
    BY <1>1, <1>4, <2>1, <2>3 DEF MovesInLock, MovesRecord, Stopping, Inside
<1>5. ASSUME NEW p, NEW pc \in {"wait", "waitKilled"}, Goto(c, pc), Moved(r.pid, p),
             p.st # "recording", proc' = [proc EXCEPT ![r.pid] = p],
             UNCHANGED <<record, holder>>
      PROVE  StepOK
  <2>1. ProcInv' /\ Ages
    BY <1>2, <1>5, ChangeKeeps DEF IInv, Change
  <2>2. OnlyMoves(c) /\ CommandOK(c)' /\ cmd'[c].pc \in Inside
    BY <1>4, <1>5, <2>1
  <2>. QED
    BY <1>1, <1>2, <1>5, <2>2, SignalOK
<1>6. CASE Terminate(c) \/ Kill(c)
  <2>1. CASE Terminate(c) /\ Alive(r.pid)
    BY <1>1, <1>2, <1>5, <2>1, SigtermMoves DEF Terminate, IInv
  <2>2. CASE Kill(c) /\ Alive(r.pid)
    <3>1. FreeProc.st # "recording"
      BY DEF FreeProc
    <3>. QED
      BY <1>1, <1>2, <1>5, <2>2, <3>1, SigtermMoves DEF Kill, IInv
  <2>3. CASE ~Alive(r.pid)
    BY <1>1, <1>3, <1>6, <2>3 DEF Terminate, Kill, MovesRecord
  <2>. QED
    BY <1>6, <2>1, <2>2, <2>3
<1>7. CASE Exited(c)
  <2>1. Gone(record)
    BY <1>2, <1>7 DEF Exited, Alive, Known, Gone, Bears, Late
  <2>. QED
    BY <1>1, <1>3, <1>7, <2>1 DEF Exited, MovesRecord
<1>8. CASE StopTimesOut(c)
  <2>1. CASE Goto(c, "kill") /\ UNCHANGED holder
    <3>1. UNCHANGED <<record, proc>> /\ ProcInv' /\ Ages
      BY <1>1, <1>8, AgesWithout DEF StopTimesOut, IInv
    <3>2. OnlyMoves(c) /\ CommandOK(c)' /\ MovesInLock(c) /\ MovesRecord(c)
      BY <1>4, <2>1, <3>1
    <3>. QED
      BY <1>1, <3>1, <3>2, CommandStepOK DEF At
  <2>2. CASE Leave(c) /\ Finish(c)
    BY <1>1, <1>3, <1>8, <2>2 DEF StopTimesOut, MovesRecord
  <2>. QED
    BY <1>8, <2>1, <2>2 DEF StopTimesOut
<1>. QED
  BY <1>6, <1>7, <1>8

LEMMA CommandDiesOK == ASSUME IInv, NEW c \in Commands, CommandDies(c) PROVE StepOK
<1>1. /\ At(c) /\ Finish(c) /\ holder' = Released(c) /\ UNCHANGED <<record, proc, launches, logs>>
      /\ abandoned' = IF cmd[c].pc \in Waits THEN abandoned \cup {cmd[c].seen.token} ELSE abandoned
  BY KnownAt DEF CommandDies, Waits
<1>2. cmd[c].pc \in Waits => cmd[c].seen.token \in Tokens
  BY <1>1 DEF At, CommandOK
<1>3. MovesRecord(c) /\ HandsOver(c)
  BY <1>1 DEF MovesRecord, HandsOver
<1>4. \/ cmd[c].pc \notin Inside /\ holder' = holder
      \/ holder = c /\ holder' = NoProc
  BY <1>1 DEF At, Released
<1>. QED
  BY <1>1, <1>2, <1>3, <1>4, OutsideOK, CommandMoves DEF At

-----------------------------------------------------------------------------
(* The actions of a process. *)

LEMMA ProcessOK ==
  ASSUME IInv, NEW i \in Pids,
         \/ RunForeground(i) \/ Bind(i) \/ ForegroundEnters(i) \/ ForegroundGivesUp(i)
         \/ Interrupt(i) \/ Close(i) \/ Exit(i) \/ Reuse(i)
  PROVE  StepOK
<1>1. /\ UNCHANGED <<record, cmd, logs, abandoned>> /\ ProcInv
      /\ proc \in [Pids -> Process] /\ proc[i] \in Process
      /\ proc[i].st = "recording" <=> holder = i
  BY DEF RunForeground, Bind, ForegroundEnters, ForegroundGivesUp, Interrupt, Close, Exit,
         Reuse, IInv, ProcInv, LockInv
<1>2. FreeProc.st = "free"
  BY DEF FreeProc
<1>3. ASSUME NEW p, proc' = [proc EXCEPT ![i] = p], Moved(i, p),
             \/ holder' = holder /\ (p.st = "recording" <=> proc[i].st = "recording")
             \/ holder = NoProc /\ holder' = i /\ p.st = "recording"
             \/ holder' = Released(i) /\ p.st # "recording"
      PROVE  StepOK
  <2>1. proc'[i] = p
    BY <1>1, <1>3
  <2>2. MovesByItself(i)
    BY <1>1, <1>3, <2>1 DEF MovesByItself, Released
  <2>3. ~Started(i, p)
    <3>1. launches \in Nat
      BY <1>1, BoundsAssumption DEF ProcInv
    <3>2. launches' = launches
      BY <1>3 DEF Moved
    <3>. QED
      BY <3>1, <3>2 DEF Started
  <2>. QED
    BY <1>1, <1>3, <2>2, <2>3, ProcessStepOK DEF Change
<1>4. CASE RunForeground(i)
  <2>1. PICK q \in Ports : proc' = [proc EXCEPT ![i] = [st |-> "booting", port |-> q,
                                     token |-> launches', managed |-> FALSE]]
    BY <1>4 DEF RunForeground
  <2>. DEFINE p == [st |-> "booting", port |-> q, token |-> launches + 1, managed |-> FALSE]
  <2>2. /\ proc[i] = FreeProc /\ launches < MaxLaunches /\ launches' = launches + 1
        /\ holder' = holder
    BY <1>4 DEF RunForeground
  <2>3. Change(i, p) /\ proc'[i] = p
    BY <1>1, <2>1, <2>2 DEF Change, Started
  <2>4. MovesByItself(i)
    BY <1>2, <2>2, <2>3 DEF MovesByItself
  <2>. QED
    BY <1>1, <2>3, <2>4, ProcessStepOK
<1>5. CASE Bind(i)
  <2>1. CASE Listeners(proc[i].port) # {}
    BY <1>2, <1>3, <1>5, <2>1 DEF Bind, Moved
  <2>2. CASE Listeners(proc[i].port) = {}
    <3>1. PICK s \in {"serving", "bound"} : s = IF proc[i].managed THEN "serving" ELSE "bound"
      OBVIOUS
    <3>. DEFINE p == [proc[i] EXCEPT !.st = s]
    <3>2. p.st = s
      BY <1>1 DEF Process
    <3>3. Moved(i, p) /\ proc' = [proc EXCEPT ![i] = p]
      BY <1>5, <2>2, <3>1 DEF Bind, Moved
    <3>. QED
      BY <1>3, <1>5, <3>2, <3>3 DEF Bind
  <2>. QED
    BY <2>1, <2>2
<1>6. CASE ForegroundEnters(i) \/ ForegroundGivesUp(i)
  <2>1. PICK s \in {"recording", "serving"} :
          /\ proc' = [proc EXCEPT ![i].st = s]
          /\ IF s = "recording" THEN holder = NoProc /\ holder' = i ELSE holder' = holder
    BY <1>6 DEF ForegroundEnters, ForegroundGivesUp, Lock!Enter
  <2>2. proc[i].st = "bound" /\ launches' = launches
    BY <1>6 DEF ForegroundEnters, ForegroundGivesUp
  <2>. DEFINE p == [proc[i] EXCEPT !.st = s]
  <2>3. p.st = s
    BY <1>1 DEF Process
  <2>4. Moved(i, p) /\ proc' = [proc EXCEPT ![i] = p]
    BY <2>1, <2>2 DEF Moved, Moves, ProcStates
  <2>. QED
    BY <1>3, <2>1, <2>2, <2>3, <2>4
<1>7. CASE Interrupt(i)
  BY <1>1, <1>3, <1>7, SigtermMoves DEF Interrupt
<1>8. CASE Close(i)
  <2>. DEFINE p == [proc[i] EXCEPT !.st = "closing", !.port = NoPort]
  <2>1. p.st = "closing"
    BY <1>1 DEF Process
  <2>2. Moved(i, p) /\ proc' = [proc EXCEPT ![i] = p]
    BY <1>1, <1>8 DEF Moved, Close
  <2>. QED
    BY <1>3, <1>8, <2>1, <2>2 DEF Close
<1>9. CASE Exit(i)
  BY <1>2, <1>3, <1>9 DEF Exit, Moved
<1>10. CASE Reuse(i)
  <2>1. PICK q \in Ports \cup {NoPort} :
          /\ q # NoPort => Listeners(q) = {}
          /\ proc' = [proc EXCEPT ![i] = [FreeProc EXCEPT !.st = "stranger", !.port = q]]
    BY <1>10 DEF Reuse
  <2>. DEFINE p == [FreeProc EXCEPT !.st = "stranger", !.port = q]
  <2>2. p.st = "stranger"
    BY DEF FreeProc
  <2>3. proc[i] = FreeProc /\ UNCHANGED <<holder, launches>>
    BY <1>10 DEF Reuse
  <2>4. Moved(i, p)
    BY <2>1, <2>3 DEF Moved
  <2>. QED
    BY <1>2, <1>3, <2>1, <2>2, <2>3, <2>4
<1>. QED
  BY <1>4, <1>5, <1>6, <1>7, <1>8, <1>9, <1>10

LEMMA StepsAreOK == IInv /\ [Next]_vars => StepOK
<1>. SUFFICES ASSUME IInv, [Next]_vars PROVE StepOK
  OBVIOUS
<1>1. CASE UNCHANGED vars
  <2>1. ProcInv' /\ Ages /\ UNCHANGED <<record, proc, holder, cmd, launches, logs, abandoned>>
    BY <1>1, AgesWithout DEF IInv, vars
  <2>2. TypeOK' /\ LockInv' /\ RecordInv' /\ \A c \in Commands : CommandOK(c)'
    BY <2>1, CommandStays, AgesKeeps DEF IInv, TypeOK, LockInv, RecordInv
  <2>3. \A i \in Pids : Tracked(i)' /\ Logged(i)'
    BY <2>1 DEF IInv, Tracked, Logged, Names, Awaited, Serves
  <2>. QED
    BY <2>1, <2>2, <2>3 DEF IInv, StepOK
<1>2. ASSUME NEW c \in Commands, Begin(c) \/ CommandStep(c) \/ CommandDies(c) PROVE StepOK
  BY <1>2, BeginOK, StatusProbeOK, DiscardOK, EnterOK, StartCheckOK, LaunchOK, AwaitOK,
     UnhealthyOK, StopCheckOK, StopOK, CommandDiesOK DEF CommandStep
<1>3. ASSUME NEW i \in Pids,
             RunForeground(i) \/ DaemonStep(i) \/ Interrupt(i) \/ Exit(i) \/ Reuse(i)
      PROVE  StepOK
  BY <1>3, ProcessOK, RecordForegroundOK DEF DaemonStep
<1>. QED
  BY <1>1, <1>2, <1>3 DEF Next

-----------------------------------------------------------------------------
(* The theorems about Daemon. *)

\* The inductive invariant holds in every behaviour, for any number of commands,
\* process ids, ports and launches.
THEOREM Invariance == Spec => []IInv
<1>1. IInv /\ [Next]_vars => IInv'
  BY StepsAreOK DEF StepOK
<1>. QED
  BY InitIInv, <1>1, PTL DEF Spec

\* Every variable keeps its type: daemon.json is a record with a pid, a port and a
\* token or is missing, and no launch exceeds the bound.
THEOREM TypeCorrect == Spec => []TypeOK
<1>1. IInv => TypeOK
  BY DEF IInv
<1>. QED
  BY Invariance, <1>1, PTL

\* A managed daemon that serves is named by the record, or is about to be recorded or
\* stopped by its starter, or lost its starter on the way: no interleaving of starts,
\* stops, discarded records and deaths leaves a daemon that nobody can find.
THEOREM DaemonsAreReachable == Spec => []ManagedDaemonIsReachable
<1>1. IInv => ManagedDaemonIsReachable
  <2>. SUFFICES ASSUME IInv, NEW i \in Pids, Serves(i), proc[i].managed
               PROVE  \/ Names(record, i)
                      \/ \E c \in DOMAIN cmd : /\ cmd[c].pc \in {"await", "record"}
                                               /\ Names(cmd[c].seen, i)
                      \/ proc[i].token \in abandoned
    BY DEF ManagedDaemonIsReachable
  <2>1. DOMAIN cmd = Commands
    BY DEF IInv, TypeOK
  <2>. QED
    BY <2>1 DEF IInv, Tracked, Awaited, Waits, Serves
<1>. QED
  BY Invariance, <1>1, PTL

\* The log of the managed daemon on record outlives every start that prunes logs.
THEOREM LogsAreKept == Spec => []RecordedLogIsKept
<1>1. IInv => RecordedLogIsKept
  BY DEF IInv, Logged, RecordedLogIsKept
<1>. QED
  BY Invariance, <1>1, PTL

\* No step takes away or replaces the record of a daemon that goes on serving.
THEOREM RecordsAreKept == Spec => ServingRecordIsKept
<1>. DEFINE Kept == \A i \in Pids : Serves(i) /\ Names(record, i) /\ proc'[i] = proc[i] =>
                      record' = record
<1>1. IInv /\ [Next]_vars => [Kept]_vars
  BY StepsAreOK, GoneIsNotServing DEF StepOK, Names
<1>. HIDE DEF Kept
<1>2. Spec => [][Kept]_vars
  BY Invariance, <1>1, PTL DEF Spec
<1>. QED
  BY <1>2 DEF ServingRecordIsKept, Kept

\* Commands and daemons use the runtime lock as WriteLock promises it: nobody gets in
\* before the one inside has left, died, or given up.
THEOREM LockIsRespected == Spec => Lock!Spec
<1>1. Init => Lock!Init
  BY DEF Init, Lock!Init
<1>2. IInv /\ [Next]_vars => [Lock!Next]_holder
  BY StepsAreOK DEF StepOK
<1>. QED
  BY Invariance, <1>1, <1>2, PTL DEF Spec, Lock!Spec

-----------------------------------------------------------------------------
(* Sessions that forward their calls. *)

LEMMA SessionsStay ==
  ASSUME IInv, NEW c \in Commands, Begin(c) \/ CommandStep(c)
  PROVE  cmd[c].pc # "session" /\ \A d \in Commands \ {c} : cmd'[d] = cmd[d]
<1>1. cmd \in [Commands -> CommandType]
  BY DEF IInv, TypeOK, CommandType
<1>2. CASE Begin(c)
  <2>1. PICK op, pc, r : cmd' = [cmd EXCEPT ![c].op = op, ![c].pc = pc, ![c].seen = r]
    BY <1>2 DEF Begin
  <2>2. cmd[c] = Idle
    BY <1>2, Zenon DEF Begin
  <2>3. cmd[c].pc = "idle"
    BY <2>2 DEF Idle
  <2>. QED
    BY <1>1, <2>1, <2>3
<1>3. /\ \A pc : Goto(c, pc) => \A d \in Commands \ {c} : cmd'[d] = cmd[d]
      /\ Finish(c) => \A d \in Commands \ {c} : cmd'[d] = cmd[d]
      /\ NotRunning(c) => \A d \in Commands \ {c} : cmd'[d] = cmd[d]
      /\ \A r : Running(c, r) => \A d \in Commands \ {c} : cmd'[d] = cmd[d]
  BY <1>1 DEF Goto, Finish, NotRunning, Running
<1>4. CASE StatusProbe(c)
  BY <1>3, <1>4 DEF StatusProbe
<1>5. CASE DiscardEnter(c) \/ DiscardGivesUp(c) \/ Discard(c) \/ EnterLocked(c)
            \/ EnterTimesOut(c) \/ StartCheck(c)
  BY <1>3, <1>5 DEF DiscardEnter, DiscardGivesUp, Discard, EnterLocked, EnterTimesOut, StartCheck
<1>6. CASE Launch(c)
  BY <1>1, <1>6 DEF Launch
<1>7. CASE Healthy(c) \/ Unhealthy(c) \/ HealthCheckRaises(c) \/ RecordDaemon(c)
            \/ RecordFails(c)
  BY <1>3, <1>7 DEF Healthy, Unhealthy, HealthCheckRaises, RecordDaemon, RecordFails
<1>8. CASE StopCheck(c)
  BY <1>1, <1>3, <1>8 DEF StopCheck, Leave, Lock!Leave, Finish
<1>9. CASE Terminate(c) \/ Kill(c) \/ Exited(c) \/ StopTimesOut(c)
  BY <1>3, <1>9 DEF Terminate, Kill, Exited, StopTimesOut
<1>. QED
  BY <1>2, <1>4, <1>5, <1>6, <1>7, <1>8, <1>9 DEF CommandStep

\* To the daemon, a session that breaks off or ends is a command that dies.
LEMMA ForwardStepsAreSteps == IInv /\ [ForwardNext]_fvars => [Next]_vars
<1>. SUFFICES ASSUME IInv, [ForwardNext]_fvars PROVE [Next]_vars
  OBVIOUS
<1>1. ASSUME NEW c \in Commands, SessionBreaks(c) \/ EndOfInput(c) PROVE CommandDies(c)
  <2>1. /\ cmd[c].pc \in {"session", "local"} /\ Finish(c)
        /\ UNCHANGED <<record, proc, holder, launches, logs, abandoned>>
    BY <1>1 DEF SessionBreaks, EndOfInput
  <2>2. cmd[c] # Idle /\ holder # c
    BY <2>1 DEF Idle, IInv, LockInv, Inside
  <2>. QED
    BY <2>1, <2>2 DEF CommandDies, Released
<1>2. ASSUME NEW c \in Commands, SessionDies(c) PROVE CommandDies(c)
  BY <1>2 DEF SessionDies
<1>3. ASSUME NEW c \in Commands, NEW k \in Calls, Accept(c, k) PROVE UNCHANGED vars
  BY <1>3 DEF Accept
<1>4. ASSUME NEW k \in Calls, StartWrite(k) \/ FinishWrite(k) \/ Answer(k) \/ HandlerGone(k)
      PROVE  UNCHANGED vars
  BY <1>4 DEF StartWrite, FinishWrite, Answer, HandlerGone
<1>5. CASE UNCHANGED fvars
  BY <1>5 DEF fvars
<1>. QED
  BY <1>1, <1>2, <1>3, <1>4, <1>5 DEF ForwardNext, Next

CallType == [st : CallStates, from : Commands \cup {NoCommand},
             by : Pids \cup {NoProc}, token : Tokens \cup {NoToken}]

LEMMA ForwardStepKeeps ==
  ASSUME IInv, IInv', TypedCallsReachTheirDaemon, [ForwardNext]_fvars
  PROVE  TypedCallsReachTheirDaemon'
<1>1. /\ call \in [Calls -> CallType] /\ cmd \in [Commands -> CommandType] /\ TypeOK'
      /\ proc \in [Pids -> Process] /\ NoCall \in CallType
      /\ \A k \in Calls, c \in Commands : call[k].from = c =>
           cmd[c].pc = "session" /\ call[k].token = cmd[c].seen.token
  BY DEF TypedCallsReachTheirDaemon, ForwardTypeOK, CallsReachTheirDaemon, CallType, IInv, TypeOK, Process,
         CommandType, NoCall, CallStates
<1>. SUFFICES /\ call' \in [Calls -> CallType]
             /\ \A k \in Calls, c \in Commands : call'[k].from = c =>
                  cmd'[c].pc = "session" /\ call'[k].token = cmd'[c].seen.token
  BY <1>1 DEF TypedCallsReachTheirDaemon, ForwardTypeOK, CallsReachTheirDaemon, CallType
<1>2. CASE UNCHANGED fvars
  BY <1>1, <1>2 DEF fvars, vars
<1>3. CASE UNCHANGED call /\ \E c \in Commands : Begin(c) \/ CommandStep(c)
  BY <1>1, <1>3, SessionsStay
<1>4. ASSUME NEW i \in Pids, UNCHANGED call,
             RunForeground(i) \/ DaemonStep(i) \/ Interrupt(i) \/ Exit(i) \/ Reuse(i)
      PROVE  UNCHANGED <<call, cmd>>
  BY <1>4 DEF RunForeground, DaemonStep, Interrupt, Exit, Reuse, Bind, ForegroundEnters,
              ForegroundGivesUp, RecordForeground, Close
<1>5. ASSUME NEW c \in Commands, SessionBreaks(c) \/ SessionDies(c)
      PROVE  /\ call' \in [Calls -> CallType]
             /\ \A k \in Calls, d \in Commands : call'[k].from = d =>
                  cmd'[d].pc = "session" /\ call'[k].token = cmd'[d].seen.token
  <2>1. /\ \A d \in Commands \ {c} : cmd'[d] = cmd[d]
        /\ call' = [k \in Calls |-> IF call[k].from = c THEN [call[k] EXCEPT !.from = NoCommand]
                                                         ELSE call[k]]
    BY <1>1, <1>5 DEF SessionBreaks, SessionDies, CommandDies, Finish
  <2>2. ASSUME NEW k \in Calls
        PROVE  call'[k] \in CallType /\ (call'[k] = call[k] \/ call'[k].from = NoCommand)
                 /\ call'[k].from # c
    BY <1>1, <2>1, NoCommandAssumption DEF CallType
  <2>. QED
    BY <1>1, <2>1, <2>2, NoCommandAssumption
<1>6. ASSUME NEW c \in Commands, EndOfInput(c)
      PROVE  UNCHANGED call /\ \A k \in Calls, d \in Commands : call[k].from = d => cmd'[d] = cmd[d]
  BY <1>1, <1>6 DEF EndOfInput, Waiting, Finish
<1>7. ASSUME NEW c \in Commands, NEW k \in Calls, Accept(c, k)
      PROVE  /\ call' \in [Calls -> CallType]
             /\ \A j \in Calls, d \in Commands : call'[j].from = d =>
                  cmd'[d].pc = "session" /\ call'[j].token = cmd'[d].seen.token
  <2>1. PICK i \in Pids :
          /\ Authorized(i, cmd[c].seen.token)
          /\ call' = [call EXCEPT ![k] = [st |-> "open", from |-> c, by |-> i,
                                          token |-> proc[i].token]]
    BY <1>7 DEF Accept, Listeners
  <2>2. cmd[c].pc = "session" /\ cmd' = cmd
    BY <1>7 DEF Accept, vars
  <2>. QED
    BY <1>1, <2>1, <2>2 DEF CallType, CallStates, Process, Authorized
<1>8. ASSUME NEW k \in Calls, StartWrite(k) \/ FinishWrite(k) \/ Answer(k) \/ HandlerGone(k)
      PROVE  /\ call' \in [Calls -> CallType]
             /\ \A j \in Calls, d \in Commands : call'[j].from = d =>
                  cmd'[d].pc = "session" /\ call'[j].token = cmd'[d].seen.token
  <2>1. PICK x \in CallType : /\ call' = [call EXCEPT ![k] = x]
                              /\ x.from = NoCommand \/ (x.from = call[k].from /\ x.token = call[k].token)
    <3>1. NoCall.from = NoCommand
      BY DEF NoCall
    <3>2. CASE Answer(k) \/ HandlerGone(k)
      BY <1>1, <3>1, <3>2 DEF Answer, HandlerGone
    <3>3. ASSUME NEW s \in {"writing", "written"}, call' = [call EXCEPT ![k].st = s]
          PROVE  \E x \in CallType : /\ call' = [call EXCEPT ![k] = x]
                                     /\ x.from = call[k].from /\ x.token = call[k].token
      <4>. DEFINE x == [call[k] EXCEPT !.st = s]
      <4>1. x \in CallType /\ x.from = call[k].from /\ x.token = call[k].token
        BY <1>1 DEF CallType, CallStates
      <4>. QED
        BY <1>1, <3>3, <4>1
    <3>. QED
      BY <1>8, <3>2, <3>3 DEF StartWrite, FinishWrite
  <2>2. cmd' = cmd
    BY <1>8 DEF StartWrite, FinishWrite, Answer, HandlerGone, vars
  <2>. QED
    BY <1>1, <2>1, <2>2, NoCommandAssumption
<1>. QED
  BY <1>1, <1>2, <1>3, <1>4, <1>5, <1>6, <1>7, <1>8 DEF ForwardNext

\* The sessions and their calls leave the daemon's life as it is: every behaviour of
\* the composition is one of Daemon, so what is proved of Daemon holds of it.
THEOREM ForwardImplementsDaemon == ForwardSpec => Spec /\ []IInv
<1>1. ForwardInit => Init /\ IInv
  BY InitIInv DEF ForwardInit
<1>2. IInv /\ [ForwardNext]_fvars => [Next]_vars /\ IInv'
  BY ForwardStepsAreSteps, StepsAreOK DEF StepOK
<1>. QED
  BY <1>1, <1>2, PTL DEF ForwardSpec, Spec

\* A session's call is only ever carried out by the daemon the session found, however
\* many sessions, calls, daemons and strangers there are.
THEOREM CallsAreOfTheirDaemon == ForwardSpec => []TypedCallsReachTheirDaemon
<1>1. ForwardInit => TypedCallsReachTheirDaemon
  <2>. SUFFICES ASSUME ForwardInit PROVE TypedCallsReachTheirDaemon
    OBVIOUS
  <2>1. \A k \in Calls : call[k] = NoCall
    BY DEF ForwardInit
  <2>2. NoCall.from \notin Commands
    BY NoCommandAssumption DEF NoCall
  <2>3. TypeOK
    BY InitIInv DEF ForwardInit, IInv
  <2>. QED
    BY <2>1, <2>2, <2>3
    DEF ForwardInit, TypedCallsReachTheirDaemon, ForwardTypeOK, CallsReachTheirDaemon, NoCall, CallStates
<1>2. IInv /\ IInv' /\ TypedCallsReachTheirDaemon /\ [ForwardNext]_fvars => TypedCallsReachTheirDaemon'
  BY ForwardStepKeeps
<1>. QED
  BY <1>1, <1>2, ForwardImplementsDaemon, PTL DEF ForwardSpec, TypedCallsReachTheirDaemon
=============================================================================
