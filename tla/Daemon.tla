------------------------------- MODULE Daemon -------------------------------
(***************************************************************************)
(* The singleton daemon of src/backlog_py/daemon/: the runtime record that *)
(* names it, the processes that may carry its pid and listen on its port,  *)
(* and the commands that look it up, start it and stop it.                 *)
(*                                                                         *)
(* Commands are processes: each takes the daemon runtime lock (WriteLock)  *)
(* where the code takes it, and may die at any step.  A pid is recycled    *)
(* once its process is gone, by a later daemon or by a stranger that knows *)
(* nothing of us and may listen on the same port.                          *)
(*                                                                         *)
(* Abstractions.  A token is the number of the launch that minted it.  A   *)
(* poll loop (wait for health, wait for exit) is one step taken when its   *)
(* answer is there, or one step taken when its deadline passes, which may  *)
(* be at any time.  A command that starts a daemon ends with it (only the  *)
(* command line starts one), so an exited daemon is never left a zombie.   *)
(***************************************************************************)
EXTENDS Naturals, FiniteSets

CONSTANTS Commands,    \* processes that run daemon status/ensure/start/stop
          Pids,        \* process ids a daemon or a stranger may have
          NoProc,      \* nobody
          Ports,       \* loopback ports
          NoPort,      \* listens nowhere
          NoRecord,    \* daemon.json is missing or unreadable
          MaxLaunches, \* bound on the daemons ever launched
          KeptLogs     \* DEFAULT_RETAINED_DAEMON_LOGS

ASSUME BoundsAssumption == MaxLaunches \in Nat /\ KeptLogs \in Nat
ASSUME NamesAssumption  ==
  /\ Commands \cap Pids = {} /\ NoProc \notin Commands \cup Pids
  /\ NoPort \notin Ports

VARIABLES record,      \* content of runtime/daemon.json
          proc,        \* proc[i]: the process with pid i
          holder,      \* who is inside DaemonRuntimeLock
          cmd,         \* cmd[c]: the command c runs
          launches,    \* daemons launched so far
          logs,        \* launches whose per-start log file is still there
          abandoned    \* launches whose starter died or could not record them

vars == <<record, proc, holder, cmd, launches, logs, abandoned>>

Tokens  == 1..MaxLaunches
Records == [pid : Pids, port : Ports, token : Tokens]

ASSUME NoRecordAssumption == NoRecord \notin Records

\* "bound" and "recording": a foreground daemon that listens and has yet to
\* record itself.  "stopping": SIGTERM noted.  "closing": server_close() done.
ProcStates == {"free", "booting", "bound", "recording", "serving", "stopping",
               "closing", "stranger"}
NoToken  == 0
FreeProc == [st |-> "free", port |-> NoPort, token |-> NoToken, managed |-> FALSE]
Idle     == [op |-> "none", pc |-> "idle", seen |-> NoRecord]

PCs == {"idle", "probe", "discard", "discarding", "startLock", "startCheck",
        "launch", "await", "record", "stopLock", "stopCheck", "term", "wait",
        "kill", "waitKilled", "session", "local"}
Ops == {"none", "status", "ensure", "stdio", "start", "stop", "forceStop"}

TypeOK ==
  /\ record \in Records \cup {NoRecord}
  /\ proc \in [Pids -> [st : ProcStates, port : Ports \cup {NoPort},
                        token : Tokens \cup {NoToken}, managed : BOOLEAN]]
  /\ holder \in Commands \cup Pids \cup {NoProc}
  /\ cmd \in [Commands -> [op : Ops, pc : PCs, seen : Records \cup {NoRecord}]]
  /\ launches \in 0..MaxLaunches
  /\ logs \subseteq Tokens /\ abandoned \subseteq Tokens

Init ==
  /\ record = NoRecord
  /\ proc = [i \in Pids |-> FreeProc]
  /\ holder = NoProc
  /\ cmd = [c \in Commands |-> Idle]
  /\ launches = 0 /\ logs = {} /\ abandoned = {}

Lock == INSTANCE WriteLock WITH Procs <- Commands \cup Pids

-----------------------------------------------------------------------------
(* Processes and their endpoints. *)

Alive(i)     == proc[i].st # "free"                              \* is_pid_alive
Listens(i)   == proc[i].st \in {"bound", "recording", "serving", "stopping", "stranger"}
Listeners(q) == {i \in Pids : Listens(i) /\ proc[i].port = q}
Authorized_Anyone(i, token) == proc[i].token # NoToken           \* mutant: no check
Authorized(i, token) == proc[i].token = token                    \* _is_authorized
Serves(i)    == proc[i].st = "serving"

\* What GET /status may tell the holder of a token: "yes", "no", "unknown" (no
\* answer in time), or "garbage" (not HTTP: BadStatusLine, which nobody catches).
StatusAnswers(i, token) ==
  CASE proc[i].st = "stranger"             -> {"no", "unknown", "garbage"}
    [] proc[i].st \in {"bound", "recording"} -> {"unknown"}
    [] OTHER -> IF Authorized(i, token) THEN {"yes", "unknown"} ELSE {"no", "unknown"}

EndpointOwned(r) ==
  IF Listeners(r.port) = {} THEN {"no"}
  ELSE UNION {StatusAnswers(i, r.token) : i \in Listeners(r.port)}

\* daemon_record_is_live: only a definite "no" condemns the record.
RecordIsLive(r) ==
  IF ~Alive(r.pid) THEN {"no"}
  ELSE {IF a = "unknown" THEN "yes" ELSE a : a \in EndpointOwned(r)}

\* What a signal does: the daemon notes SIGTERM once its handlers are there.
AfterSigterm(p) == IF p.st = "serving" THEN [p EXCEPT !.st = "stopping"]
                   ELSE IF p.st \in {"stopping", "closing"} THEN p ELSE FreeProc

\* The kernel releases the lock of a process that is gone.
Released(i) == IF holder = i THEN NoProc ELSE holder

-----------------------------------------------------------------------------
(* The commands. *)

Goto(c, pc)    == cmd' = [cmd EXCEPT ![c].pc = pc]
Finish(c)      == cmd' = [cmd EXCEPT ![c] = Idle]
Leave(c)       == Lock!Leave(c)
LockIsTaken(c) == holder \notin {NoProc, c}

\* "Daemon not running": ensure goes on to start one, stdio serves locally.
NotRunning(c) ==
  CASE cmd[c].op = "ensure" -> Goto(c, "startLock")
    [] cmd[c].op = "stdio"  -> cmd' = [cmd EXCEPT ![c].pc = "local", ![c].seen = NoRecord]
    [] OTHER                -> Finish(c)

Running(c, r) ==
  IF cmd[c].op = "stdio" THEN cmd' = [cmd EXCEPT ![c].pc = "session", ![c].seen = r]
                         ELSE Finish(c)

Begin(c) ==
  /\ cmd[c] = Idle
  /\ \E op \in Ops \ {"none"} :
       cmd' = [cmd EXCEPT ![c].op = op,
                 ![c].pc = CASE op = "start" -> "startLock"
                             [] op \in {"stop", "forceStop"} -> "stopLock"
                             [] OTHER -> "probe",
                 ![c].seen = IF op \in {"status", "ensure", "stdio"} THEN record ELSE NoRecord]
  /\ UNCHANGED <<record, proc, holder, launches, logs, abandoned>>

\* daemon_status: the probe takes seconds and holds no lock.
StatusProbe(c) ==
  /\ cmd[c].pc = "probe"
  /\ IF cmd[c].seen = NoRecord THEN NotRunning(c)
     ELSE \E live \in RecordIsLive(cmd[c].seen) :
            CASE live = "yes" -> Running(c, cmd[c].seen)
              [] live = "no"  -> Goto(c, "discard")
              [] OTHER        -> Finish(c)
  /\ UNCHANGED <<record, proc, holder, launches, logs, abandoned>>

\* _record_identity compares pid, host, port and token.
SameIdentity(r, s) == r # NoRecord /\ s # NoRecord /\ r = s

\* Mutant: the record is dropped without looking whether it is another one.
DeleteIfUnchanged_Blind(expected) == record' = NoRecord /\ expected = expected

DeleteIfUnchanged(expected) ==
  record' = IF SameIdentity(record, expected) THEN NoRecord ELSE record

\* _discard_stale_record waits two seconds for the lock, then lets it be.
DiscardEnter(c) ==
  /\ cmd[c].pc = "discard"
  /\ Lock!Enter(c) /\ Goto(c, "discarding")
  /\ UNCHANGED <<record, proc, launches, logs, abandoned>>

DiscardGivesUp(c) ==
  /\ cmd[c].pc = "discard" /\ LockIsTaken(c)
  /\ NotRunning(c)
  /\ UNCHANGED <<record, proc, holder, launches, logs, abandoned>>

Discard(c) ==
  /\ cmd[c].pc = "discarding"
  /\ DeleteIfUnchanged(cmd[c].seen)
  /\ Leave(c) /\ NotRunning(c)
  /\ UNCHANGED <<proc, launches, logs, abandoned>>

\* daemon_start and daemon_stop wait for the lock, or raise LockTimeoutError.
EnterLocked(c) ==
  /\ cmd[c].pc \in {"startLock", "stopLock"}
  /\ Lock!Enter(c)
  /\ Goto(c, IF cmd[c].pc = "startLock" THEN "startCheck" ELSE "stopCheck")
  /\ UNCHANGED <<record, proc, launches, logs, abandoned>>

EnterTimesOut(c) ==
  /\ cmd[c].pc \in {"startLock", "stopLock"} /\ LockIsTaken(c)
  /\ Finish(c)
  /\ UNCHANGED <<record, proc, holder, launches, logs, abandoned>>

\* What _prune_state_dir may leave of the logs ls: the most recent ones, which
\* depends on who wrote to them last, and those it fails to remove.
AfterPruning(ls) == {kept \in SUBSET ls : Cardinality(kept) >= KeptLogs \/ kept = ls}

\* _daemon_status_locked, then _prune_state_dir when there is one to launch.
StartCheck(c) ==
  /\ cmd[c].pc = "startCheck"
  /\ \E live \in IF record = NoRecord THEN {"no"} ELSE RecordIsLive(record) :
       IF live # "no"
       THEN Finish(c) /\ Leave(c) /\ UNCHANGED <<record, logs>>
       ELSE /\ DeleteIfUnchanged(record)
            /\ Goto(c, "launch")
            /\ logs' \in AfterPruning(logs)
            /\ UNCHANGED holder
  /\ UNCHANGED <<proc, launches, abandoned>>

\* Mutant: old logs are pruned after the new one was allocated.
Launch_PrunesAfter(c) ==
  /\ cmd[c].pc = "launch" /\ launches < MaxLaunches
  /\ launches' = launches + 1
  /\ logs' \in AfterPruning(logs \cup {launches'})
  /\ \E i \in Pids, q \in Ports :
       /\ proc[i] = FreeProc
       /\ proc' = [proc EXCEPT ![i] = [st |-> "booting", port |-> q,
                                       token |-> launches', managed |-> TRUE]]
       /\ cmd' = [cmd EXCEPT ![c].pc = "await",
                             ![c].seen = [pid |-> i, port |-> q, token |-> launches']]
  /\ UNCHANGED <<record, holder, abandoned>>

\* Popen of "daemon run --foreground", managed, with a fresh token and log.
Launch(c) ==
  /\ cmd[c].pc = "launch" /\ launches < MaxLaunches
  /\ launches' = launches + 1
  /\ logs' = logs \cup {launches'}
  /\ \E i \in Pids, q \in Ports :
       /\ proc[i] = FreeProc
       /\ proc' = [proc EXCEPT ![i] = [st |-> "booting", port |-> q,
                                       token |-> launches', managed |-> TRUE]]
       /\ cmd' = [cmd EXCEPT ![c].pc = "await",
                             ![c].seen = [pid |-> i, port |-> q, token |-> launches']]
  /\ UNCHANGED <<record, holder, abandoned>>

Child(c)   == cmd[c].seen.pid
IsChild(c) == Authorized(Child(c), cmd[c].seen.token)   \* not yet reaped

\* _wait_for_daemon_healthy: the child answered with the token, and is alive.
Healthy(c) ==
  /\ cmd[c].pc = "await"
  /\ IsChild(c) /\ proc[Child(c)].st \in {"serving", "stopping"}
  /\ Goto(c, "record")
  /\ UNCHANGED <<record, proc, holder, launches, logs, abandoned>>

\* Mutant: a start that gives up leaves its child running.
Unhealthy_KeepsChild(c) ==
  /\ cmd[c].pc = "await"
  /\ holder' = NoProc /\ Finish(c)
  /\ UNCHANGED <<record, proc, launches, logs, abandoned>>

\* The child is dead, or ten seconds went by: _terminate_process, then raise.
Unhealthy(c) ==
  /\ cmd[c].pc = "await"
  /\ proc' = IF IsChild(c)
             THEN [proc EXCEPT ![Child(c)] = AfterSigterm(proc[Child(c)])] ELSE proc
  /\ holder' = NoProc /\ Finish(c)
  /\ UNCHANGED <<record, launches, logs, abandoned>>

\* A stranger on the port answers the health check with no HTTP at all.
HealthCheckRaises(c) ==
  /\ cmd[c].pc = "await"
  /\ \E i \in Listeners(cmd[c].seen.port) : proc[i].st = "stranger"
  /\ abandoned' = abandoned \cup {cmd[c].seen.token}
  /\ Leave(c) /\ Finish(c)
  /\ UNCHANGED <<record, proc, launches, logs>>

RecordDaemon(c) ==
  /\ cmd[c].pc = "record"
  /\ record' = cmd[c].seen
  /\ Leave(c) /\ Finish(c)
  /\ UNCHANGED <<proc, launches, logs, abandoned>>

\* write_runtime_record raises: nothing is replaced, the child keeps running.
RecordFails(c) ==
  /\ cmd[c].pc = "record"
  /\ abandoned' = abandoned \cup {cmd[c].seen.token}
  /\ Leave(c) /\ Finish(c)
  /\ UNCHANGED <<record, proc, launches, logs>>

-----------------------------------------------------------------------------
(* daemon_stop. *)

StopCheck(c) ==
  /\ cmd[c].pc = "stopCheck"
  /\ \/ /\ record = NoRecord
        /\ Leave(c) /\ Finish(c) /\ UNCHANGED record
     \/ /\ record # NoRecord
        /\ \E owned \in IF Alive(record.pid) THEN EndpointOwned(record) ELSE {"no"} :
             CASE owned = "no"      -> record' = NoRecord /\ Leave(c) /\ Finish(c)
               [] owned = "garbage" -> Leave(c) /\ Finish(c) /\ UNCHANGED record
               [] OTHER -> /\ cmd' = [cmd EXCEPT ![c].pc = "term", ![c].seen = record]
                           /\ UNCHANGED <<record, holder>>
  /\ UNCHANGED <<proc, launches, logs, abandoned>>

\* os.kill(pid, SIGTERM); ProcessLookupError ends the command, record kept.
Terminate(c) ==
  /\ cmd[c].pc = "term"
  /\ LET i == cmd[c].seen.pid IN
       IF Alive(i)
       THEN /\ proc' = [proc EXCEPT ![i] = AfterSigterm(proc[i])]
            /\ Goto(c, "wait") /\ UNCHANGED holder
       ELSE Leave(c) /\ Finish(c) /\ UNCHANGED proc
  /\ UNCHANGED <<record, launches, logs, abandoned>>

\* _wait_for_exit saw the pid gone: the record goes, and stop returns TRUE.
Exited(c) ==
  /\ cmd[c].pc \in {"wait", "waitKilled"} /\ ~Alive(cmd[c].seen.pid)
  /\ record' = NoRecord
  /\ Leave(c) /\ Finish(c)
  /\ UNCHANGED <<proc, launches, logs, abandoned>>

StopTimesOut(c) ==
  /\ cmd[c].pc \in {"wait", "waitKilled"} /\ Alive(cmd[c].seen.pid)
  /\ IF cmd[c].pc = "wait" /\ cmd[c].op = "forceStop"
     THEN Goto(c, "kill") /\ UNCHANGED holder
     ELSE Leave(c) /\ Finish(c)
  /\ UNCHANGED <<record, proc, launches, logs, abandoned>>

Kill(c) ==
  /\ cmd[c].pc = "kill"
  /\ LET i == cmd[c].seen.pid IN
       IF Alive(i)
       THEN /\ proc' = [proc EXCEPT ![i] = FreeProc]
            /\ Goto(c, "waitKilled") /\ UNCHANGED holder
       ELSE Leave(c) /\ Finish(c) /\ UNCHANGED proc
  /\ UNCHANGED <<record, launches, logs, abandoned>>

\* A command dies; a child it has launched and not recorded is on its own.
CommandDies(c) ==
  /\ cmd[c] # Idle
  /\ abandoned' = IF cmd[c].pc \in {"await", "record"}
                  THEN abandoned \cup {cmd[c].seen.token} ELSE abandoned
  /\ holder' = Released(c) /\ Finish(c)
  /\ UNCHANGED <<record, proc, launches, logs>>

-----------------------------------------------------------------------------
(* The daemons: run_foreground_service. *)

\* Someone runs "daemon run --foreground" by hand.
RunForeground(i) ==
  /\ launches < MaxLaunches /\ proc[i] = FreeProc
  /\ launches' = launches + 1
  /\ \E q \in Ports : proc' = [proc EXCEPT ![i] = [st |-> "booting", port |-> q,
                                                   token |-> launches', managed |-> FALSE]]
  /\ UNCHANGED <<record, holder, cmd, logs, abandoned>>

\* The server binds its port, or the process ends on the bind error.
Bind(i) ==
  /\ proc[i].st = "booting"
  /\ proc' = [proc EXCEPT ![i] =
                IF Listeners(proc[i].port) # {} THEN FreeProc
                ELSE [proc[i] EXCEPT !.st = IF proc[i].managed THEN "serving" ELSE "bound"]]
  /\ UNCHANGED <<record, holder, cmd, launches, logs, abandoned>>

ForegroundEnters(i) ==
  /\ proc[i].st = "bound"
  /\ Lock!Enter(i)
  /\ proc' = [proc EXCEPT ![i].st = "recording"]
  /\ UNCHANGED <<record, cmd, launches, logs, abandoned>>

ForegroundGivesUp(i) ==
  /\ proc[i].st = "bound" /\ LockIsTaken(i)
  /\ proc' = [proc EXCEPT ![i].st = "serving"]
  /\ UNCHANGED <<record, holder, cmd, launches, logs, abandoned>>

\* _record_foreground_daemon, under the lock; "garbage" ends the process.
RecordForeground(i) ==
  LET mine == [pid |-> i, port |-> proc[i].port, token |-> proc[i].token] IN
  /\ proc[i].st = "recording"
  /\ \E live \in IF record = NoRecord THEN {"no"}
                 ELSE IF record.pid = i THEN {"no"} ELSE RecordIsLive(record) :
       /\ record' = IF live = "no" THEN mine ELSE record
       /\ proc' = [proc EXCEPT ![i] = IF live = "garbage" THEN FreeProc
                                      ELSE [@ EXCEPT !.st = "serving"]]
  /\ Leave(i)
  /\ UNCHANGED <<cmd, launches, logs, abandoned>>

\* SIGTERM or SIGINT from outside, a crash, and the two steps of a shutdown:
\* the loop ends and server_close() runs; then the process exits.
Interrupt(i) ==
  /\ proc[i].st \in {"booting", "bound", "recording", "serving"}
  /\ proc' = [proc EXCEPT ![i] = AfterSigterm(@)]
  /\ holder' = Released(i)
  /\ UNCHANGED <<record, cmd, launches, logs, abandoned>>

Close(i) ==
  /\ proc[i].st = "stopping"
  /\ proc' = [proc EXCEPT ![i].st = "closing", ![i].port = NoPort]
  /\ UNCHANGED <<record, holder, cmd, launches, logs, abandoned>>

Exit(i) ==
  /\ Alive(i)
  /\ proc' = [proc EXCEPT ![i] = FreeProc]
  /\ holder' = Released(i)
  /\ UNCHANGED <<record, cmd, launches, logs, abandoned>>

\* The kernel gives a recorded pid to somebody else, or its port.
Reuse(i) ==
  /\ proc[i] = FreeProc
  /\ \E q \in Ports \cup {NoPort} :
       /\ q # NoPort => Listeners(q) = {}
       /\ proc' = [proc EXCEPT ![i] = [FreeProc EXCEPT !.st = "stranger", !.port = q]]
  /\ UNCHANGED <<record, holder, cmd, launches, logs, abandoned>>

CommandStep(c) ==
  \/ StatusProbe(c) \/ DiscardEnter(c) \/ DiscardGivesUp(c) \/ Discard(c)
  \/ EnterLocked(c) \/ EnterTimesOut(c)
  \/ StartCheck(c) \/ Launch(c) \/ Healthy(c) \/ Unhealthy(c) \/ HealthCheckRaises(c)
  \/ RecordDaemon(c) \/ RecordFails(c)
  \/ StopCheck(c) \/ Terminate(c) \/ Exited(c) \/ StopTimesOut(c) \/ Kill(c)

DaemonStep(i) ==
  \/ Bind(i) \/ ForegroundEnters(i) \/ ForegroundGivesUp(i) \/ RecordForeground(i) \/ Close(i)

Next ==
  \/ \E c \in Commands : Begin(c) \/ CommandStep(c) \/ CommandDies(c)
  \/ \E i \in Pids : RunForeground(i) \/ DaemonStep(i) \/ Interrupt(i) \/ Exit(i) \/ Reuse(i)

Spec == Init /\ [][Next]_vars

-----------------------------------------------------------------------------
(* Properties. *)

Names(r, i) == r # NoRecord /\ r.pid = i /\ r.port = proc[i].port /\ r.token = proc[i].token

\* While the daemon a record names is serving, nobody drops or replaces that
\* record: its token is the only way to reach the daemon and to stop it
\* (daemon_status's recheck under the lock, _record_foreground_daemon).
ServingRecordIsKept ==
  [][\A i \in Pids : Serves(i) /\ Names(record, i) /\ proc'[i] = proc[i] => record' = record]_vars

\* A managed daemon that serves is recorded, or its starter is about to record
\* or stop it, or its starter died or failed on the way (daemon_start ends the
\* child it does not record).
ManagedDaemonIsReachable ==
  \A i \in Pids : Serves(i) /\ proc[i].managed =>
    \/ Names(record, i)
    \/ \E c \in DOMAIN cmd : cmd[c].pc \in {"await", "record"} /\ Names(cmd[c].seen, i)
    \/ proc[i].token \in abandoned

\* The log of the daemon on record outlives every start that prunes logs
\* (prune_daemon_logs runs before the new log exists and excludes nothing).
RecordedLogIsKept ==
  \A i \in Pids : Serves(i) /\ proc[i].managed /\ Names(record, i) => record.token \in logs
=============================================================================
