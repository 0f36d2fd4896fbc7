----------------------------- MODULE McpForward -----------------------------
(***************************************************************************)
(* MCP stdio sessions that forward their calls to the daemon               *)
(* (src/backlog_py/mcp/stdio_server.py), and the HTTP handler threads that *)
(* carry the calls out (mcp/http_server.py), composed with Daemon.         *)
(*                                                                         *)
(* A session looks the daemon up once, as "daemon status" does, and keeps  *)
(* that target, or serves every line itself when there was none.  A call   *)
(* outlives the session that sent it: the handler runs on when the answer  *)
(* is late, and dies with its process (the threads are daemon threads).    *)
(* Answers that only produce a JSON-RPC error change nothing and are the   *)
(* stuttering steps of the model.                                          *)
(***************************************************************************)
EXTENDS Daemon

CONSTANTS Calls,     \* slots for calls under way
          NoCommand  \* from nobody

ASSUME NoCommandAssumption == NoCommand \notin Commands

VARIABLE call        \* call[k]: the call in slot k

fvars == <<vars, call>>

CallStates == {"none", "open", "writing", "written"}
NoCall     == [st |-> "none", from |-> NoCommand, by |-> NoProc, token |-> NoToken]

ForwardTypeOK ==
  /\ TypeOK
  /\ call \in [Calls -> [st : CallStates, from : Commands \cup {NoCommand},
                         by : Pids \cup {NoProc}, token : Tokens \cup {NoToken}]]

\* The handler thread of call k exists: its process is still that daemon.
Runs(k) == call[k].st # "none" /\ Authorized(call[k].by, call[k].token)

\* A session waits for the answer of one line before it reads the next.
Waiting(c) == \E k \in Calls : call[k].from = c

\* urlopen reaches a handler, do_POST finds the token right.
Accept(c, k) ==
  /\ cmd[c].pc = "session" /\ ~Waiting(c) /\ call[k] = NoCall
  /\ \E i \in Listeners(cmd[c].seen.port) :
       /\ proc[i].st \in {"serving", "stopping"}
       /\ Authorized(i, cmd[c].seen.token)
       /\ call' = [call EXCEPT ![k] = [st |-> "open", from |-> c, by |-> i,
                                       token |-> proc[i].token]]
  /\ UNCHANGED vars

\* The tool's write under the project lock: begun, then complete.
StartWrite(k) ==
  /\ call[k].st = "open" /\ Runs(k)
  /\ call' = [call EXCEPT ![k].st = "writing"]
  /\ UNCHANGED vars

FinishWrite(k) ==
  /\ call[k].st = "writing" /\ Runs(k)
  /\ call' = [call EXCEPT ![k].st = "written"]
  /\ UNCHANGED vars

\* The handler answers (to nobody, when the session is gone), also with an
\* error before it has written anything.
Answer(k) ==
  /\ call[k].st \in {"open", "written"} /\ Runs(k)
  /\ call' = [call EXCEPT ![k] = NoCall]
  /\ UNCHANGED vars

\* Reading the answer fails (timeout, connection lost, no HTTP): that is no
\* URLError, it leaves run_stdio and ends the session.  The call goes on.
SessionBreaks(c) ==
  /\ cmd[c].pc = "session"
  /\ \/ Waiting(c)
     \/ \E i \in Listeners(cmd[c].seen.port) : proc[i].st = "stranger"
  /\ call' = [k \in Calls |-> IF call[k].from = c THEN [call[k] EXCEPT !.from = NoCommand]
                                                  ELSE call[k]]
  /\ Finish(c)
  /\ UNCHANGED <<record, proc, holder, launches, logs, abandoned>>

\* stdin ends between two lines.
EndOfInput(c) ==
  /\ cmd[c].pc \in {"session", "local"} /\ ~Waiting(c)
  /\ Finish(c)
  /\ UNCHANGED <<record, proc, holder, launches, logs, abandoned, call>>

\* A call whose process is gone went with it, wherever it was.
HandlerGone(k) ==
  /\ call[k].st # "none" /\ ~Runs(k) /\ call[k].from = NoCommand
  /\ call' = [call EXCEPT ![k] = NoCall]
  /\ UNCHANGED vars

\* A session that dies leaves its call behind.
SessionDies(c) ==
  /\ CommandDies(c)
  /\ call' = [k \in Calls |-> IF call[k].from = c THEN [call[k] EXCEPT !.from = NoCommand]
                                                  ELSE call[k]]

ForwardInit == Init /\ call = [k \in Calls |-> NoCall]

ForwardNext ==
  \/ /\ \/ \E c \in Commands : Begin(c) \/ CommandStep(c)
        \/ \E i \in Pids : RunForeground(i) \/ DaemonStep(i) \/ Interrupt(i) \/ Exit(i) \/ Reuse(i)
     /\ UNCHANGED call
  \/ \E c \in Commands : SessionBreaks(c) \/ EndOfInput(c) \/ SessionDies(c)
  \/ \E c \in Commands, k \in Calls : Accept(c, k)
  \/ \E k \in Calls : StartWrite(k) \/ FinishWrite(k) \/ Answer(k) \/ HandlerGone(k)

ForwardSpec == ForwardInit /\ [][ForwardNext]_fvars

-----------------------------------------------------------------------------
(* Properties. *)

\* A session's call is only ever carried out by the daemon the session found,
\* whatever has been stopped, started or put on its port since (the bearer
\* token of _is_authorized).
CallsReachTheirDaemon ==
  \A k \in Calls, c \in Commands :
    call[k].from = c => /\ cmd[c].pc = "session"
                        /\ call[k].token = cmd[c].seen.token

\* Every variable has its type as well.
TypedCallsReachTheirDaemon == ForwardTypeOK /\ CallsReachTheirDaemon

\* When "daemon stop" without --force reports success, no write the daemon had
\* begun was cut short: the daemon design says stop waits for active writes.
StopWaitsForWrites ==
  [][\A c \in Commands, k \in Calls :
       Exited(c) /\ cmd[c].op = "stop" /\ call[k].by = cmd[c].seen.pid
         /\ call[k].token = cmd[c].seen.token => call[k].st # "writing"]_fvars
=============================================================================
