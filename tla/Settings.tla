------------------------------ MODULE Settings ------------------------------
(***************************************************************************)
(* The configuration file (src/backlog_py/storage/config.py), its creation *)
(* (core/init.py) and the interfaces that change it: `config set` and the  *)
(* configuration wizard of the command line, the settings of the browser   *)
(* and those of the terminal interface.  A session reads the configuration *)
(* for its form long before it takes the write lock to store the answers.  *)
(*                                                                         *)
(* Two keys stand for all: the statuses and the default status, which has  *)
(* two spellings.  Statuses that differ in case only are one.              *)
(***************************************************************************)
EXTENDS Integers, FiniteSets

CONSTANTS Sessions,
          Statuses,
          First,     \* the status that is the default where none is configured
          Tasks,
          Absent,    \* a spelling the file does not use
          NoConfig, NoSession,
          MaxRuns,   \* bound on sessions started
          MaxFaults  \* bound on writes that fail and on deaths

VARIABLES config,  \* the file
          status,  \* status[t]: the status of each task
          lock,    \* holder of the project write lock
          initLock,\* holder of the init lock
          session,
          want,    \* the settings that were asked for last
          runs, faults

settingVars == <<config, status, lock, initLock, session, want, runs, faults>>

Keys     == {"statuses", "default"}
Settable == [statuses : SUBSET Statuses, default : Statuses]
Config   == [statuses : SUBSET Statuses, default_status : Statuses \cup {Absent},
             defaultStatus : Statuses \cup {Absent}]

\* load_config: the first spelling that is there counts.
Effective(c) ==
  [statuses |-> c.statuses,
   default  |-> CASE c.default_status # Absent -> c.default_status
                  [] c.defaultStatus # Absent  -> c.defaultStatus
                  [] OTHER                     -> First]

\* _apply_config_value: every spelling that is there, or else the last one.
Apply(c, key, value) ==
  CASE key = "statuses" -> [c EXCEPT !.statuses = value]
    [] key = "default"  ->
         [c EXCEPT !.default_status = IF @ = Absent THEN Absent ELSE value,
                   !.defaultStatus  = IF @ = Absent /\ c.default_status # Absent
                                      THEN Absent ELSE value]

\* Answers to a form: Absent where a key is not asked for.
Answers  == [statuses : ((SUBSET Statuses) \ {{}}) \cup {Absent},
             default  : Statuses \cup {Absent}]
NoAnswers   == [k \in Keys |-> Absent]
Asked(answers) == {k \in Keys : answers[k] # Absent}

\* Several keys at once; the order does not matter, since keys differ.
ApplyAll(c, answers) ==
  LET With(d, k) == IF k \in Asked(answers) THEN Apply(d, k, answers[k]) ELSE d
  IN With(With(c, "default"), "statuses")

\* _default_config_source.
Fresh == [statuses |-> Statuses, default_status |-> Absent, defaultStatus |-> First]

\* What is assumed of the names.
SettingsAssumption == First \in Statuses /\ NoConfig \notin Config /\ NoSession \notin Sessions

Idle == [kind |-> "none", pc |-> "idle", answers |-> NoAnswers, seen |-> NoConfig, read |-> NoConfig]

SettingsTypeOK ==
  /\ config \in Config \cup {NoConfig} /\ status \in [Tasks -> Statuses]
  /\ lock \in Sessions \cup {NoSession} /\ initLock \in Sessions \cup {NoSession}
  /\ want \in Settable \cup {NoConfig}
  /\ \A s \in Sessions :
       /\ session[s].pc \in {"idle", "form", "lock", "read", "write", "init lock", "check", "create"}
       /\ session[s].read \in Config \cup {NoConfig}

\* A file that was written by hand may use both spellings, or no statuses.
SettingsInit ==
  /\ config \in {NoConfig, Fresh} \cup
                [statuses : {{}, Statuses}, default_status : {First, Absent},
                 defaultStatus : Statuses \cup {Absent}]
  /\ want = IF config = NoConfig THEN NoConfig ELSE Effective(config)
  /\ status \in [Tasks -> Statuses]
  /\ lock = NoSession /\ initLock = NoSession /\ runs = 0 /\ faults = 0
  /\ session = [s \in Sessions |-> Idle]

At(s, pc)   == session[s].pc = pc
Goto(s, pc) == session' = [session EXCEPT ![s].pc = pc]
Fault       == faults < MaxFaults /\ faults' = faults + 1
rest        == <<status, initLock, runs>>

\* Discovering the project reads the configuration; the terminal interface loads
\* it for its form.
Start(s, kind) ==
  /\ At(s, "idle") /\ config # NoConfig /\ runs < MaxRuns
  /\ runs' = runs + 1
  /\ session' = [session EXCEPT ![s] = [Idle EXCEPT !.kind = kind, !.pc = "form",
                                                    !.seen = Effective(config)]]
  /\ UNCHANGED <<config, status, lock, initLock, want, faults>>

\* _prompt_config_text, _prompt_config_bool: an answer that is the default shown
\* is left out.
Changed(s, answers) == \A k \in Asked(answers) : answers[k] # session[s].seen[k]

\* What each interface is asked to store: `set` one key, the browser any, the
\* wizard those that change, the terminal interface all of its form.
Submit(s) ==
  /\ At(s, "form")
  /\ \E answers \in Answers \ {NoAnswers} :
         /\ CASE session[s].kind = "set"     -> Cardinality(Asked(answers)) = 1
              [] session[s].kind = "browser" -> TRUE
              [] session[s].kind = "wizard"  -> Changed(s, answers)
              [] session[s].kind = "tui"     -> Asked(answers) = Keys
         /\ session' = [session EXCEPT ![s].answers = answers, ![s].seen = NoConfig,
                                    ![s].pc = "lock"]
  /\ UNCHANGED <<config, lock, want, rest, faults>>

-----------------------------------------------------------------------------
(* Under the lock. *)

\* Mutant: the lock excludes nobody.
TakeLock_Shared(s) ==
  /\ At(s, "lock")
  /\ lock' = s /\ Goto(s, "read")
  /\ UNCHANGED <<config, want, rest, faults>>

TakeLock(s) ==
  /\ At(s, "lock") /\ lock = NoSession
  /\ lock' = s /\ Goto(s, "read")
  /\ UNCHANGED <<config, want, rest, faults>>

\* Another process holds the lock for too long.
GiveUp(s) ==
  /\ At(s, "lock") /\ lock # NoSession
  /\ session' = [session EXCEPT ![s] = Idle]
  /\ UNCHANGED <<config, lock, want, rest, faults>>

\* _load_raw_config, on every write.
ReadConfig(s) ==
  /\ At(s, "read")
  /\ session' = [session EXCEPT ![s].read = config, ![s].pc = "write"]
  /\ UNCHANGED <<config, lock, want, rest, faults>>

\* _validate_status_settings: no status that was configured, or was derived from
\* the tasks where none is, is taken from a task.
ValidStatuses(c, answers) ==
  LET default == Effective(ApplyAll(c, answers)).default
      prior   == IF c.statuses # {} THEN c.statuses
                 ELSE {status[t] : t \in Tasks} \cup {Effective(c).default} IN
    IF "statuses" \in Asked(answers)
    THEN /\ default \in answers["statuses"]
         /\ \A t \in Tasks : status[t] \in prior => status[t] \in answers["statuses"]
    ELSE "default" \in Asked(answers) => c.statuses = {} \/ default \in c.statuses

\* The answers one write stores: all of the browser's, else one key.
NextAnswers(s) ==
  LET answers == session[s].answers IN
    IF session[s].kind = "browser" THEN {Asked(answers)} ELSE {{k} : k \in Asked(answers)}

Finish(s) == lock' = NoSession /\ session' = [session EXCEPT ![s] = Idle]

\* _atomic_write_text replaces the file.
WriteConfig(s) ==
  /\ At(s, "write")
  /\ session[s].kind = "browser" => ValidStatuses(session[s].read, session[s].answers)
  /\ \E ks \in NextAnswers(s) :
       LET answers == session[s].answers
           stored  == [k \in Keys |-> IF k \in ks THEN answers[k] ELSE Absent]
           left    == [k \in Keys |-> IF k \in ks THEN Absent ELSE answers[k]] IN
         /\ config' = ApplyAll(session[s].read, stored)
         /\ want' = [k \in Keys |-> IF k \in ks THEN answers[k] ELSE want[k]]
         /\ IF left = NoAnswers THEN Finish(s)
            ELSE /\ session' = [session EXCEPT ![s].answers = left, ![s].read = NoConfig,
                                                  ![s].pc = "read"]
                 /\ UNCHANGED lock
  /\ UNCHANGED <<rest, faults>>

RejectSettings(s) ==
  /\ At(s, "write") /\ session[s].kind = "browser"
  /\ ~ValidStatuses(session[s].read, session[s].answers)
  /\ Finish(s)
  /\ UNCHANGED <<config, want, rest, faults>>

\* The write fails, or the process dies: what was written stays.
Fail(s) ==
  /\ session[s].pc \notin {"idle", "form"} /\ Fault
  /\ session' = [session EXCEPT ![s] = Idle]
  /\ lock' = IF lock = s THEN NoSession ELSE lock
  /\ initLock' = IF initLock = s THEN NoSession ELSE initLock
  /\ UNCHANGED <<config, want, status, runs>>

-----------------------------------------------------------------------------
(* init_project, under the init lock of the directory. *)

StartInit(s) ==
  /\ At(s, "idle") /\ runs < MaxRuns /\ runs' = runs + 1
  /\ session' = [session EXCEPT ![s] = [Idle EXCEPT !.kind = "init", !.pc = "init lock"]]
  /\ UNCHANGED <<config, status, lock, initLock, want, faults>>

TakeInitLock(s) ==
  /\ At(s, "init lock") /\ initLock = NoSession
  /\ initLock' = s /\ Goto(s, "check")
  /\ UNCHANGED <<config, lock, want, status, runs, faults>>

CheckConfig(s) ==
  /\ At(s, "check")
  /\ IF config = NoConfig THEN Goto(s, "create") /\ UNCHANGED initLock
     ELSE session' = [session EXCEPT ![s] = Idle] /\ initLock' = NoSession
  /\ UNCHANGED <<config, lock, want, status, runs, faults>>

CreateConfig(s) ==
  /\ At(s, "create")
  /\ config' = Fresh /\ want' = IF want = NoConfig THEN Effective(Fresh) ELSE want
  /\ session' = [session EXCEPT ![s] = Idle] /\ initLock' = NoSession
  /\ UNCHANGED <<lock, status, runs, faults>>

-----------------------------------------------------------------------------
(* Tasks, under the write lock, with the configuration of that time. *)

\* create_task takes the default status and edit_task an assignable one.
SetStatus(t) ==
  /\ lock = NoSession /\ config # NoConfig
  /\ LET options == config.statuses \cup {Effective(config).default} \cup {status[u] : u \in Tasks} IN
       \E new \in (IF config.statuses = {} THEN Statuses ELSE options) \ {status[t]} :
         status' = [status EXCEPT ![t] = new]
  /\ UNCHANGED <<config, lock, initLock, session, want, runs, faults>>

SettingsNext ==
  \/ \E s \in Sessions :
       \/ \E kind \in {"set", "wizard", "browser", "tui"} : Start(s, kind)
       \/ Submit(s) \/ TakeLock(s) \/ GiveUp(s) \/ ReadConfig(s) \/ WriteConfig(s)
       \/ RejectSettings(s) \/ Fail(s)
       \/ StartInit(s) \/ TakeInitLock(s) \/ CheckConfig(s) \/ CreateConfig(s)
  \/ \E t \in Tasks : SetStatus(t)

Spec == SettingsInit /\ [][SettingsNext]_settingVars

-----------------------------------------------------------------------------
(* Properties. *)

\* Every key has the value that was asked for last: no session undoes what another
\* has stored while its form was open, but for keys it asks for itself (the
\* terminal interface asks for all), and no second init starts afresh.
SettingsTakeEffect == config # NoConfig => Effective(config) = want

\* The browser takes no configured status from a task, and leaves a default that
\* is a status, whatever was stored since its form was loaded.
KeepsStatuses ==
  \A s \in Sessions :
    /\ session[s].kind = "browser" /\ session[s].pc = "write" /\ config' # config
    /\ session'[s] # session[s] /\ config.statuses # {} /\ config'.statuses # config.statuses
    => /\ Effective(config').default \in config'.statuses
       /\ \A t \in Tasks : status[t] \in config.statuses => status[t] \in config'.statuses
BrowserKeepsTasks == [][KeepsStatuses]_settingVars

-----------------------------------------------------------------------------
(* The inductive invariant of SettingsTakeEffect and BrowserKeepsTasks.    *)

SessionSet ==
  [kind : {"none", "set", "wizard", "browser", "tui", "init"},
   pc : {"idle", "form", "lock", "read", "write", "init lock", "check", "create"},
   answers : Answers, seen : Settable \cup {NoConfig}, read : Config \cup {NoConfig}]

\* What a session has read under the lock is what the file holds, and a file is
\* created where there is none, under the other lock.
SessionInv(s) ==
  /\ session[s].pc \in {"read", "write"} => lock = s
  /\ session[s].pc \in {"check", "create"} => initLock = s
  /\ session[s].pc \in {"form", "lock", "read", "write"} => config # NoConfig
  /\ At(s, "create") => config = NoConfig
  /\ At(s, "write") => session[s].read = config

SettingsInv ==
  /\ SettingsTypeOK /\ session \in [Sessions -> SessionSet]
  /\ want = IF config = NoConfig THEN NoConfig ELSE Effective(config)
  /\ \A s \in Sessions : SessionInv(s)
=============================================================================
