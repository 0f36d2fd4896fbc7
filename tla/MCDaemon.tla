------------------------------ MODULE MCDaemon ------------------------------
(***************************************************************************)
(* McpForward (and Daemon inside it) on a small instance.  A behaviour is  *)
(* one of ForwardSpec in which either all commands start, stop and look    *)
(* for the daemon beside each other and no session sends a call, or only   *)
(* one command acts, whose session forwards calls while users start and    *)
(* end daemons in a terminal: `acting` says which.                         *)
(***************************************************************************)
EXTENDS McpForward, TLC

VARIABLE acting   \* the commands that take steps

MCInit == /\ ForwardInit
          /\ acting \in {Commands} \cup {{c} : c \in Commands}

MCNext == /\ ForwardNext
          /\ UNCHANGED acting
          /\ \A c \in Commands \ acting : cmd'[c] = cmd[c]
          /\ acting = Commands => UNCHANGED call

MCSpec == MCInit /\ [][MCNext]_<<fvars, acting>>

Symmetry == Permutations(Commands) \cup Permutations(Pids) \cup Permutations(Ports)
=============================================================================
