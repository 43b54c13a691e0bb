---------------------------- MODULE EarlierShell ----------------------------
(***************************************************************************)
(* Two versions of the shell of src/SP_LAB4 before the one of SnushJobs:   *)
(* "debug", snush_debug.c with execute_debug.c, and "backup",              *)
(* snush_backup.c with execute.c.  In both the handler reports a group by  *)
(* itself, without a pipe to the main loop.  In the first it gives up at   *)
(* the first child that is not in bg_array, a command for which there is   *)
(* no room ends the shell, and a pipeline is to be awaited as a process    *)
(* group.                                                                  *)
(*                                                                         *)
(* The state is that of SnushJobs, whose actions stand for the functions   *)
(* that were left as they are; pipe stays empty.                           *)
(***************************************************************************)
EXTENDS SnushJobs

VARIABLE edition

EarlierInit == Init /\ edition \in {"debug", "backup"}

(***************************************************************************)
(* main and shell_helper.                                                  *)
(***************************************************************************)
DebugPrompt  == edition = "debug" /\ Prompt
BackupPrompt == edition = "backup" /\ Prompt

DebugStart(bg, n)  == edition = "debug" /\ Start(bg, n)
BackupStart(bg, n) == edition = "backup" /\ Start(bg, n)

BackupRefuse(n) == edition = "backup" /\ Refuse(n)

\* The shell exits, by way of cleanup, and leaves its children to themselves.
DebugRefuse(n) ==
  /\ edition = "debug"
  /\ At("read") /\ shell.job < MaxJobs /\ OverLimit(n)
  /\ shell' = [shell EXCEPT !.pc = "cleaned", !.outcome = "refused", !.job = @ + 1]
  /\ UNCHANGED <<bg_array, kernel, pending, handling, pipe, announced>>

(***************************************************************************)
(* fork_exec and iter_pipe_fork_exec: the first process of a pipeline in   *)
(* the foreground, those after it, and a background process, all as later. *)
(***************************************************************************)
DebugFork(p)   == edition = "debug" /\ Fork(p)
DebugForkFails == edition = "debug" /\ ForkFails
DebugParent    == edition = "debug" /\ Parent

\* A single process.
DebugWait ==
  /\ edition = "debug"
  /\ shell.procs = 1 /\ (Wait \/ WaitFails)

\* waitpid is asked for the group of the first process.  There is none: that
\* process stays in the group of the shell, so the setpgid of the others fails
\* too.  waitpid returns -1 at once, with ECHILD, which is not taken for an
\* error.
DebugWaitGroup ==
  /\ edition = "debug"
  /\ At("wait") /\ shell.procs > 1
  /\ Ends("ended")
  /\ UNCHANGED <<bg_array, kernel, pending, handling, pipe, announced>>

BackupRuns == edition = "backup" /\ Runs

(***************************************************************************)
(* sigzombie_handler.                                                      *)
(***************************************************************************)
\* The first entry with the pid goes, and the group is reported at once if that
\* leaves none of it.
StrikeOffReporting(p) == \E i \in Matches(p) :
  LET e == bg_array[i]   rest == Without(bg_array, i) IN
  /\ \A k \in Matches(p) : i <= k
  /\ bg_array' = rest
  /\ announced' = IF Listed(rest, e.pgid) THEN announced
                  ELSE [announced EXCEPT ![e.job] = @ + 1]

\* Variant: the entry found_idx = -1 is struck off too.
DebugReap_NotFound(p) ==
  /\ edition = "debug" /\ handling /\ p \in Zombies
  /\ proc' = [proc EXCEPT ![p] = "none"]
  /\ handling' = TRUE
  /\ IF Matches(p) = {}
     THEN /\ bg_array' = IF bg_array = <<>> THEN <<>> ELSE Tail(bg_array)
          /\ UNCHANGED announced
     ELSE StrikeOffReporting(p)
  /\ UNCHANGED <<forkedFor, pending, pipe, shell>>

\* A child that is not in bg_array makes the handler return: any other zombies
\* wait for the next SIGCHLD.
DebugReap(p) ==
  /\ edition = "debug" /\ handling /\ p \in Zombies
  /\ proc' = [proc EXCEPT ![p] = "none"]
  /\ \/ /\ Matches(p) = {}
        /\ handling' = FALSE
        /\ UNCHANGED <<bg_array, announced>>
     \/ /\ StrikeOffReporting(p)
        /\ UNCHANGED handling
  /\ UNCHANGED <<forkedFor, pending, pipe, shell>>

BackupReap(p) ==
  /\ edition = "backup" /\ handling /\ p \in Zombies
  /\ proc' = [proc EXCEPT ![p] = "none"]
  /\ \/ Matches(p) = {} /\ UNCHANGED <<bg_array, announced>>
     \/ StrikeOffReporting(p)
  /\ UNCHANGED <<forkedFor, pending, handling, pipe, shell>>

EarlierNext ==
  /\ \/ DebugPrompt \/ BackupPrompt \/ ExitShell \/ Gone
     \/ \E n \in Sizes, bg \in BOOLEAN : DebugStart(bg, n) \/ BackupStart(bg, n)
     \/ \E n \in Sizes : DebugRefuse(n) \/ BackupRefuse(n)
     \/ DebugForkFails \/ DebugParent \/ DebugWait \/ DebugWaitGroup \/ BackupRuns
     \/ Deliver \/ Return
     \/ \E p \in Pids : DebugFork(p) \/ DebugReap(p) \/ BackupReap(p) \/ ChildEnds(p)
  /\ UNCHANGED edition

EarlierSpec == EarlierInit /\ [][EarlierNext]_<<vars, edition>>
-----------------------------------------------------------------------------
(* Properties *)

\* What the handler leaves behind, and when, does no harm to bg_array: every
\* background process that has not been reaped is in it, zombies included, so
\* that there are never more than it has room for; and a single process in the
\* foreground has ended when the prompt returns.
EarlierShellSound ==
  /\ TableFits /\ LiveAreListed /\ LimitHolds
  /\ edition = "backup" \/ shell.procs = 1 => FirstAwaited
=============================================================================
