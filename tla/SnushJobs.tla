----------------------------- MODULE SnushJobs ------------------------------
(***************************************************************************)
(* Processes and background jobs in the shell of src/SP_LAB4: shell_helper *)
(* forks the processes of a command and waits for them or enters them in   *)
(* bg_array (execute.c), while the SIGCHLD handler of snush.c reaps the    *)
(* children that have ended, strikes them off bg_array and reports, by a   *)
(* pipe that the main loop empties before each prompt, the groups of which *)
(* none is left.                                                           *)
(*                                                                         *)
(* The shell is one thread.  The handler interrupts it between any two     *)
(* steps, except in the sections that block SIGCHLD, which are one action  *)
(* each; while it runs the shell stands still but children go on ending.   *)
(* A command is whether it runs in the background and how many processes   *)
(* it has (count_pipe + 1).  signal() restarts an interrupted waitpid or   *)
(* fgets, so the handler is not seen there.                                *)
(***************************************************************************)
EXTENDS Naturals, Sequences, FiniteSets

CONSTANTS Pids,       \* process ids
          NoPid,
          MaxBg,      \* MAX_BG_PRO
          MaxProcs,   \* bound: the processes of one command
          MaxJobs,    \* bound: the commands entered
          PidsReused  \* whether fork may return the pid of a child already reaped

ASSUME JobsAssumption ==
  /\ IsFiniteSet(Pids) /\ NoPid \notin Pids
  /\ MaxBg \in Nat /\ MaxProcs \in Nat \ {0} /\ MaxJobs \in Nat
  /\ PidsReused \in BOOLEAN

VARIABLES bg_array,   \* its first bg_array_idx elements: pid, pgid and (history) the command
          proc,       \* each pid: "none", "running", or "zombie"
          forkedFor,  \* history: the command that last forked this pid, or 0
          pending,    \* SIGCHLD is pending
          handling,   \* sigzombie_handler is running
          pipe,       \* the messages in pipe_fd: the command each is about
          shell,      \* what the main thread is doing
          announced   \* history: how many messages the handler has sent about each command

kernel == <<proc, forkedFor>>
vars   == <<bg_array, kernel, pending, handling, pipe, shell, announced>>

Jobs   == 1 .. MaxJobs
Unreaped(p) == proc[p] # "none"
Zombies     == {p \in Pids : proc[p] = "zombie"}

\* shell: pc; the number of the command, whether it runs in the background, its
\* processes, how many are still to be forked, the first of them (pgid), the
\* one just forked, and what became of the last command.
Init ==
  /\ bg_array = <<>>
  /\ proc = [p \in Pids |-> "none"]
  /\ forkedFor = [p \in Pids |-> [job |-> 0, bg |-> FALSE]]
  /\ pending = FALSE /\ handling = FALSE
  /\ pipe = <<>>
  /\ shell = [pc |-> "prompt", job |-> 0, bg |-> FALSE, procs |-> 0, left |-> 0,
              first |-> NoPid, pid |-> NoPid, outcome |-> "none"]
  /\ announced = [j \in Jobs |-> 0]

At(pc) == shell.pc = pc /\ ~handling
Goes(pc) == shell' = [shell EXCEPT !.pc = pc]
Ends(outcome) == shell' = [shell EXCEPT !.pc = "prompt", !.outcome = outcome]

(***************************************************************************)
(* The main loop and shell_helper.                                         *)
(***************************************************************************)
\* check_bg_status reads until the pipe is empty.
ShowMessage ==
  /\ At("prompt") /\ pipe # <<>>
  /\ pipe' = Tail(pipe)
  /\ UNCHANGED <<bg_array, kernel, pending, handling, shell, announced>>

Prompt ==
  /\ At("prompt") /\ pipe = <<>>
  /\ Goes("read")
  /\ UNCHANGED <<bg_array, kernel, pending, handling, pipe, announced>>

\* Variant: it asks for room for one process only.
OverLimit_Once(n) == Len(bg_array) + 1 > MaxBg
OverLimit(n) == Len(bg_array) + n > MaxBg

Refuse(n) ==
  /\ At("read") /\ shell.job < MaxJobs /\ OverLimit(n)
  /\ shell' = [shell EXCEPT !.pc = "prompt", !.outcome = "refused", !.job = @ + 1]
  /\ UNCHANGED <<bg_array, kernel, pending, handling, pipe, announced>>

Start(bg, n) ==
  /\ At("read") /\ shell.job < MaxJobs
  /\ bg => ~OverLimit(n)
  /\ shell' = [pc |-> "fork", job |-> shell.job + 1, bg |-> bg, procs |-> n,
               left |-> n, first |-> NoPid, pid |-> NoPid, outcome |-> "none"]
  /\ UNCHANGED <<bg_array, kernel, pending, handling, pipe, announced>>

\* exit or the end of the input: cleanup frees bg_array, then the process ends.
ExitShell ==
  /\ At("read")
  /\ Goes("cleaned")
  /\ UNCHANGED <<bg_array, kernel, pending, handling, pipe, announced>>

Gone ==
  /\ At("cleaned")
  /\ Goes("gone")
  /\ UNCHANGED <<bg_array, kernel, pending, handling, pipe, announced>>

(***************************************************************************)
(* fork_exec and iter_pipe_fork_exec.                                      *)
(***************************************************************************)
Fork(p) ==
  /\ At("fork") /\ ~Unreaped(p)
  /\ PidsReused \/ forkedFor[p].job = 0
  /\ proc' = [proc EXCEPT ![p] = "running"]
  /\ forkedFor' = [forkedFor EXCEPT ![p] = [job |-> shell.job, bg |-> shell.bg]]
  /\ shell' = [shell EXCEPT !.pc = "forked", !.pid = p,
                            !.first = IF shell.left = shell.procs THEN p ELSE @]
  /\ UNCHANGED <<bg_array, pending, handling, pipe, announced>>

\* The processes forked already stay as they are.
ForkFails ==
  /\ At("fork")
  /\ Ends("fork failed")
  /\ UNCHANGED <<bg_array, kernel, pending, handling, pipe, announced>>

Entry == [pid |-> shell.pid, pgid |-> shell.first, job |-> shell.job]

\* The rest of the parent's part, up to the next fork.  A background process is
\* entered with SIGCHLD blocked; it may have ended, and been reaped, before.
Parent ==
  /\ At("forked")
  /\ bg_array' = IF shell.bg THEN Append(bg_array, Entry) ELSE bg_array
  /\ shell' = [shell EXCEPT
       !.left = @ - 1,
       !.pc = IF shell.left > 1 THEN "fork" ELSE IF shell.bg THEN "prompt" ELSE "wait",
       !.outcome = IF shell.left = 1 /\ shell.bg THEN "running" ELSE @]
  /\ UNCHANGED <<kernel, pending, handling, pipe, announced>>

\* Variant: the wait does not wait (WNOHANG).
Awaited_NoHang(p) == TRUE
Awaited(p) == proc[p] = "zombie"

\* waitpid for the first process.  The later rounds of the loop in
\* iter_pipe_fork_exec wait for that same pid again and get ECHILD.
Wait ==
  /\ At("wait") /\ Awaited(shell.first)
  /\ proc' = [proc EXCEPT ![shell.first] = IF @ = "zombie" THEN "none" ELSE @]
  /\ Ends("ended")
  /\ UNCHANGED <<bg_array, forkedFor, pending, handling, pipe, announced>>

\* Variant: waitpid is called again when it fails.
ReapedBefore_Retry(p) == FALSE
ReapedBefore(p) == ~Unreaped(p)

\* The handler was first: waitpid fails with ECHILD, an error in fork_exec only.
WaitFails ==
  /\ At("wait") /\ ReapedBefore(shell.first)
  /\ Ends(IF shell.procs = 1 THEN "wait failed" ELSE "ended")
  /\ UNCHANGED <<bg_array, kernel, pending, handling, pipe, announced>>

(***************************************************************************)
(* The children and sigzombie_handler.                                     *)
(***************************************************************************)
ChildEnds(p) ==
  /\ proc[p] = "running" /\ shell.pc # "gone"
  /\ proc' = [proc EXCEPT ![p] = "zombie"]
  /\ pending' = TRUE
  /\ UNCHANGED <<bg_array, forkedFor, handling, pipe, shell, announced>>

Deliver ==
  /\ pending /\ ~handling /\ shell.pc # "gone"
  /\ pending' = FALSE /\ handling' = TRUE
  /\ UNCHANGED <<bg_array, kernel, pipe, shell, announced>>

\* Variant: the wrong neighbour is struck off.
Without_OffByOne(s, i) == [k \in 1 .. Len(s) - 1 |-> IF k <= i THEN s[k] ELSE s[k + 1]]
Without(s, i) == [k \in 1 .. Len(s) - 1 |-> IF k < i THEN s[k] ELSE s[k + 1]]

Listed(s, pgid) == \E k \in 1 .. Len(s) : s[k].pgid = pgid

\* The first entry with the pid is struck off, and the group reported if that
\* leaves no entry of it.
StrikeOff(i) ==
  LET e == bg_array[i]   rest == Without(bg_array, i) IN
  /\ bg_array' = rest
  /\ IF Listed(rest, e.pgid)
     THEN UNCHANGED <<pipe, announced>>
     ELSE /\ pipe' = Append(pipe, e.job)
          /\ announced' = [announced EXCEPT ![e.job] = @ + 1]

\* Variant: the entry is looked up by its group.
Matches_Group(p) == {i \in 1 .. Len(bg_array) : bg_array[i].pgid = p}
Matches(p) == {i \in 1 .. Len(bg_array) : bg_array[i].pid = p}

\* Variant: if in place of while, one child is reaped for each signal.
LoopsAgain_Once == FALSE
LoopsAgain == handling

Reap(p) ==
  /\ handling /\ p \in Zombies
  /\ proc' = [proc EXCEPT ![p] = "none"]
  /\ \/ /\ Matches(p) = {}
        /\ UNCHANGED <<bg_array, pipe, announced>>
     \/ \E i \in Matches(p) : /\ \A k \in Matches(p) : i <= k
                              /\ StrikeOff(i)
  /\ handling' = LoopsAgain
  /\ UNCHANGED <<forkedFor, pending, shell>>

Return ==
  /\ handling /\ Zombies = {}
  /\ handling' = FALSE
  /\ UNCHANGED <<bg_array, kernel, pending, pipe, shell, announced>>

(***************************************************************************)
(* The system.                                                             *)
(***************************************************************************)
Sizes == 1 .. MaxProcs
Enter == \E n \in Sizes : Refuse(n) \/ \E bg \in BOOLEAN : Start(bg, n)
Runs  == ForkFails \/ Parent \/ Wait \/ WaitFails \/ \E p \in Pids : Fork(p)
Handler == Deliver \/ Return \/ \E p \in Pids : Reap(p)

Next == \/ ShowMessage \/ Prompt \/ Enter \/ ExitShell \/ Gone
        \/ Runs \/ Handler
        \/ \E p \in Pids : ChildEnds(p)

Spec == Init /\ [][Next]_vars

\* The shell runs, signals are delivered, and children end; what the user types
\* next is up to them.
FairSpec ==
  /\ Spec /\ WF_vars(Handler) /\ WF_vars(Runs) /\ WF_vars(ShowMessage \/ Prompt)
  /\ \A p \in Pids : WF_vars(ChildEnds(p))
(***************************************************************************)
(* Properties.                                                             *)
(***************************************************************************)
Outcomes == {"none", "running", "ended", "refused", "fork failed", "wait failed"}

TypeOK ==
  /\ bg_array \in Seq([pid : Pids, pgid : Pids, job : Jobs])
  /\ proc \in [Pids -> {"none", "running", "zombie"}]
  /\ forkedFor \in [Pids -> [job : {0} \cup Jobs, bg : BOOLEAN]]
  /\ pending \in BOOLEAN /\ handling \in BOOLEAN
  /\ pipe \in Seq(Jobs)
  /\ shell \in [pc : {"prompt", "read", "fork", "forked", "wait", "cleaned", "gone"},
                job : {0} \cup Jobs, bg : BOOLEAN, procs : Nat, left : Nat,
                first : Pids \cup {NoPid}, pid : Pids \cup {NoPid}, outcome : Outcomes]
  /\ announced \in [Jobs -> Nat]

\* bg_array is never written beyond its MAX_BG_PRO elements: the room that was
\* there when the command was accepted is still there at every later fork,
\* although the handler and other forks change bg_array in between.
TableFits == Len(bg_array) <= MaxBg

\* Whatever the handler has struck off, every background process that has not
\* been reaped is in bg_array, or is the one just forked: none can be lost.
Background == {p \in Pids : Unreaped(p) /\ forkedFor[p].bg}
LiveAreListed ==
  \A p \in Background : Matches(p) # {} \/ (shell.pc = "forked" /\ shell.pid = p)

\* There are never more than MAX_BG_PRO background processes, zombies included.
LimitHolds == Cardinality(Background) <= MaxBg

\* When a foreground command has ended for the shell, the first of its
\* processes has, whether waitpid or the handler reaped it, and also if its pid
\* has passed to a later process of the pipeline.
Waited == shell.pc \in {"prompt", "read"} /\ shell.outcome \in {"ended", "wait failed"}
FirstAwaited ==
  Waited => ~(proc[shell.first] = "running" /\ forkedFor[shell.first].job = shell.job)

\* README.md says that the shell waits for all processes of the foreground
\* before it accepts new commands.
AllAwaited ==
  Waited => \A p \in Pids : forkedFor[p].job = shell.job => proc[p] # "running"

\* No child stays a zombie: one SIGCHLD may stand for several children, and may
\* come while the handler runs, while waitpid waits, or before it is called.
ZombiesReaped == \A p \in Pids : proc[p] = "zombie" ~> proc[p] # "zombie" \/ shell.pc = "gone"

\* The shell comes back from every foreground command whose processes end.
ForegroundReturns == shell.pc = "wait" ~> shell.pc = "read"

\* An entry outlived its process, and its pid or pgid has been given to another.
Mistakable(e) == \E p \in {e.pid, e.pgid} : forkedFor[p].job # e.job

\* If all processes of a background command were entered before any of them was
\* reaped, the group is reported when the last has ended, unless an entry that
\* outlived its process can be mistaken for one of the new processes.
Entered(j) ==
  /\ shell.job = j /\ shell.outcome = "running"
  /\ Cardinality({p \in Pids : Unreaped(p) /\ forkedFor[p].job = j}) = shell.procs
GroupReported == \A j \in Jobs :
  Entered(j) ~> \/ announced[j] = 1 \/ shell.pc = "gone"
                \/ \E i \in DOMAIN bg_array : Mistakable(bg_array[i])

\* README.md asks for a job list of the background processes: what bg_array
\* lists is a child of the shell that has not been reaped.
ListedAreChildren ==
  \A i \in 1 .. Len(bg_array) : Unreaped(bg_array[i].pid)
=============================================================================
