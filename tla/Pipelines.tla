----------------------------- MODULE Pipelines ------------------------------
(***************************************************************************)
(* One command of the shell of src/SP_LAB4, from the line that is typed to *)
(* the end of its processes: the line is lexed and checked (CommandLine),  *)
(* a built-in command executed, or processes forked and connected by pipes *)
(* (execute.c); the processes then read, write and end as programs do.     *)
(* Who holds which end of which pipe decides whether a reader ever sees    *)
(* the end of its input, and a writer the end of its reader.               *)
(*                                                                         *)
(* Pipe i leads from process i to process i + 1.  What a child does from   *)
(* fork to execvp is one step: until then it only holds ends that the      *)
(* shell holds as well or that it will keep.  Process ids, bg_array and    *)
(* SIGCHLD are in SnushJobs; the limit on background processes, tested     *)
(* there, is not met by one command.                                       *)
(***************************************************************************)
EXTENDS CommandLine

CONSTANTS MaxLine,   \* MAX_LINE_SIZE
          Room       \* what a pipe holds at most

ASSUME PipelinesAssumption == MaxLine \in Nat \ {0} /\ Room \in Nat \ {0}

VARIABLES line,     \* c_line
          lex,      \* lex_line: see CommandLine
          shell,    \* what the shell is doing
          held,     \* the ends of pipes that the shell has open
          proc,     \* the processes it has forked
          content   \* how much each pipe holds

vars == <<line, lex, shell, held, proc, content>>

R(i) == <<"r", i>>
W(i) == <<"w", i>>
Both(pipes) == {R(i) : i \in pipes} \cup {W(i) : i \in pipes}
TTY == <<"tty">>

\* shell: pc; the tokens, the number of pipes and whether the command runs in the
\* background; what it says when it has done with the line.
Init ==
  /\ line = <<>> /\ lex = LexStart
  /\ shell = [pc |-> "read", toks |-> <<>>, pipes |-> 0, bg |-> FALSE, says |-> ""]
  /\ held = {} /\ proc = <<>> /\ content = <<>>

(***************************************************************************)
(* main: fgets gives at most MAX_LINE_SIZE - 1 characters, the line feed   *)
(* included; a line without one ends the input or has been cut.            *)
(***************************************************************************)
Type(c) ==
  /\ shell.pc = "read" /\ Len(line) < MaxLine - 1
  /\ line' = Append(line, c) /\ lex' = LexChar(lex, c)
  /\ UNCHANGED <<shell, held, proc, content>>

EndLine(c) ==
  /\ shell.pc = "read" /\ (c = "\n" => Len(line) < MaxLine - 1)
  /\ lex' = LexChar(lex, c)
  /\ shell' = [shell EXCEPT !.pc = "lexed"]
  /\ UNCHANGED <<line, held, proc, content>>

(***************************************************************************)
(* shell_helper.                                                           *)
(***************************************************************************)
\* The prompt comes back; the line and its tokens are gone.
Says(message) ==
  /\ shell' = [shell EXCEPT !.pc = "prompt", !.says = message]
  /\ line' = <<>> /\ lex' = LexStart

At(pc) == shell.pc = pc

QuoteOpen ==
  /\ At("lexed") /\ lex.result = "LEX_QERROR"
  /\ Says("Unmatched quote")
  /\ UNCHANGED <<held, proc, content>>

NoTokens ==
  /\ At("lexed") /\ lex.result = "LEX_SUCCESS" /\ lex.tokens = <<>>
  /\ Says("")
  /\ UNCHANGED <<held, proc, content>>

Checked == At("lexed") /\ lex.result = "LEX_SUCCESS" /\ lex.tokens # <<>>

SyntaxError ==
  /\ Checked /\ SyntaxCheck(lex.tokens) # "SUCCESS"
  /\ Says(SyntaxCheck(lex.tokens))
  /\ UNCHANGED <<held, proc, content>>

Command1 == CheckBuiltin(lex.tokens[1])

CdTarget(toks) ==
  IF Len(toks) = 1 THEN "HOME"
  ELSE IF Len(toks) = 2 /\ toks[2].type = "WORD" THEN "dir" ELSE "none"

\* HOME may be unset, and chdir fail.
ChangeDir ==
  /\ Checked /\ SyntaxCheck(lex.tokens) = "SUCCESS" /\ Command1 = "cd"
  /\ \/ CdTarget(lex.tokens) = "none" /\ Says("cd takes one parameter")
     \/ CdTarget(lex.tokens) = "HOME" /\ Says("HOME variable not set")
     \/ CdTarget(lex.tokens) # "none" /\ (Says("changed") \/ Says("chdir failed"))
  /\ UNCHANGED <<held, proc, content>>

ExitShell ==
  /\ Checked /\ SyntaxCheck(lex.tokens) = "SUCCESS" /\ Command1 = "exit"
  /\ \/ Len(lex.tokens) = 1 /\ shell' = [shell EXCEPT !.pc = "gone"]
                            /\ line' = <<>> /\ lex' = LexStart
     \/ Len(lex.tokens) # 1 /\ Says("exit does not take any parameters")
  /\ UNCHANGED <<held, proc, content>>

External ==
  /\ Checked /\ SyntaxCheck(lex.tokens) = "SUCCESS" /\ Command1 = "NORMAL"
  /\ LET n == CountPipe(lex.tokens) IN
     shell' = [pc |-> IF n > 0 THEN "pipe" ELSE "fork", toks |-> lex.tokens,
               pipes |-> n, bg |-> CheckBg(lex.tokens), says |-> ""]
  /\ line' = <<>> /\ lex' = LexStart
  /\ UNCHANGED <<held, proc, content>>

(***************************************************************************)
(* fork_exec and iter_pipe_fork_exec.                                      *)
(***************************************************************************)
MakePipe ==
  /\ At("pipe")
  /\ LET i == Len(content) + 1 IN
     /\ held' = held \cup {R(i), W(i)}
     /\ content' = Append(content, 0)
     /\ shell' = IF i = shell.pipes THEN [shell EXCEPT !.pc = "fork"] ELSE shell
  /\ UNCHANGED <<line, lex, proc>>

PipeFails ==
  /\ At("pipe")
  /\ held' = {} /\ content' = <<>>
  /\ Says("Pipe failed")
  /\ UNCHANGED proc

\* The child gets what the shell holds.
Child == [pc |-> "forked", ends |-> held, interruptible |-> FALSE, args |-> <<>>,
          in |-> TTY, out |-> TTY, kind |-> ""]

Fork ==
  /\ At("fork")
  /\ proc' = Append(proc, Child)
  /\ shell' = IF Len(proc) = shell.pipes THEN [shell EXCEPT !.pc = "forked"] ELSE shell
  /\ UNCHANGED <<line, lex, held, content>>

\* The shell gives up and keeps its ends open.
ForkFails ==
  /\ At("fork")
  /\ Says("Fork failed")
  /\ UNCHANGED <<held, proc, content>>

\* Variant: the last pipe is forgotten (j < pcount - 1).
ClosedPipes_NotLast(n) == 1 .. n - 1
ClosedPipes(n) == 1 .. n   \* close_all_pipes

CloseAll ==
  /\ At("forked")
  /\ held' = held \ Both(ClosedPipes(shell.pipes))
  /\ shell' = [shell EXCEPT !.pc = IF shell.bg THEN "prompt" ELSE "wait",
                            !.says = IF shell.bg THEN "running" ELSE ""]
  /\ UNCHANGED <<line, lex, proc, content>>

\* Every pids[i] is the first process: it is the one that is waited for.
Wait ==
  /\ At("wait") /\ proc[1].pc = "ended"
  /\ Says("")
  /\ UNCHANGED <<held, proc, content>>

(***************************************************************************)
(* A child, up to execvp.                                                  *)
(***************************************************************************)
\* The files are opened first; a pipe replaces what they put there.
Stream(cmd, way, pipe) ==
  LET files == SelectSeq(cmd.opens, LAMBDA o : o[1] = way)
  IN IF pipe # <<>> THEN pipe ELSE IF files = <<>> THEN TTY ELSE <<"file", Last(files)[2]>>

\* Variant: a child closes the ends it does not use, but for the one before.
Kept_Writer(ends, in, out, k) == ends \cap {in, out, W(k - 1)}
Kept(ends, in, out, k) == ends \cap {in, out}

\* What a program does, if it is not stopped: end by itself, read its input to the
\* end, or write for ever.
Kinds(in) == {"ends", IF in[1] = "r" THEN "copies" ELSE "writes"}

Exec(k) ==
  LET cmd == Command(shell.toks, k)
      in  == Stream(cmd, "in",  IF k > 1 THEN R(k - 1) ELSE <<>>)
      out == Stream(cmd, "out", IF k <= shell.pipes THEN W(k) ELSE <<>>)
  IN
  /\ proc[k].pc = "forked"
  /\ \E kind \in Kinds(in) :
       proc' = [proc EXCEPT ![k] =
         [pc |-> "running", interruptible |-> ~shell.bg, args |-> cmd.args,
          in |-> in, out |-> out, kind |-> kind,
          ends |-> Kept(proc[k].ends, in, out, k)]]
  /\ UNCHANGED <<line, lex, shell, held, content>>

\* The end of a process closes all it holds.
Dies(k) == proc' = [proc EXCEPT ![k].pc = "ended", ![k].ends = {}]

\* A file cannot be opened, dup2 fails, or there is no such program.
ExecFails(k) ==
  /\ proc[k].pc = "forked"
  /\ Dies(k)
  /\ UNCHANGED <<line, lex, shell, held, content>>

(***************************************************************************)
(* The programs, as far as pipes tell them apart, and the kernel.          *)
(***************************************************************************)
Holds(e)   == e \in held \/ \E k \in DOMAIN proc : e \in proc[k].ends
InPipe(k)  == proc[k].in[1] = "r"
OutPipe(k) == proc[k].out[1] = "w"
Input(k)   == IF InPipe(k) THEN content[proc[k].in[2]] ELSE 0
HasRoom(k)   == OutPipe(k) => content[proc[k].out[2]] < Room
ReaderIs(k)  == OutPipe(k) => Holds(R(proc[k].out[2]))

\* What one unit read, or written, or both, makes of the pipes.
Moved(k) ==
  [i \in DOMAIN content |->
     content[i] - (IF proc[k].in = R(i) THEN 1 ELSE 0)
                + (IF proc[k].out = W(i) THEN 1 ELSE 0)]

Running(k) == proc[k].pc = "running"
HasOutput(k) == IF InPipe(k) THEN Input(k) > 0 ELSE proc[k].kind = "writes" \/ OutPipe(k)

Transfer(k) ==
  /\ Running(k) /\ HasOutput(k) /\ HasRoom(k) /\ ReaderIs(k)
  /\ content' = Moved(k)
  /\ UNCHANGED <<line, lex, shell, held, proc>>

\* SIGPIPE: nobody can read any more what it writes.
BrokenPipe(k) ==
  /\ Running(k) /\ HasOutput(k) /\ ~ReaderIs(k)
  /\ Dies(k)
  /\ UNCHANGED <<line, lex, shell, held, content>>

EndOfInput(k) ==
  /\ Running(k) /\ InPipe(k) /\ Input(k) = 0 /\ ~Holds(W(proc[k].in[2]))
  /\ Dies(k)
  /\ UNCHANGED <<line, lex, shell, held, content>>

Quits(k) ==
  /\ Running(k) /\ proc[k].kind = "ends"
  /\ Dies(k)
  /\ UNCHANGED <<line, lex, shell, held, content>>

\* Ctrl-C: SIGINT for the whole group, which the shell, background processes, and
\* children that have not got to signal(SIGINT, SIG_DFL) ignore.
Interrupt ==
  /\ \E k \in DOMAIN proc : Running(k) /\ proc[k].interruptible
  /\ proc' = [k \in DOMAIN proc |->
                IF Running(k) /\ proc[k].interruptible
                THEN [proc[k] EXCEPT !.pc = "ended", !.ends = {}] ELSE proc[k]]
  /\ UNCHANGED <<line, lex, shell, held, content>>

(***************************************************************************)
(* The system.                                                             *)
(***************************************************************************)
Helper == QuoteOpen \/ NoTokens \/ SyntaxError \/ ChangeDir \/ ExitShell \/ External
Execute == MakePipe \/ PipeFails \/ Fork \/ ForkFails \/ CloseAll \/ Wait
Start(k)   == Exec(k) \/ ExecFails(k)
Program(k) == Transfer(k) \/ BrokenPipe(k) \/ EndOfInput(k)

Next == \/ \E c \in Chars : Type(c)
        \/ \E c \in Ends : EndLine(c)
        \/ Helper \/ Execute \/ Interrupt
        \/ \E k \in DOMAIN proc : Start(k) \/ Program(k) \/ Quits(k)

Spec == Init /\ [][Next]_vars

\* The processes there may be: each takes a word, and all but the last a pipe.
Procs == 1 .. MaxLine \div 2

\* The shell and the processes run; a program that would end by itself does.
Fairness ==
  /\ WF_vars(Helper \/ Execute)
  /\ \A k \in Procs :
       /\ WF_vars(k \in DOMAIN proc /\ (Start(k) \/ Program(k)))
       /\ WF_vars(k \in DOMAIN proc /\ Quits(k))

FairSpec == Spec /\ Fairness
-----------------------------------------------------------------------------
(* Properties *)

\* Whatever characters follow each other, in and out of quotes, lex_line makes of
\* a line the tokens that README.md (src/SP_LAB4) describes, and complains
\* about a quote exactly if one is left open.  c_value is never overrun.
LexerReads ==
  /\ Len(lex.value) < MaxLine
  /\ At("lexed") =>
       IF OpenQuote(line)[Len(line)] # ""
       THEN lex.result = "LEX_QERROR"
       ELSE lex.result = "LEX_SUCCESS" /\ lex.tokens = Reading(line)

\* syntax_check, which looks at one token and the next, accepts exactly the lines
\* that can be executed: there is a name for every execvp, and no standard
\* stream is wanted from two places.
SyntaxExact ==
  Checked => ((SyntaxCheck(lex.tokens) = "SUCCESS") <=> WellFormed(lex.tokens))

\* Between them they understand every line as it is meant, or reject it.
LineUnderstood == LexerReads /\ SyntaxExact

\* Each process runs the program, with the arguments, input and output, that the
\* line says, although tokens are handed over as ranges of positions and
\* files and pipes compete for the same two descriptors; it has no other end of
\* a pipe, and args and pipe_fds are never overrun.
WordsOf(cmd) ==
  LET at == SetToSortSeq({i \in DOMAIN cmd : /\ cmd[i].type = "WORD"
                            /\ ~IsType(cmd, i - 1, "REDIN") /\ ~IsType(cmd, i - 1, "REDOUT")}, <)
  IN [n \in DOMAIN at |-> cmd[at[n]].value]
FileOf(cmd, type) ==
  IF Count(cmd, type) = 0 THEN TTY
  ELSE LET i == CHOOSE i \in DOMAIN cmd : cmd[i].type = type IN <<"file", cmd[i + 1].value>>
RunsAsWritten ==
  LET cmds == Commands(Foreground(shell.toks)) IN
  \A k \in DOMAIN proc : Running(k) =>
    /\ proc[k].args = WordsOf(cmds[k])
    /\ proc[k].in  = IF k > 1 THEN R(k - 1) ELSE FileOf(cmds[k], "REDIN")
    /\ proc[k].out = IF k < Len(cmds) THEN W(k) ELSE FileOf(cmds[k], "REDOUT")
    /\ proc[k].ends = {proc[k].in, proc[k].out} \cap Both(DOMAIN content)
    /\ Len(proc[k].args) < MaxLine /\ Len(content) < MaxLine

\* A pipeline ends as soon as one of its processes does: those after it see the
\* end of their input, those before it that they have no reader, so no end
\* of a pipe is left with the shell or another process.  A fork that fails in
\* the middle is left out: the shell then keeps the ends (execute.c:322).
Launched == Len(proc) = shell.pipes + 1
Ended(k) == proc[k].pc = "ended"
PipelineEnds ==
  (Launched /\ \E k \in DOMAIN proc : Ended(k)) ~> \A k \in DOMAIN proc : Ended(k)
=============================================================================
