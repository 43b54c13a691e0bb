---------------------------- MODULE CommandLine -----------------------------
(***************************************************************************)
(* What the shell of src/SP_LAB4 makes of a line: lex_line and             *)
(* syntax_check (lexsyn.c), the questions asked of the tokens (util.c) and *)
(* the command built of them (execute.c), as operators; and what README.md *)
(* and execvp expect of the line, independently of how the code reads it.  *)
(*                                                                         *)
(* A character is a letter (any that has no meaning), a blank, one of the  *)
(* four special characters or a quote.  A token is [type, value], the      *)
(* value being a sequence of characters, empty for the special tokens.     *)
(***************************************************************************)
EXTENDS Integers, Sequences, SequencesExt, FiniteSetsExt

CONSTANTS Letters,   \* the characters that words are made of
          BLANK,     \* any that isspace accepts, but the line feed
          Builtins   \* "cd" and "exit": from words to what check_builtin says

TypeOf == [c \in {"|", "&", ">", "<"} |->
            CASE c = "|" -> "PIPE" [] c = "&" -> "BG"
              [] c = ">" -> "REDOUT" [] OTHER -> "REDIN"]
Quotes == {"'", "\""}
Specials == DOMAIN TypeOf
Ends == {"\n", "end"}   \* line feed, and the final 0
Chars == Letters \cup {BLANK} \cup Specials \cup Quotes

ASSUME CharsAssumption ==
  /\ Letters \cap (Specials \cup Quotes \cup Ends) = {}
  /\ BLANK \notin Letters \cup Specials \cup Quotes \cup Ends
  /\ DOMAIN Builtins \subseteq Seq(Letters) /\ Range(Builtins) \subseteq {"cd", "exit"}

Word(value) == [type |-> "WORD", value |-> value]
Special(c)  == [type |-> TypeOf[c], value |-> <<>>]

(***************************************************************************)
(* lex_line: its state, the characters collected in c_value, the tokens    *)
(* added so far, and what it returns ("" while it reads).                  *)
(***************************************************************************)
LexStart == [state |-> "START", value |-> <<>>, tokens |-> <<>>, result |-> ""]

\* Variant: value_index is not reset.
AddWord_KeepValue(l) == [l EXCEPT !.tokens = Append(@, Word(l.value)), !.state = "START"]
AddWord(l) ==
  [l EXCEPT !.tokens = Append(@, Word(l.value)), !.value = <<>>, !.state = "START"]
AddSpecial(l, c) == [l EXCEPT !.tokens = Append(@, Special(c))]
Collect(l, c)    == [l EXCEPT !.value = Append(@, c), !.state = "IN_WORD"]
Quoted(l, q)     == [l EXCEPT !.state = q]   \* STATE_IN_DQUOTE, STATE_IN_QUOTE

LexOutside(l, c) ==
  LET ended == IF l.state = "IN_WORD" THEN AddWord(l) ELSE l IN
  CASE c \in Ends     -> [ended EXCEPT !.result = "LEX_SUCCESS"]
    [] c = BLANK      -> ended
    [] c \in Specials -> AddSpecial(ended, c)
    [] c \in Quotes   -> Quoted(l, c)
    [] OTHER          -> Collect(l, c)

LexInside(l, c) ==
  CASE c = l.state -> [l EXCEPT !.state = "IN_WORD"]
    [] c \in Ends  -> [l EXCEPT !.result = "LEX_QERROR"]
    [] OTHER       -> [l EXCEPT !.value = Append(@, c)]

LexChar(l, c) == IF l.state \in Quotes THEN LexInside(l, c) ELSE LexOutside(l, c)

(***************************************************************************)
(* syntax_check.  Its loop stops at the first token with an error, so the  *)
(* flags say which types there are among the tokens before.                *)
(***************************************************************************)
IsType(toks, i, type) == i \in DOMAIN toks /\ toks[i].type = type
Before(toks, i, type) == \E j \in 1 .. i - 1 : toks[j].type = type

\* Variant: a pipe before does not matter.
InTwice_RedinOnly(toks, i) == Before(toks, i, "REDIN")
InTwice(toks, i)  == Before(toks, i, "PIPE") \/ Before(toks, i, "REDIN")
OutTwice(toks, i) == Before(toks, i, "REDOUT")

NoWordNext(toks, i) == ~IsType(toks, i + 1, "WORD")

TokenError(toks, i) ==
  IF i = 1 THEN IF IsType(toks, 1, "WORD") THEN "" ELSE "NOCMD"
  ELSE CASE toks[i].type = "PIPE" ->
              IF OutTwice(toks, i) THEN "MULTREDOUT"
              ELSE IF NoWordNext(toks, i) THEN "NOCMD" ELSE ""
         [] toks[i].type = "BG" ->
              IF i # Len(toks) THEN "INVALIDBG" ELSE ""
         [] toks[i].type = "REDIN" ->
              IF InTwice(toks, i) THEN "MULTREDIN"
              ELSE IF NoWordNext(toks, i) THEN "NODESTIN" ELSE ""
         [] toks[i].type = "REDOUT" ->
              IF OutTwice(toks, i) THEN "MULTREDOUT"
              ELSE IF NoWordNext(toks, i) THEN "NODESTOUT" ELSE ""
         [] OTHER -> ""

SyntaxCheck(toks) ==
  LET errors == {i \in DOMAIN toks : TokenError(toks, i) # ""}
  IN IF errors = {} THEN "SUCCESS" ELSE TokenError(toks, Min(errors))

(***************************************************************************)
(* util.c, and the positions iter_pipe_fork_exec collects.                 *)
(***************************************************************************)
CheckBuiltin(tok) ==
  IF tok.value \in DOMAIN Builtins THEN Builtins[tok.value] ELSE "NORMAL"
CountPipe(toks) == Cardinality({i \in DOMAIN toks : toks[i].type = "PIPE"})
CheckBg(toks)   == \E i \in DOMAIN toks : toks[i].type = "BG"
PipeIndex(toks) == SetToSortSeq({i \in DOMAIN toks : toks[i].type = "PIPE"}, <)

(***************************************************************************)
(* build_command_partial: the arguments, and the files opened as standard  *)
(* input and output, in the order of the tokens from start up to end.      *)
(***************************************************************************)
Built == [args |-> <<>>, redin |-> FALSE, redout |-> FALSE, opens |-> <<>>]

BuildToken(b, tok) ==
  CASE tok.type = "REDIN"  -> [b EXCEPT !.redin = TRUE]
    [] tok.type = "REDOUT" -> [b EXCEPT !.redout = TRUE]
    [] tok.type = "WORD" /\ b.redin ->
         [b EXCEPT !.redin = FALSE, !.opens = Append(@, <<"in", tok.value>>)]
    [] tok.type = "WORD" /\ ~b.redin /\ b.redout ->
         [b EXCEPT !.redout = FALSE, !.opens = Append(@, <<"out", tok.value>>)]
    [] tok.type = "WORD" /\ ~b.redin /\ ~b.redout ->
         [b EXCEPT !.args = Append(@, tok.value)]
    [] OTHER -> b

BuildCommand(toks, start, end) ==
  FoldLeft(BuildToken, Built, SubSeq(toks, start, end - 1))

\* The tokens of the k-th process of a pipeline, from and up to: the first's end
\* before the first pipe, the last's begin AT the last pipe, which is no word.

\* Variant: a process that is not the last goes on beyond its pipe.
Slice_Beyond(toks, k) ==
  LET at == PipeIndex(toks) IN
  <<IF k = 1 THEN 1 ELSE at[k - 1],
    IF k > Len(at) THEN Len(toks) + 1 ELSE at[k] + 2>>
Slice(toks, k) ==
  LET at == PipeIndex(toks) IN
  <<CASE k = 1 -> 1
      [] k > 1 /\ k > Len(at)  -> at[k - 1]
      [] k > 1 /\ k <= Len(at) -> at[k - 1] + 1,
    IF k > Len(at) THEN Len(toks) + 1 ELSE at[k]>>

Command(toks, k) == BuildCommand(toks, Slice(toks, k)[1], Slice(toks, k)[2])

(***************************************************************************)
(* The line as README.md describes it.  A quoted string is part of a       *)
(* token, whatever it contains; tokens are separated by blanks, except     *)
(* that the special characters are tokens by themselves.                   *)
(***************************************************************************)
\* The quote that is open after the first i characters, or "".
OpenQuote(line) ==
  LET q[i \in 0 .. Len(line)] ==
        IF i = 0 THEN ""
        ELSE LET before == q[i - 1] IN
             IF before = "" /\ line[i] \in Quotes THEN line[i]
             ELSE IF line[i] = before THEN "" ELSE before
  IN q

\* The tokens of a line in which every quote is closed.
Reading(line) ==
  LET q == OpenQuote(line)
      bare(i)    == q[i - 1] = "" /\ q[i] = ""
      special(i) == bare(i) /\ line[i] \in Specials
      inWord(i)  == ~(bare(i) /\ line[i] \in Specials \cup {BLANK})
      mark(i)    == line[i] \in Quotes /\ (q[i - 1] = "") # (q[i] = "")
      first(i)   == inWord(i) /\ (i = 1 \/ ~inWord(i - 1))
      upTo(i)    == Max({j \in i .. Len(line) : \A k \in i .. j : inWord(k)})
      text(i)    == LET at == SetToSortSeq({j \in i .. upTo(i) : ~mark(j)}, <)
                    IN [n \in DOMAIN at |-> line[at[n]]]
      starts == SetToSortSeq({i \in DOMAIN line : special(i) \/ first(i)}, <)
  IN [n \in DOMAIN starts |->
        IF special(starts[n]) THEN Special(line[starts[n]]) ELSE Word(text(starts[n]))]

(***************************************************************************)
(* The command line as it can be executed: commands separated by pipes,    *)
(* each with a name first and every redirection followed by its file; the  *)
(* standard input or output of a command comes from one place only, a file *)
(* or a pipe; and "&" is the last token if there is one.                   *)
(***************************************************************************)
Foreground(toks) == IF IsType(toks, Len(toks), "BG") THEN Front(toks) ELSE toks

Commands(toks) ==
  LET at == <<0>> \o PipeIndex(toks) \o <<Len(toks) + 1>>
  IN [k \in 1 .. Len(at) - 1 |-> SubSeq(toks, at[k] + 1, at[k + 1] - 1)]

Count(cmd, type) == Cardinality({i \in DOMAIN cmd : cmd[i].type = type})

WellFormed(toks) ==
  LET cmds == Commands(Foreground(toks))   n == Len(cmds) IN
  \A k \in 1 .. n :
    /\ IsType(cmds[k], 1, "WORD") /\ Count(cmds[k], "BG") = 0
    /\ Count(cmds[k], "REDIN")  + (IF k > 1 THEN 1 ELSE 0) <= 1
    /\ Count(cmds[k], "REDOUT") + (IF k < n THEN 1 ELSE 0) <= 1
    /\ \A i \in DOMAIN cmds[k] :
         cmds[k][i].type \in {"REDIN", "REDOUT"} => IsType(cmds[k], i + 1, "WORD")
=============================================================================
