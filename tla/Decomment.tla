----------------------------- MODULE Decomment ------------------------------
(***************************************************************************)
(* decomment.c (src/SP_LAB1): the automaton that copies a C program        *)
(* without its comments, one character at a time, and the lines that main  *)
(* counts to say where a comment began that is never closed.               *)
(*                                                                         *)
(* A state INSIDE_..._QUOTE is named by its quote, ESCAPE_SEQ_IN_... by    *)
(* the quote and a backslash.                                              *)
(***************************************************************************)
EXTENDS Integers, Sequences, SequencesExt, FiniteSetsExt

CONSTANTS Ordinary,   \* the characters without a meaning here
          MaxInput    \* bound: the characters read

QuoteMarks == {"'", "\""}
CChars == QuoteMarks \cup {"/", "*", "\\", "\n"} \cup Ordinary

ASSUME DecommentAssumption ==
  MaxInput \in Nat /\ Ordinary \cap (QuoteMarks \cup {"/", "*", "\\", "\n", " "}) = {}

VARIABLES input,    \* history: what getchar has returned
          state,
          output,   \* stdout
          lineCur, lineCom,
          status    \* "running", or what main has returned

decommentVars == <<input, state, output, lineCur, lineCom, status>>

CLOSED == -1   \* COMMENT_CLOSED

DecommentInit ==
  /\ input = <<>> /\ output = <<>> /\ status = "running"
  /\ state = "NORMAL" /\ lineCur = 1 /\ lineCom = CLOSED

(***************************************************************************)
(* handleStateTransition: the transitions, and what each of them prints.   *)
(***************************************************************************)
Escape(q)    == q \o "\\"
Unescaped(s) == CHOOSE q \in QuoteMarks : s = Escape(q)

FromNormal(c) ==
  CASE c = "/" -> "SLASH" [] c \in QuoteMarks -> c [] OTHER -> "NORMAL"
FromSlash(c) ==
  CASE c = "/" -> "ONE_LINE" [] c = "*" -> "MULTI_LINE" [] OTHER -> "NORMAL"
FromOneLine(c)   == IF c = "\n" THEN "NORMAL" ELSE "ONE_LINE"
FromMultiLine(c) == IF c = "*" THEN "ASTERISK" ELSE "MULTI_LINE"
FromAsterisk(c) == IF c = "/" THEN "NORMAL" ELSE FromMultiLine(c)

\* Variant: a backslash is an ordinary character.
FromQuote_NoEscape(q, c) == IF c = q THEN "NORMAL" ELSE q
FromQuote(q, c) == CASE c = q -> "NORMAL" [] c = "\\" -> Escape(q) [] OTHER -> q

Transition(s, c) ==
  CASE s = "NORMAL"     -> FromNormal(c)
    [] s = "SLASH"      -> FromSlash(c)
    [] s = "ONE_LINE"   -> FromOneLine(c)
    [] s = "MULTI_LINE" -> FromMultiLine(c)
    [] s = "ASTERISK"   -> FromAsterisk(c)
    [] s \in QuoteMarks -> FromQuote(s, c)
    [] OTHER            -> Unescaped(s)

Prints(s, c) ==
  CASE s = "NORMAL" -> IF c = "/" THEN <<>> ELSE <<c>>
    [] s = "SLASH"  -> IF c \in {"/", "*"} THEN <<" ">> ELSE <<"/", c>>
    [] s \in {"ONE_LINE", "MULTI_LINE", "ASTERISK"} -> IF c = "\n" THEN <<c>> ELSE <<>>
    [] OTHER -> <<c>>

(***************************************************************************)
(* main.                                                                   *)
(***************************************************************************)
\* Variant: the line is noted whenever the automaton is inside a comment.
LineCom_Always(next) ==
  CASE next = "MULTI_LINE" -> lineCur [] next = "NORMAL" -> CLOSED [] OTHER -> lineCom
LineCom(next) ==
  CASE next = "MULTI_LINE" /\ lineCom = CLOSED -> lineCur
    [] next = "NORMAL" -> CLOSED
    [] OTHER -> lineCom

GetChar(c) ==
  /\ status = "running" /\ Len(input) < MaxInput
  /\ input' = Append(input, c)
  /\ state' = Transition(state, c)
  /\ output' = output \o Prints(state, c)
  /\ lineCom' = LineCom(state')
  /\ lineCur' = IF c = "\n" THEN lineCur + 1 ELSE lineCur
  /\ UNCHANGED status

EndOfFile ==
  /\ status = "running"
  /\ status' = IF lineCom # CLOSED THEN "EXIT_FAILURE" ELSE "EXIT_SUCCESS"
  /\ UNCHANGED <<input, state, output, lineCur, lineCom>>

DecommentNext == EndOfFile \/ \E c \in CChars : GetChar(c)

DecommentSpec == DecommentInit /\ [][DecommentNext]_decommentVars
-----------------------------------------------------------------------------
(* The program text, as readme.md and C read it: it falls into comments,   *)
(* literals and single characters, each beginning where the one before it  *)
(* ends.                                                                   *)

FirstOr(S, default) == IF S = {} THEN default ELSE Min(S)
Opens(t, i, mark) == i < Len(t) /\ t[i] = "/" /\ t[i + 1] = mark

\* Where the element that begins at i ends, if a literal may begin at i or not.
ElementEnd(t, i, literal) ==
  CASE Opens(t, i, "/") ->
         FirstOr({j \in i + 1 .. Len(t) : j = Len(t) \/ t[j + 1] = "\n"}, Len(t))
    [] Opens(t, i, "*") ->
         FirstOr({j \in i + 3 .. Len(t) : t[j - 1] = "*" /\ t[j] = "/"}, Len(t))
    [] t[i] \in QuoteMarks /\ literal ->
         LET escapes[j \in i .. Len(t)] ==   \* t[j] is a backslash that escapes t[j + 1]
               j > i /\ t[j] = "\\" /\ ~escapes[j - 1]
         IN FirstOr({j \in i + 1 .. Len(t) : t[j] = t[i] /\ ~escapes[j - 1]}, Len(t))
    [] OTHER -> i

\* The elements' first and last positions.  As the code has it, a quote next to
\* a slash that is no part of a comment does not begin a literal.
Elements(t) ==
  LET after[n \in 0 .. Len(t)] ==   \* the elements of the first n positions or more
        IF n = 0 THEN <<>>
        ELSE LET es == after[n - 1]
                 i  == IF es = <<>> THEN 1 ELSE Last(es)[2] + 1
                 bare == i > 1 /\ Last(es) = <<i - 1, i - 1>> /\ t[i - 1] = "/"
             IN IF i > n THEN es ELSE Append(es, <<i, ElementEnd(t, i, ~bare)>>)
  IN after[Len(t)]

IsComment(t, e) == Opens(t, e[1], "/") \/ Opens(t, e[1], "*")
IsOpen(t, e) ==   \* a comment without its end
  Opens(t, e[1], "*") /\ ~(e[2] >= e[1] + 3 /\ t[e[2]] = "/" /\ t[e[2] - 1] = "*")

NewLines(s) == SelectSeq(s, LAMBDA c : c = "\n")

Bare(t) ==
  FlattenSeq([k \in DOMAIN Elements(t) |->
    LET e == Elements(t)[k]   text == SubSeq(t, e[1], e[2])
    IN IF IsComment(t, e) THEN <<" ">> \o NewLines(text) ELSE text])
-----------------------------------------------------------------------------
(* Properties *)

\* What main has printed at the end of a program that ends with a line feed, as
\* readme.md (11) lets it assume, is the program with a blank for each
\* comment and the line feeds of the comments kept, whatever comments,
\* literals and escapes follow each other.
CommentsRemoved ==
  status # "running" /\ (input # <<>> => Last(input) = "\n") => output = Bare(input)

\* main fails exactly if a comment is left open at the end, and names the line on
\* which that comment begins, not an earlier comment's nor the last line.
OpenCommentReported ==
  status # "running" =>
    LET open == {e \in Range(Elements(input)) : IsOpen(input, e)} IN
    /\ status = "EXIT_FAILURE" <=> open # {}
    /\ \A e \in open : lineCom = 1 + Len(NewLines(SubSeq(input, 1, e[1])))

\* Output, exit status and message are those of the program that was read.
Decommented == CommentsRemoved /\ OpenCommentReported
=============================================================================
