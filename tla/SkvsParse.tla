----------------------------- MODULE SkvsParse ------------------------------
(***************************************************************************)
(* skvs_parse (src/SP_LAB5/src/skvslib.c): what the server makes of the    *)
(* bytes it has received.  The buffer is cut into tokens by strtok, which  *)
(* destroys it from the left; a request whose length is BUFFER_SIZE takes  *)
(* a path of its own.                                                      *)
(***************************************************************************)
EXTENDS Integers, Sequences, SequencesExt, FiniteSetsExt

CONSTANTS Bytes,        \* the bytes of words
          ToUpper,      \* toupper, on these bytes
          CommandOf,    \* g_cmds: from upper-case words to commands
          BUFFER_SIZE, MAX_KEY_LEN,
          MaxRequest    \* bound: the bytes of a request

SPACE == " "
LINEFEED == "\n"

ASSUME SkvsParseAssumption ==
  /\ BUFFER_SIZE \in Nat \ {0} /\ MAX_KEY_LEN \in Nat \ {0} /\ MaxRequest \in Nat
  /\ Bytes \cap {SPACE, LINEFEED} = {} /\ ToUpper \in [Bytes -> Bytes]
  /\ DOMAIN CommandOf \subseteq Seq(Bytes)
  /\ Range(CommandOf) \subseteq {"CREATE", "READ", "UPDATE", "DELETE"}

VARIABLES buffer,   \* the bytes received
          request   \* what skvs_parse has returned, with the key and the value

parseVars == <<buffer, request>>

NULL == <<>>   \* no token: strtok never returns an empty one
Invalid == [cmd |-> "INVALID", key |-> NULL, value |-> NULL]
Incomplete == [Invalid EXCEPT !.cmd = "INCOMPLETE"]
Pending == [Invalid EXCEPT !.cmd = "none"]

ParseInit == buffer = <<>> /\ request = Pending

\* Any client may send what it likes, more than one line feed included.
Receive(b) ==
  /\ request = Pending /\ Len(buffer) < MaxRequest
  /\ buffer' = Append(buffer, b) /\ UNCHANGED request

(***************************************************************************)
(* strtok(s, " "): the first token of s, and what is left for the next     *)
(* call, the blank that ends the token overwritten.                        *)
(***************************************************************************)
Positions(s, Test(_)) == {i \in DOMAIN s : Test(s[i])}
UpTo(s, i)   == SubSeq(s, 1, i - 1)
Beyond(s, i) == SubSeq(s, i, Len(s))

Strtok(s) ==
  LET words == Positions(s, LAMBDA b : b # SPACE)
      word  == IF words = {} THEN <<>> ELSE Beyond(s, Min(words))
      ends  == Positions(word, LAMBDA b : b = SPACE)
  IN IF ends = {} THEN [token |-> word, rest |-> <<>>]
     ELSE [token |-> UpTo(word, Min(ends)), rest |-> Beyond(word, Min(ends) + 1)]

Uppercase(word) == [i \in DOMAIN word |-> IF word[i] \in Bytes THEN ToUpper[word[i]]
                                          ELSE word[i]]

\* Variant: a key may not be as long as it may be.
KeyTooLong_AtMax(key) == Len(key) >= MAX_KEY_LEN
KeyTooLong(key) == Len(key) > MAX_KEY_LEN

ValueFits(cmd, value) == (cmd \in {"READ", "DELETE"}) = (value = NULL)

\* The line without its line feed.
ParseLine(line) ==
  LET first  == Strtok(line)            name  == Uppercase(first.token)
      second == Strtok(first.rest)      key   == second.token
      third  == Strtok(second.rest)     value == third.token
  IN IF \/ name \notin DOMAIN CommandOf
        \/ key = NULL \/ KeyTooLong(key)
        \/ ~ValueFits(CommandOf[name], value)
        \/ Strtok(third.rest).token # NULL
     THEN Invalid
     ELSE [cmd |-> CommandOf[name], key |-> key, value |-> value]

\* A request of just BUFFER_SIZE bytes must end with the line feed, and only that
\* one is removed; in a shorter one the first ends the request.
Parsed(buf) ==
  LET feeds == Positions(buf, LAMBDA b : b = LINEFEED) IN
  CASE Len(buf) > BUFFER_SIZE -> Invalid
    [] Len(buf) = BUFFER_SIZE ->
         IF Last(buf) # LINEFEED THEN Invalid ELSE ParseLine(Front(buf))
    [] Len(buf) < BUFFER_SIZE ->
         IF feeds = {} THEN Incomplete ELSE ParseLine(UpTo(buf, Min(feeds)))

Parse ==
  /\ request = Pending /\ buffer # <<>>
  /\ request' = Parsed(buffer) /\ UNCHANGED buffer

ParseNext == Parse \/ \E b \in Bytes \cup {SPACE, LINEFEED} : Receive(b)

ParseSpec == ParseInit /\ [][ParseNext]_parseVars
-----------------------------------------------------------------------------
(* Properties *)

\* The words of a line: its longest runs without a blank.
Words(line) ==
  LET starts == {i \in DOMAIN line : line[i] # SPACE /\ (i = 1 \/ line[i - 1] = SPACE)}
      last(i) == Max({j \in i .. Len(line) : \A k \in i .. j : line[k] # SPACE})
      at == SetToSortSeq(starts, <)
  IN [n \in DOMAIN at |-> SubSeq(line, at[n], last(at[n]))]

\* The request a line stands for, as readme.md (src/SP_LAB5) formats it: a command in
\* capitals or not, a key that is not too long, and a value for CREATE and UPDATE.
Meaning(line) ==
  LET w == Words(line)   cmd == IF w = <<>> THEN <<>> ELSE Uppercase(w[1]) IN
  IF /\ cmd \in DOMAIN CommandOf
     /\ Len(w) = IF CommandOf[cmd] \in {"READ", "DELETE"} THEN 2 ELSE 3
     /\ Len(w[2]) <= MAX_KEY_LEN
  THEN [cmd |-> CommandOf[cmd], key |-> w[2], value |-> IF Len(w) = 3 THEN w[3] ELSE NULL]
  ELSE Invalid

\* Whatever bytes a client sends, however many blanks and whatever the length, a
\* line of up to BUFFER_SIZE bytes is the request it stands for and anything
\* longer is refused; bytes without a line feed are no request yet.  Only when
\* two lines fill the buffer to its last byte are they taken for one.
RequestUnderstood ==
  request # Pending =>
    LET n == Len(buffer)
        feeds == {i \in DOMAIN buffer : buffer[i] = LINEFEED}
    IN request = CASE n > BUFFER_SIZE -> Invalid
                   [] feeds = {} -> IF n = BUFFER_SIZE THEN Invalid ELSE Incomplete
                   [] n <= BUFFER_SIZE /\ feeds # {} /\ (n < BUFFER_SIZE \/ feeds = {n}) ->
                        Meaning(SubSeq(buffer, 1, Min(feeds) - 1))
                   [] OTHER -> IF n \in feeds THEN Meaning(Front(buffer)) ELSE Invalid
=============================================================================
