----------------------------- MODULE SnushProof -----------------------------
(***************************************************************************)
(* Proofs about the parts of the shell: its processes and jobs (SnushJobs, *)
(* EarlierShell), for any bound on the background processes, any pids,     *)
(* reused or not, and any commands; and its array (DynArray), for any      *)
(* elements, any first room and any growth factor.                         *)
(***************************************************************************)
EXTENDS EarlierShell, DynArray, FiniteSetTheorems, TLAPS

(***************************************************************************)
(* The jobs.  The inductive invariant adds to the properties that the room *)
(* for what is still to be forked is kept (RoomKept) and what the fields   *)
(* of shell say of the process just forked and of the first one            *)
(* (ForkState).  The two earlier versions of the shell keep the same       *)
(* invariant, but for the pipelines of which one does not await the first  *)
(* process.                                                                *)
(***************************************************************************)
RoomKept ==
  shell.pc \in {"fork", "forked"} =>
    /\ shell.left \in 1 .. shell.procs
    /\ shell.bg => Len(bg_array) + shell.left <= MaxBg

ForkState ==
  /\ shell.pc \in {"fork", "forked", "wait"} => shell.job \in Jobs
  /\ shell.pc = "forked" =>
       /\ shell.pid \in Pids
       /\ forkedFor[shell.pid] = [job |-> shell.job, bg |-> shell.bg]
  /\ shell.pc = "fork" /\ shell.left < shell.procs => shell.first \in Pids
  /\ shell.pc \in {"forked", "wait"} => shell.first \in Pids
  /\ Waited => shell.first \in Pids

IInv == TypeOK /\ TableFits /\ RoomKept /\ ForkState /\ LiveAreListed /\ FirstAwaited

\* Removing the i-th element shortens a sequence by one and keeps all others.
LEMMA WithoutOne ==
  ASSUME NEW S, NEW s \in Seq(S), NEW i \in 1 .. Len(s)
  PROVE  /\ Without(s, i) \in Seq(S)
         /\ Len(Without(s, i)) = Len(s) - 1
         /\ \A k \in 1 .. Len(s) : k # i =>
              \E m \in 1 .. Len(s) - 1 : Without(s, i)[m] = s[k]
PROOF
<1> DEFINE w == Without(s, i)
<1>1. Len(s) \in Nat /\ Len(s) - 1 \in Nat OBVIOUS
<1>2. w = [k \in 1 .. Len(s) - 1 |-> IF k < i THEN s[k] ELSE s[k + 1]] BY DEF Without
<1>3. \A k \in 1 .. Len(s) - 1 : w[k] \in S BY <1>1, <1>2
<1>4. w \in Seq(S) /\ Len(w) = Len(s) - 1 BY <1>1, <1>2, <1>3
<1>5. ASSUME NEW k \in 1 .. Len(s), k # i
      PROVE  \E m \in 1 .. Len(s) - 1 : w[m] = s[k]
  <2>1. CASE k < i
    <3>1. k \in 1 .. Len(s) - 1 BY <1>1, <2>1
    <3>2. w[k] = s[k] BY <1>2, <2>1, <3>1
    <3> QED BY <3>1, <3>2
  <2>2. CASE i < k
    <3>1. k - 1 \in 1 .. Len(s) - 1 /\ ~(k - 1 < i) /\ (k - 1) + 1 = k BY <1>1, <2>2
    <3>2. w[k - 1] = s[k] BY <1>2, <3>1
    <3> QED BY <3>1, <3>2
  <2> QED BY <1>1, <1>5, <2>1, <2>2
<1> QED BY <1>4, <1>5

\* The record shell is one of these.
PCs == {"prompt", "read", "fork", "forked", "wait", "cleaned", "gone"}
Shells == [pc : PCs, job : {0} \cup Jobs, bg : BOOLEAN, procs : Nat, left : Nat,
           first : Pids \cup {NoPid}, pid : Pids \cup {NoPid}, outcome : Outcomes]
Entries == [pid : Pids, pgid : Pids, job : Jobs]
Children == [Pids -> {"none", "running", "zombie"}]
Forks == [Pids -> [job : {0} \cup Jobs, bg : BOOLEAN]]

LEMMA Typed ==
  /\ TypeOK <=> /\ bg_array \in Seq(Entries) /\ proc \in Children /\ forkedFor \in Forks
                /\ pending \in BOOLEAN /\ handling \in BOOLEAN /\ pipe \in Seq(Jobs)
                /\ shell \in Shells /\ announced \in [Jobs -> Nat]
  /\ TypeOK' <=> /\ bg_array' \in Seq(Entries) /\ proc' \in Children /\ forkedFor' \in Forks
                 /\ pending' \in BOOLEAN /\ handling' \in BOOLEAN /\ pipe' \in Seq(Jobs)
                 /\ shell' \in Shells /\ announced' \in [Jobs -> Nat]
PROOF
  BY DEF TypeOK, Entries, Children, Forks, Shells, PCs

\* A function that counts still does when one count is raised.
LEMMA CountUp ==
  ASSUME NEW S, NEW f \in [S -> Nat], NEW x \in S
  PROVE  [f EXCEPT ![x] = @ + 1] \in [S -> Nat]
PROOF OBVIOUS

LEMMA Initially == Init => IInv
PROOF
<1> SUFFICES ASSUME Init PROVE IInv OBVIOUS
<1>1. TypeOK
  <2>1. shell \in Shells BY JobsAssumption DEF Init, Shells, PCs, Outcomes
  <2>2. proc \in Children /\ forkedFor \in Forks /\ announced \in [Jobs -> Nat]
    BY DEF Init, Children, Forks
  <2>3. bg_array \in Seq(Entries) /\ pipe \in Seq(Jobs) BY DEF Init
  <2>4. pending \in BOOLEAN /\ handling \in BOOLEAN BY DEF Init
  <2> QED BY <2>1, <2>2, <2>3, <2>4, Typed
<1>2. TableFits BY JobsAssumption DEF Init, TableFits
<1>3. RoomKept /\ ForkState /\ FirstAwaited
  BY DEF Init, RoomKept, ForkState, FirstAwaited, Waited
<1>4. LiveAreListed BY DEF Init, LiveAreListed, Background, Unreaped
<1> QED BY <1>1, <1>2, <1>3, <1>4 DEF IInv

LEMMA TypeStep == TypeOK /\ RoomKept /\ ForkState /\ [Next]_vars => TypeOK'
PROOF
<1> SUFFICES ASSUME TypeOK, RoomKept, ForkState, [Next]_vars PROVE TypeOK' OBVIOUS
<1>0. /\ bg_array \in Seq(Entries) /\ proc \in Children /\ forkedFor \in Forks
      /\ pending \in BOOLEAN /\ handling \in BOOLEAN /\ pipe \in Seq(Jobs)
      /\ shell \in Shells /\ announced \in [Jobs -> Nat]
  BY Typed
<1>1. ASSUME NEW bg \in BOOLEAN, NEW n \in Sizes, Start(bg, n) \/ Refuse(n) PROVE TypeOK'
  <2>1. shell.job + 1 \in Jobs
    BY <1>0, <1>1, JobsAssumption DEF Start, Refuse, Shells, Jobs
  <2>3. n \in Nat BY JobsAssumption DEF Sizes
  <2>4. Start(bg, n) => shell' \in Shells
    BY <2>1, <2>3 DEF Start, Shells, PCs, Outcomes
  <2>5. Refuse(n) => shell' \in Shells
    BY <1>0, <2>1 DEF Refuse, Shells, PCs, Outcomes
  <2>2. shell' \in Shells BY <1>1, <2>4, <2>5
  <2> QED BY <1>0, <1>1, <2>2, Typed DEF Start, Refuse, kernel
<1>2. ASSUME ShowMessage \/ Prompt \/ ExitShell \/ Gone PROVE TypeOK'
  <2>1. shell' \in Shells
    BY <1>0, <1>2 DEF ShowMessage, Prompt, ExitShell, Gone, Goes, Shells, PCs
  <2>3. pipe # <<>> => Tail(pipe) \in Seq(Jobs) BY <1>0
  <2>2. pipe' \in Seq(Jobs) BY <1>0, <1>2, <2>3 DEF ShowMessage, Prompt, ExitShell, Gone
  <2> QED BY <1>0, <1>2, <2>1, <2>2, Typed DEF ShowMessage, Prompt, ExitShell, Gone, kernel
<1>3. ASSUME NEW p \in Pids, Fork(p) PROVE TypeOK'
  <2>1. shell' \in Shells BY <1>0, <1>3 DEF Fork, Shells, PCs
  <2>2. proc' \in Children BY <1>0, <1>3 DEF Fork, Children
  <2>3. [job |-> shell.job, bg |-> shell.bg] \in [job : {0} \cup Jobs, bg : BOOLEAN]
    BY <1>0 DEF Shells
  <2>4. forkedFor' \in Forks BY <1>0, <1>3, <2>3 DEF Fork, Forks
  <2> QED BY <1>0, <1>3, <2>1, <2>2, <2>4, Typed DEF Fork
<1>4. ASSUME ForkFails \/ Wait \/ WaitFails PROVE TypeOK'
  <2>1. shell' \in Shells
    BY <1>0, <1>4 DEF ForkFails, Wait, WaitFails, Ends, Shells, PCs, Outcomes
  <2>2. proc' \in Children
    BY <1>0, <1>4 DEF ForkFails, Wait, WaitFails, kernel, Children
  <2> QED BY <1>0, <1>4, <2>1, <2>2, Typed DEF ForkFails, Wait, WaitFails, kernel
<1>5. ASSUME Parent PROVE TypeOK'
  <2>0. /\ shell.pid \in Pids /\ shell.first \in Pids /\ shell.job \in Jobs
        /\ shell.left \in 1 .. shell.procs /\ shell.procs \in Nat
    BY <1>0, <1>5 DEF Parent, At, ForkState, RoomKept, Shells
  <2>1. Entry \in Entries BY <2>0 DEF Entry, Entries
  <2>2. bg_array' \in Seq(Entries) BY <1>0, <1>5, <2>1 DEF Parent
  <2>3. shell.left - 1 \in Nat BY <2>0
  <2>4. shell' \in Shells BY <1>0, <1>5, <2>3 DEF Parent, Shells, PCs, Outcomes
  <2> QED BY <1>0, <1>5, <2>2, <2>4, Typed DEF Parent, kernel
<1>6. ASSUME NEW p \in Pids, ChildEnds(p) PROVE TypeOK'
  <2>1. proc' \in Children BY <1>0, <1>6 DEF ChildEnds, Children
  <2> QED BY <1>0, <1>6, <2>1, Typed DEF ChildEnds
<1>7. ASSUME Deliver \/ Return PROVE TypeOK'
  BY <1>0, <1>7, Typed DEF Deliver, Return, kernel
<1>8. ASSUME NEW p \in Pids, Reap(p) PROVE TypeOK'
  <2>1. proc' \in Children BY <1>0, <1>8 DEF Reap, Children
  <2>2. CASE UNCHANGED <<bg_array, pipe, announced>>
    BY <1>0, <1>8, <2>1, <2>2, Typed DEF Reap, LoopsAgain
  <2>3. ASSUME NEW i \in Matches(p), StrikeOff(i)
        PROVE  bg_array' \in Seq(Entries) /\ pipe' \in Seq(Jobs) /\ announced' \in [Jobs -> Nat]
    <3>1. i \in 1 .. Len(bg_array) BY DEF Matches
    <3>2. bg_array[i] \in Entries BY <1>0, <3>1
    <3>3. bg_array[i].job \in Jobs BY <3>2 DEF Entries
    <3>4. bg_array' \in Seq(Entries) BY <1>0, <2>3, <3>1, WithoutOne DEF StrikeOff
    <3>5. pipe' = pipe \/ pipe' = Append(pipe, bg_array[i].job) BY <2>3 DEF StrikeOff
    <3>6. announced' = announced
            \/ announced' = [announced EXCEPT ![bg_array[i].job] = @ + 1]
      BY <2>3 DEF StrikeOff
    <3>7. [announced EXCEPT ![bg_array[i].job] = @ + 1] \in [Jobs -> Nat]
      BY <1>0, <3>3, CountUp
    <3>8. pipe' \in Seq(Jobs)
      <4> DEFINE j == bg_array[i].job
      <4>1. pipe \in Seq(Jobs) /\ j \in Jobs /\ (pipe' = pipe \/ pipe' = Append(pipe, j))
        BY <1>0, <3>3, <3>5
      <4> HIDE DEF j
      <4> QED BY <4>1
    <3> QED BY <1>0, <3>4, <3>6, <3>7, <3>8
  <2> QED BY <1>0, <1>8, <2>1, <2>2, <2>3, Typed DEF Reap, LoopsAgain
<1>9. CASE UNCHANGED vars BY <1>0, <1>9, Typed DEF vars, kernel
<1> QED BY <1>1, <1>2, <1>3, <1>4, <1>5, <1>6, <1>7, <1>8, <1>9
        DEF Next, Enter, Runs, Handler

(***************************************************************************)
(* The room in bg_array.                                                   *)
(***************************************************************************)
\* What the steps do to the length of bg_array and to what is left to fork.
LEMMA RoomStep ==
  TypeOK /\ TableFits /\ RoomKept /\ [Next]_vars => TableFits' /\ RoomKept'
PROOF
<1> SUFFICES ASSUME TypeOK, TableFits, RoomKept, [Next]_vars PROVE TableFits' /\ RoomKept'
  OBVIOUS
<1>0. /\ bg_array \in Seq(Entries) /\ Len(bg_array) \in Nat
      /\ shell \in Shells /\ shell.left \in Nat /\ shell.procs \in Nat /\ MaxBg \in Nat
  BY Typed, JobsAssumption DEF Shells
<1> USE DEF TableFits, RoomKept
<1>1. ASSUME NEW bg \in BOOLEAN, NEW n \in Sizes, Start(bg, n) PROVE TableFits' /\ RoomKept'
  <2>1. n \in 1 .. n BY JobsAssumption DEF Sizes
  <2>2. bg => Len(bg_array) + n <= MaxBg
    BY <1>0, <1>1, JobsAssumption DEF Start, OverLimit, Sizes
  <2> QED BY <1>1, <2>1, <2>2 DEF Start
<1>2. ASSUME NEW n \in Sizes, Refuse(n) PROVE TableFits' /\ RoomKept'
  BY <1>0, <1>2 DEF Refuse, Shells
<1>3. ASSUME ShowMessage \/ Prompt \/ ExitShell \/ Gone PROVE TableFits' /\ RoomKept'
  BY <1>0, <1>3 DEF ShowMessage, Prompt, ExitShell, Gone, Goes, Shells
<1>4. ASSUME NEW p \in Pids, Fork(p) PROVE TableFits' /\ RoomKept'
  BY <1>0, <1>4 DEF Fork, At, Shells
<1>5. ASSUME ForkFails \/ Wait \/ WaitFails PROVE TableFits' /\ RoomKept'
  BY <1>0, <1>5 DEF ForkFails, Wait, WaitFails, Ends, Shells, kernel
<1>6. ASSUME Parent PROVE TableFits' /\ RoomKept'
  <2>1. Len(bg_array') = IF shell.bg THEN Len(bg_array) + 1 ELSE Len(bg_array)
    BY <1>0, <1>6 DEF Parent
  <2>2. /\ shell'.left = shell.left - 1 /\ shell'.procs = shell.procs
        /\ shell'.bg = shell.bg
        /\ shell'.pc = IF shell.left > 1 THEN "fork" ELSE IF shell.bg THEN "prompt" ELSE "wait"
    BY <1>0, <1>6 DEF Parent, Shells
  <2>3. shell.left \in 1 .. shell.procs /\ (shell.bg => Len(bg_array) + shell.left <= MaxBg)
    BY <1>6 DEF Parent, At
  <2> QED BY <1>0, <2>1, <2>2, <2>3
<1>7. ASSUME NEW p \in Pids, Reap(p) PROVE TableFits' /\ RoomKept'
  <2>1. Len(bg_array') \in Nat /\ Len(bg_array') <= Len(bg_array)
    <3>1. ASSUME NEW i \in Matches(p), StrikeOff(i)
          PROVE  Len(bg_array') \in Nat /\ Len(bg_array') <= Len(bg_array)
      <4>1. i \in 1 .. Len(bg_array) BY DEF Matches
      <4> QED BY <1>0, <3>1, <4>1, WithoutOne DEF StrikeOff
    <3> QED BY <1>0, <1>7, <3>1 DEF Reap
  <2>2. shell' = shell BY <1>7 DEF Reap
  <2> QED BY <1>0, <2>1, <2>2
<1>8. ASSUME Deliver \/ Return \/ (\E p \in Pids : ChildEnds(p)) \/ UNCHANGED vars
      PROVE  TableFits' /\ RoomKept'
  BY <1>8 DEF Deliver, Return, ChildEnds, vars
<1> QED BY <1>1, <1>2, <1>3, <1>4, <1>5, <1>6, <1>7, <1>8
        DEF Next, Enter, Runs, Handler

LEMMA StartNumbers ==
  ASSUME NEW n \in Sizes, NEW j \in {0} \cup Jobs, j < MaxJobs
  PROVE  j + 1 \in Jobs /\ ~(n < n)
PROOF
  BY JobsAssumption DEF Sizes, Jobs

\* What shell says of the processes just forked and first forked stays true.
LEMMA ForkStep ==
  TypeOK /\ RoomKept /\ ForkState /\ [Next]_vars => ForkState'
PROOF
<1> SUFFICES ASSUME TypeOK, RoomKept, ForkState, [Next]_vars PROVE ForkState' OBVIOUS
<1>0. /\ forkedFor \in Forks /\ shell \in Shells /\ shell.job \in {0} \cup Jobs
      /\ shell.left \in Nat /\ shell.procs \in Nat
  BY Typed DEF Shells
<1> USE DEF ForkState, Waited
<1>1. ASSUME NEW bg \in BOOLEAN, NEW n \in Sizes, Start(bg, n) PROVE ForkState'
  <2>1. shell.job < MaxJobs BY <1>1 DEF Start
  <2>2. shell.job + 1 \in Jobs /\ ~(n < n) BY <1>0, <2>1, StartNumbers
  <2> QED BY <1>1, <2>2 DEF Start
<1>2. ASSUME NEW n \in Sizes, Refuse(n) PROVE ForkState'
  BY <1>0, <1>2 DEF Refuse, Shells
<1>3. ASSUME ShowMessage \/ Prompt \/ ExitShell \/ Gone PROVE ForkState'
  BY <1>0, <1>3 DEF ShowMessage, Prompt, ExitShell, Gone, Goes, At, kernel, Shells
<1>4. ASSUME NEW p \in Pids, Fork(p) PROVE ForkState'
  <2>1. shell.pc = "fork" /\ shell.job \in Jobs /\ shell.left \in 1 .. shell.procs
    BY <1>4 DEF Fork, At, RoomKept
  <2>2. forkedFor'[p] = [job |-> shell.job, bg |-> shell.bg] BY <1>0, <1>4 DEF Fork, Forks
  <2>3. /\ shell'.pc = "forked" /\ shell'.pid = p /\ shell'.job = shell.job
        /\ shell'.bg = shell.bg
        /\ shell'.first = IF shell.left = shell.procs THEN p ELSE shell.first
    BY <1>0, <1>4 DEF Fork, Shells
  <2>4. shell'.first \in Pids BY <1>0, <2>1, <2>3
  <2> QED BY <2>1, <2>2, <2>3, <2>4
<1>5. ASSUME ForkFails \/ Wait \/ WaitFails PROVE ForkState'
  BY <1>0, <1>5 DEF ForkFails, Wait, WaitFails, Ends, At, Shells, kernel
<1>6. ASSUME Parent PROVE ForkState'
  <2>1. shell.pc = "forked" /\ shell.job \in Jobs /\ shell.first \in Pids
    BY <1>6 DEF Parent, At
  <2>2. /\ shell'.first = shell.first /\ shell'.job = shell.job
        /\ shell'.pc \in {"fork", "prompt", "wait"}
    BY <1>0, <1>6 DEF Parent, Shells
  <2> QED BY <2>1, <2>2
<1>7. ASSUME \/ Deliver \/ Return \/ UNCHANGED vars
             \/ \E p \in Pids : ChildEnds(p) \/ Reap(p)
      PROVE  ForkState'
  <2>1. shell' = shell /\ forkedFor' = forkedFor
    BY <1>7 DEF Deliver, Return, ChildEnds, Reap, vars, kernel
  <2> QED BY <2>1
<1> QED BY <1>1, <1>2, <1>3, <1>4, <1>5, <1>6, <1>7
        DEF Next, Enter, Runs, Handler

(***************************************************************************)
(* No background process is lost.                                          *)
(***************************************************************************)
\* A step that takes nothing from bg_array, and leaves as many or fewer
\* processes in the background, loses none.
LEMMA ListedStep ==
  TypeOK /\ ForkState /\ LiveAreListed /\ [Next]_vars => LiveAreListed'
PROOF
<1> SUFFICES ASSUME TypeOK, ForkState, LiveAreListed, [Next]_vars,
                    NEW q \in Pids, proc'[q] # "none", forkedFor'[q].bg
             PROVE  (\E i \in 1 .. Len(bg_array') : bg_array'[i].pid = q)
                      \/ (shell'.pc = "forked" /\ shell'.pid = q)
  BY DEF LiveAreListed, Background, Unreaped, Matches
<1> DEFINE OnList == \E i \in 1 .. Len(bg_array) : bg_array[i].pid = q
<1>0. /\ bg_array \in Seq(Entries) /\ proc \in Children /\ forkedFor \in Forks
      /\ shell \in Shells
  BY Typed
<1>1. proc[q] # "none" /\ forkedFor[q].bg => OnList \/ (shell.pc = "forked" /\ shell.pid = q)
  BY DEF LiveAreListed, Background, Unreaped, Matches
<1>2. ASSUME NEW p \in Pids, Fork(p)
      PROVE  OnList \/ (shell'.pc = "forked" /\ shell'.pid = q)
  <2>1. shell'.pc = "forked" /\ shell'.pid = p /\ shell.pc # "forked"
    BY <1>0, <1>2 DEF Fork, At, Shells
  <2>2. q # p => proc'[q] = proc[q] /\ forkedFor'[q] = forkedFor[q]
    BY <1>0, <1>2 DEF Fork, Children, Forks
  <2> QED BY <1>1, <2>1, <2>2
<1>3. ASSUME Parent PROVE \E i \in 1 .. Len(bg_array') : bg_array'[i].pid = q
  <2>1. OnList \/ (shell.pid = q /\ forkedFor[q] = [job |-> shell.job, bg |-> shell.bg])
    BY <1>1, <1>3 DEF Parent, ForkState, kernel
  <2>2. CASE OnList
    BY <1>0, <1>3, <2>2 DEF Parent
  <2>3. CASE shell.pid = q /\ forkedFor[q] = [job |-> shell.job, bg |-> shell.bg]
    <3>1. shell.bg BY <1>3, <2>3 DEF Parent, kernel
    <3>2. bg_array' = Append(bg_array, Entry) /\ Entry.pid = q
      BY <1>3, <2>3, <3>1 DEF Parent, Entry
    <3>3. Len(bg_array) + 1 \in 1 .. Len(bg_array') /\ bg_array'[Len(bg_array) + 1] = Entry
      BY <1>0, <3>2
    <3> QED BY <3>2, <3>3
  <2> QED BY <2>1, <2>2, <2>3
<1>4. ASSUME NEW p \in Pids, Reap(p)
      PROVE  (\E i \in 1 .. Len(bg_array') : bg_array'[i].pid = q)
               \/ (shell'.pc = "forked" /\ shell'.pid = q)
  <2>1. q # p /\ proc[q] # "none" /\ forkedFor[q].bg /\ shell' = shell
    BY <1>0, <1>4 DEF Reap, Children
  <2>2. CASE OnList
    <3>1. PICK k \in 1 .. Len(bg_array) : bg_array[k].pid = q BY <2>2
    <3>2. ASSUME NEW i \in Matches(p), StrikeOff(i)
          PROVE  \E m \in 1 .. Len(bg_array') : bg_array'[m].pid = q
      <4>1. i \in 1 .. Len(bg_array) /\ bg_array[i].pid = p BY DEF Matches
      <4>2. k # i BY <2>1, <3>1, <4>1
      <4>3. bg_array' = Without(bg_array, i) BY <3>2 DEF StrikeOff
      <4>4. /\ Len(bg_array') = Len(bg_array) - 1
            /\ \E m \in 1 .. Len(bg_array) - 1 : bg_array'[m] = bg_array[k]
        BY <1>0, <3>1, <4>1, <4>2, <4>3, WithoutOne
      <4> QED BY <3>1, <4>4
    <3>3. CASE bg_array' = bg_array BY <3>1, <3>3
    <3> QED BY <1>4, <3>2, <3>3 DEF Reap
  <2> QED BY <1>1, <2>1, <2>2
<1>5. ASSUME NEW p \in Pids, ChildEnds(p)
      PROVE  OnList \/ (shell.pc = "forked" /\ shell.pid = q)
  <2>1. proc[q] # "none" /\ forkedFor[q].bg
    BY <1>0, <1>5 DEF ChildEnds, Children
  <2> QED BY <1>1, <2>1
<1>6. ASSUME ForkFails \/ Wait \/ WaitFails PROVE OnList
  <2>1. proc[q] # "none" /\ forkedFor[q].bg
    BY <1>0, <1>6 DEF ForkFails, Wait, WaitFails, kernel, Children
  <2>2. shell.pc # "forked" BY <1>6 DEF ForkFails, Wait, WaitFails, At
  <2> QED BY <1>1, <2>1, <2>2
<1>7. ASSUME \/ ShowMessage \/ Prompt \/ ExitShell \/ Gone
             \/ \E n \in Sizes : Refuse(n) \/ \E bg \in BOOLEAN : Start(bg, n)
      PROVE  OnList
  <2>1. shell.pc # "forked" /\ proc' = proc /\ forkedFor' = forkedFor
    BY <1>7 DEF ShowMessage, Prompt, ExitShell, Gone, Refuse, Start, At, kernel
  <2> QED BY <1>1, <2>1
<1>8. CASE Deliver \/ Return \/ UNCHANGED vars
  <2>1. proc' = proc /\ forkedFor' = forkedFor /\ bg_array' = bg_array /\ shell' = shell
    BY <1>8 DEF Deliver, Return, vars, kernel
  <2> QED BY <1>1, <2>1
<1>9. bg_array' = bg_array \/ Parent \/ \E p \in Pids : Reap(p)
  BY DEF Next, Enter, Runs, Handler, ShowMessage, Prompt, ExitShell, Gone, Refuse, Start, Fork,
         ForkFails, Wait, WaitFails, ChildEnds, Deliver, Return, vars
<1>10. (\E p \in Pids : ChildEnds(p)) => shell' = shell BY DEF ChildEnds
<1> QED BY <1>2, <1>3, <1>4, <1>5, <1>6, <1>7, <1>8, <1>9, <1>10
        DEF Next, Enter, Runs, Handler

(***************************************************************************)
(* The foreground.                                                         *)
(***************************************************************************)
\* A first process that has ended stays so until the next command.
LEMMA AwaitedStep ==
  TypeOK /\ RoomKept /\ ForkState /\ FirstAwaited /\ [Next]_vars => FirstAwaited'
PROOF
<1> SUFFICES ASSUME TypeOK, RoomKept, ForkState, FirstAwaited, [Next]_vars, Waited'
             PROVE  ~(proc'[shell'.first] = "running"
                        /\ forkedFor'[shell'.first].job = shell'.job)
  BY DEF FirstAwaited
<1>0. shell \in Shells /\ proc \in Children BY Typed
<1>1. ASSUME ShowMessage \/ Prompt \/ ExitShell \/ Gone
      PROVE  ~(proc'[shell'.first] = "running" /\ forkedFor'[shell'.first].job = shell'.job)
  <2>1. /\ proc' = proc /\ forkedFor' = forkedFor /\ shell'.first = shell.first
        /\ shell'.job = shell.job /\ shell'.outcome = shell.outcome
    BY <1>0, <1>1 DEF ShowMessage, Prompt, ExitShell, Gone, Goes, kernel, Shells
  <2>2. shell.pc = "prompt" \/ shell'.pc \in {"cleaned", "gone"}
    BY <1>0, <1>1 DEF ShowMessage, Prompt, ExitShell, Gone, At, Goes, Shells
  <2>3. Waited BY <2>1, <2>2 DEF Waited
  <2> QED BY <2>1, <2>3 DEF FirstAwaited
<1>2. ASSUME NEW n \in Sizes, Refuse(n) \/ \E bg \in BOOLEAN : Start(bg, n) PROVE FALSE
  <2>1. shell'.outcome = "refused" \/ shell'.pc = "fork"
    <3>1. Refuse(n) => shell'.outcome = "refused" BY <1>0 DEF Refuse, Shells
    <3>2. (\E bg \in BOOLEAN : Start(bg, n)) => shell'.pc = "fork" BY DEF Start
    <3> QED BY <1>2, <3>1, <3>2
  <2> QED BY <2>1 DEF Waited
<1>3. ASSUME Parent \/ ForkFails \/ \E p \in Pids : Fork(p) PROVE FALSE
  <2>1. shell'.outcome \in {"running", "fork failed"} \/ shell'.pc \in {"fork", "forked", "wait"}
    <3>1. Parent => shell'.outcome = "running" \/ shell'.pc \in {"fork", "wait"}
      BY <1>0 DEF Parent, At, RoomKept, Shells
    <3>2. ForkFails => shell'.outcome = "fork failed" BY <1>0 DEF ForkFails, Ends, Shells
    <3>3. (\E p \in Pids : Fork(p)) => shell'.pc = "forked" BY <1>0 DEF Fork, Shells
    <3> QED BY <1>3, <3>1, <3>2, <3>3
  <2> QED BY <2>1 DEF Waited
<1>4. ASSUME Wait \/ WaitFails PROVE proc'[shell'.first] # "running"
  <2>1. shell.first \in Pids /\ shell'.first = shell.first
    BY <1>0, <1>4 DEF Wait, WaitFails, Ends, At, ForkState, Shells
  <2>2. proc[shell.first] \in {"zombie", "none"}
    BY <1>4 DEF Wait, WaitFails, Awaited, ReapedBefore, Unreaped
  <2> QED BY <1>0, <1>4, <2>1, <2>2 DEF Wait, WaitFails, kernel, Children
<1>5. ASSUME \/ Deliver \/ Return \/ UNCHANGED vars
             \/ \E p \in Pids : ChildEnds(p) \/ Reap(p)
      PROVE  ~(proc'[shell'.first] = "running" /\ forkedFor'[shell'.first].job = shell'.job)
  <2>1. shell' = shell /\ forkedFor' = forkedFor
    BY <1>5 DEF Deliver, Return, ChildEnds, Reap, vars, kernel
  <2>2. Waited /\ shell.first \in Pids BY <2>1 DEF Waited, ForkState
  <2>3. proc'[shell.first] = "running" => proc[shell.first] = "running"
    BY <1>0, <1>5, <2>2 DEF Deliver, Return, ChildEnds, Reap, vars, kernel, Children
  <2> QED BY <2>1, <2>2, <2>3 DEF FirstAwaited
<1> QED BY <1>1, <1>2, <1>3, <1>4, <1>5 DEF Next, Enter, Runs, Handler

(***************************************************************************)
(* The theorems.                                                           *)
(***************************************************************************)
LEMMA Invariance == Spec => []IInv
PROOF
<1>1. Init => IInv BY Initially
<1>2. IInv /\ [Next]_vars => IInv'
  BY TypeStep, RoomStep, ForkStep, ListedStep, AwaitedStep DEF IInv
<1> QED BY <1>1, <1>2, PTL DEF Spec

\* The shell's variables and the kernel's table of children keep their types.
THEOREM TypesKept == Spec => []TypeOK
PROOF
<1>1. IInv => TypeOK BY DEF IInv
<1> QED BY <1>1, Invariance, PTL

\* bg_array is never written beyond MAX_BG_PRO elements, for any bound.
THEOREM TableNeverOverrun == Spec => []TableFits
PROOF
<1>1. IInv => TableFits BY DEF IInv
<1> QED BY <1>1, Invariance, PTL

\* Every background process that has not been reaped is in bg_array or about to
\* be entered.
THEOREM NoneLost == Spec => []LiveAreListed
PROOF
<1>1. IInv => LiveAreListed BY DEF IInv
<1> QED BY <1>1, Invariance, PTL

\* The shell does not prompt before the first process of a foreground command
\* has ended.
THEOREM PromptAfterFirst == Spec => []FirstAwaited
PROOF
<1>1. IInv => FirstAwaited BY DEF IInv
<1> QED BY <1>1, Invariance, PTL

\* The elements of a sequence are no more than its length.
LEMMA NoMorePids ==
  ASSUME NEW s \in Seq(Entries)
  PROVE  LET listed == {s[i].pid : i \in 1 .. Len(s)}
         IN  IsFiniteSet(listed) /\ Cardinality(listed) <= Len(s)
PROOF
<1> DEFINE listed == {s[i].pid : i \in 1 .. Len(s)}
           f == [i \in 1 .. Len(s) |-> s[i].pid]
<1>1. Len(s) \in Nat OBVIOUS
<1>2. IsFiniteSet(1 .. Len(s)) /\ Cardinality(1 .. Len(s)) = Len(s)
  BY <1>1, FS_Interval
<1>3. f \in Surjection(1 .. Len(s), listed) BY DEF Surjection
<1>4. IsFiniteSet(listed) /\ Cardinality(listed) <= Cardinality(1 .. Len(s))
  <2> DEFINE D == 1 .. Len(s)
  <2>1. IsFiniteSet(D) /\ f \in Surjection(D, listed) BY <1>2, <1>3
  <2>2. IsFiniteSet(listed) /\ Cardinality(listed) <= Cardinality(D)
    <3> HIDE DEF D, f, listed
    <3> QED BY <2>1, FS_Surjection
  <2> QED BY <2>2
<1> QED BY <1>2, <1>4

\* All background processes but the one just forked have an entry, and that one
\* has its place kept.
LEMMA LimitFollows ==
  TypeOK /\ TableFits /\ RoomKept /\ ForkState /\ LiveAreListed => LimitHolds
PROOF
<1> SUFFICES ASSUME TypeOK, TableFits, RoomKept, ForkState, LiveAreListed
           PROVE  Cardinality(Background) <= MaxBg BY DEF LimitHolds
<1> DEFINE listed == {bg_array[i].pid : i \in 1 .. Len(bg_array)}
<1>0. bg_array \in Seq(Entries) /\ Len(bg_array) \in Nat /\ shell \in Shells
  BY Typed
<1>1. IsFiniteSet(listed) /\ Cardinality(listed) <= Len(bg_array) /\ Cardinality(listed) \in Nat
  BY <1>0, NoMorePids, FS_CardinalityType
<1>2. CASE shell.pc = "forked" /\ shell.bg
  <2>1. Background \subseteq listed \cup {shell.pid}
    BY DEF LiveAreListed, Matches
  <2>2. /\ IsFiniteSet(listed \cup {shell.pid})
        /\ Cardinality(listed \cup {shell.pid}) <= Cardinality(listed) + 1
    <3> HIDE DEF listed
    <3>1. Cardinality(listed \cup {shell.pid}) =
            IF shell.pid \in listed THEN Cardinality(listed) ELSE Cardinality(listed) + 1
      BY <1>1, FS_AddElement
    <3> QED BY <1>1, <3>1, FS_AddElement
  <2>3. Cardinality(Background) <= Cardinality(listed \cup {shell.pid})
    BY <2>1, <2>2, FS_Subset
  <2>4. Len(bg_array) + shell.left <= MaxBg /\ shell.left >= 1 /\ shell.left \in Nat
    BY <1>0, <1>2 DEF RoomKept, Shells
  <2> QED
    BY <1>0, <1>1, <2>1, <2>2, <2>3, <2>4, JobsAssumption, FS_Subset, FS_CardinalityType
<1>3. CASE ~(shell.pc = "forked" /\ shell.bg)
  <2>1. Background \subseteq listed
    BY <1>3 DEF LiveAreListed, Matches, ForkState, Background
  <2>2. Cardinality(Background) <= Cardinality(listed) BY <1>1, <2>1, FS_Subset
  <2>3. Len(bg_array) <= MaxBg BY DEF TableFits
  <2> QED
    BY <1>0, <1>1, <2>1, <2>2, <2>3, JobsAssumption, FS_Subset, FS_CardinalityType
<1> QED BY <1>2, <1>3

\* At any time at most MAX_BG_PRO background processes run or wait to be reaped.
THEOREM LimitKept == Spec => []LimitHolds
PROOF
<1>1. IInv => LimitHolds BY LimitFollows DEF IInv
<1> QED BY <1>1, Invariance, PTL

(***************************************************************************)
(* The two earlier versions.  Most of their steps are steps of Next; the   *)
(* others are DebugRefuse, DebugWaitGroup, and the reaping of a child by   *)
(* either handler.                                                         *)
(***************************************************************************)
EarlierInv ==
  /\ TypeOK /\ TableFits /\ RoomKept /\ ForkState /\ LiveAreListed
  /\ edition \in {"debug", "backup"}
  /\ edition = "backup" \/ shell.procs = 1 => FirstAwaited

\* The handler of either version reaps a child, which at most takes away the
\* first entry that has its pid.
Reaped(p) ==
  /\ proc[p] = "zombie"
  /\ proc' = [proc EXCEPT ![p] = "none"]
  /\ handling' \in BOOLEAN
  /\ UNCHANGED <<forkedFor, pending, pipe, shell>>
  /\ \/ UNCHANGED <<bg_array, announced>>
     \/ \E i \in Matches(p) :
          /\ bg_array' = Without(bg_array, i)
          /\ announced' \in {announced, [announced EXCEPT ![bg_array[i].job] = @ + 1]}

\* What an earlier version does that the later one does not.
LEMMA EarlierSteps ==
  ASSUME TypeOK, EarlierNext
  PROVE  /\ edition' = edition
         /\ \/ Next
            \/ \E n \in Sizes : DebugRefuse(n)
            \/ DebugWaitGroup
            \/ \E p \in Pids : Reaped(p)
PROOF
<1>1. edition' = edition BY DEF EarlierNext
<1>2. handling \in BOOLEAN BY DEF TypeOK
<1>3. ASSUME NEW p \in Pids, StrikeOffReporting(p)
      PROVE  \E i \in Matches(p) :
               /\ bg_array' = Without(bg_array, i)
               /\ announced' \in {announced, [announced EXCEPT ![bg_array[i].job] = @ + 1]}
  BY <1>3 DEF StrikeOffReporting
<1>4. ASSUME NEW p \in Pids, DebugReap(p) \/ BackupReap(p) PROVE Reaped(p)
  BY <1>2, <1>3, <1>4 DEF DebugReap, BackupReap, Reaped, Zombies
<1>5. ASSUME \/ DebugPrompt \/ BackupPrompt \/ ExitShell \/ Gone
             \/ \E n \in Sizes, bg \in BOOLEAN : DebugStart(bg, n) \/ BackupStart(bg, n)
             \/ \E n \in Sizes : BackupRefuse(n)
             \/ DebugForkFails \/ DebugParent \/ DebugWait \/ BackupRuns
             \/ Deliver \/ Return
             \/ \E p \in Pids : DebugFork(p) \/ ChildEnds(p)
      PROVE  Next
  BY <1>5 DEF DebugPrompt, BackupPrompt, DebugStart, BackupStart, BackupRefuse, DebugForkFails,
       DebugParent, DebugWait, BackupRuns, DebugFork, Next, Enter, Runs, Handler
<1> QED BY <1>1, <1>4, <1>5 DEF EarlierNext

\* A reaped child leaves the others listed, and the rest as it was.
LEMMA ReapedStep ==
  ASSUME TypeOK, TableFits, RoomKept, ForkState, LiveAreListed, NEW p \in Pids, Reaped(p)
  PROVE  /\ TypeOK' /\ TableFits' /\ RoomKept' /\ ForkState' /\ LiveAreListed'
         /\ FirstAwaited => FirstAwaited'
PROOF
<1>0. /\ bg_array \in Seq(Entries) /\ Len(bg_array) \in Nat
      /\ proc \in Children /\ forkedFor \in Forks
      /\ pending \in BOOLEAN /\ handling \in BOOLEAN /\ pipe \in Seq(Jobs)
      /\ shell \in Shells /\ announced \in [Jobs -> Nat]
      /\ shell.left \in Nat /\ MaxBg \in Nat
  BY Typed, JobsAssumption DEF Shells
<1>1. /\ shell' = shell /\ forkedFor' = forkedFor /\ proc' = [proc EXCEPT ![p] = "none"]
      /\ pending' = pending /\ pipe' = pipe /\ handling' \in BOOLEAN
  BY DEF Reaped
<1>2. bg_array' \in Seq(Entries) /\ Len(bg_array') \in Nat /\ Len(bg_array') <= Len(bg_array)
      /\ \A k \in 1 .. Len(bg_array) : bg_array[k].pid # p =>
           \E m \in 1 .. Len(bg_array') : bg_array'[m] = bg_array[k]
  <2> DEFINE Struck == /\ bg_array' \in Seq(Entries) /\ Len(bg_array') \in Nat
                       /\ Len(bg_array') <= Len(bg_array)
                       /\ \A k \in 1 .. Len(bg_array) : bg_array[k].pid # p =>
                            \E m \in 1 .. Len(bg_array') : bg_array'[m] = bg_array[k]
  <2>1. ASSUME bg_array' = bg_array PROVE Struck BY <1>0, <2>1
  <2>2. ASSUME NEW i \in Matches(p), bg_array' = Without(bg_array, i) PROVE Struck
    <3>1. i \in 1 .. Len(bg_array) /\ bg_array[i].pid = p BY DEF Matches
    <3>2. /\ bg_array' \in Seq(Entries) /\ Len(bg_array') = Len(bg_array) - 1
          /\ \A k \in 1 .. Len(bg_array) : k # i =>
               \E m \in 1 .. Len(bg_array) - 1 : bg_array'[m] = bg_array[k]
      BY <1>0, <2>2, <3>1, WithoutOne
    <3> QED BY <1>0, <3>1, <3>2
  <2>3. bg_array' = bg_array \/ \E i \in Matches(p) : bg_array' = Without(bg_array, i) BY DEF Reaped
  <2>4. Struck
    <3> HIDE DEF Struck
    <3> QED BY ONLY <2>1, <2>2, <2>3
  <2> QED BY ONLY <2>4
<1>3. announced' \in [Jobs -> Nat]
  <2>1. ASSUME NEW i \in Matches(p)
        PROVE  [announced EXCEPT ![bg_array[i].job] = @ + 1] \in [Jobs -> Nat]
    <3>1. bg_array[i] \in Entries BY <1>0 DEF Matches
    <3>2. bg_array[i].job \in Jobs BY <3>1 DEF Entries
    <3> QED BY <1>0, <3>2, CountUp
  <2> QED BY <1>0, <2>1 DEF Reaped
<1>4. proc' \in Children BY <1>0, <1>1 DEF Children
<1>5. TypeOK' BY <1>0, <1>1, <1>2, <1>3, <1>4, Typed
<1>6. TableFits' /\ RoomKept' BY <1>0, <1>1, <1>2 DEF TableFits, RoomKept
<1>7. ForkState' BY <1>1 DEF ForkState, Waited
<1>8. LiveAreListed'
  <2> SUFFICES ASSUME NEW q \in Pids, proc'[q] # "none", forkedFor'[q].bg
               PROVE  (\E i \in 1 .. Len(bg_array') : bg_array'[i].pid = q)
                        \/ (shell'.pc = "forked" /\ shell'.pid = q)
    BY DEF LiveAreListed, Background, Unreaped, Matches
  <2>1. q # p /\ proc[q] # "none" /\ forkedFor[q].bg BY <1>0, <1>1 DEF Children
  <2>2. \/ \E k \in 1 .. Len(bg_array) : bg_array[k].pid = q
        \/ shell.pc = "forked" /\ shell.pid = q
    BY <2>1 DEF LiveAreListed, Background, Unreaped, Matches
  <2>3. ASSUME NEW k \in 1 .. Len(bg_array), bg_array[k].pid = q
        PROVE  \E m \in 1 .. Len(bg_array') : bg_array'[m].pid = q
    <3>1. PICK m \in 1 .. Len(bg_array') : bg_array'[m] = bg_array[k] BY <1>2, <2>1, <2>3
    <3> QED BY <2>3, <3>1
  <2> QED BY <1>1, <2>2, <2>3
<1>9. ASSUME FirstAwaited PROVE FirstAwaited'
  <2>1. proc'[shell.first] = "running" => proc[shell.first] = "running"
    BY <1>0, <1>1 DEF Children
  <2> QED BY <1>1, <1>9, <2>1 DEF FirstAwaited, Waited
<1> QED BY <1>5, <1>6, <1>7, <1>8, <1>9

\* A prompt at which a command counts as ended is that of the command before:
\* its number of processes changes only when one is started.
LEMMA ProcsKept ==
  ASSUME TypeOK, [Next]_vars, Waited'
  PROVE  shell'.procs = shell.procs
PROOF
<1>0. shell \in Shells BY Typed
<1>1. ASSUME NEW n \in Sizes, NEW bg \in BOOLEAN, Start(bg, n) PROVE FALSE
  BY <1>1 DEF Start, Waited
<1>2. ASSUME \/ ShowMessage \/ Prompt \/ ExitShell \/ Gone \/ (\E n \in Sizes : Refuse(n))
             \/ Runs \/ Handler \/ (\E p \in Pids : ChildEnds(p)) \/ UNCHANGED vars
      PROVE  shell'.procs = shell.procs
  BY <1>0, <1>2 DEF ShowMessage, Prompt, ExitShell, Gone, Refuse, Runs, Handler, ForkFails,
       Parent, Wait, WaitFails, Fork, Deliver, Return, Reap, ChildEnds, Goes, Ends, vars, Shells
<1> QED BY <1>1, <1>2 DEF Next, Enter

LEMMA EarlierStep == EarlierInv /\ [EarlierNext]_<<vars, edition>> => EarlierInv'
PROOF
<1> SUFFICES ASSUME EarlierInv, [EarlierNext]_<<vars, edition>> PROVE EarlierInv' OBVIOUS
<1>0. /\ TypeOK /\ TableFits /\ RoomKept /\ ForkState /\ LiveAreListed
      /\ edition \in {"debug", "backup"}
      /\ (edition = "backup" \/ shell.procs = 1 => FirstAwaited)
  BY DEF EarlierInv
<1>1. CASE [Next]_vars /\ edition' = edition
  <2>1. TypeOK' /\ TableFits' /\ RoomKept' /\ ForkState' /\ LiveAreListed'
    BY <1>0, <1>1, TypeStep, RoomStep, ForkStep, ListedStep
  <2>2. CASE Waited'
    BY <1>0, <1>1, <2>1, <2>2, AwaitedStep, ProcsKept DEF EarlierInv
  <2>3. CASE ~Waited'
    BY <1>0, <1>1, <2>1, <2>3 DEF EarlierInv, FirstAwaited
  <2> QED BY <2>2, <2>3
<1>2. ASSUME NEW n \in Sizes, DebugRefuse(n), edition' = edition PROVE EarlierInv'
  <2>0. shell \in Shells /\ shell.job < MaxJobs BY <1>0, <1>2, Typed DEF DebugRefuse
  <2>1. shell.job + 1 \in Jobs BY <2>0, StartNumbers DEF Shells
  <2>2. /\ shell' = [shell EXCEPT !.pc = "cleaned", !.outcome = "refused", !.job = @ + 1]
        /\ bg_array' = bg_array /\ proc' = proc /\ forkedFor' = forkedFor
        /\ pending' = pending /\ handling' = handling /\ pipe' = pipe
        /\ announced' = announced /\ shell.pc = "read"
    BY <1>2 DEF DebugRefuse, kernel, At
  <2>3. shell' \in Shells BY <2>0, <2>1, <2>2 DEF Shells, PCs, Outcomes
  <2>4. TypeOK' BY <1>0, <2>2, <2>3, Typed
  <2>5. shell'.pc = "cleaned" BY <2>0, <2>2 DEF Shells
  <2>6. TableFits' /\ RoomKept' /\ ForkState' /\ FirstAwaited'
    BY <1>0, <2>2, <2>5 DEF TableFits, RoomKept, ForkState, FirstAwaited, Waited
  <2>7. LiveAreListed'
    BY <1>0, <2>2 DEF LiveAreListed, Background, Unreaped, Matches
  <2> QED BY <1>0, <1>2, <2>4, <2>6, <2>7 DEF EarlierInv
<1>3. ASSUME DebugWaitGroup, edition' = edition PROVE EarlierInv'
  <2>0. /\ edition = "debug" /\ shell \in Shells /\ shell.pc = "wait" /\ shell.procs > 1
        /\ shell' = [shell EXCEPT !.pc = "prompt", !.outcome = "ended"]
        /\ bg_array' = bg_array /\ proc' = proc /\ forkedFor' = forkedFor
        /\ pending' = pending /\ handling' = handling /\ pipe' = pipe
        /\ announced' = announced
    BY <1>0, <1>3, Typed DEF DebugWaitGroup, Ends, At, kernel
  <2>1. shell' \in Shells /\ shell'.pc = "prompt" /\ shell'.procs = shell.procs
        /\ shell'.first = shell.first
    BY <2>0 DEF Shells, PCs, Outcomes
  <2>2. TypeOK' BY <1>0, <2>0, <2>1, Typed
  <2>3. TableFits' /\ RoomKept' /\ ForkState'
    BY <1>0, <2>0, <2>1 DEF TableFits, RoomKept, ForkState, Waited
  <2>4. LiveAreListed'
    BY <1>0, <2>0 DEF LiveAreListed, Background, Unreaped, Matches
  <2>5. ~(edition' = "backup" \/ shell'.procs = 1)
    BY <1>3, <2>0, <2>1 DEF Shells
  <2> QED BY <1>0, <1>3, <2>2, <2>3, <2>4, <2>5 DEF EarlierInv
<1>4. ASSUME NEW p \in Pids, Reaped(p), edition' = edition PROVE EarlierInv'
  <2>1. shell' = shell BY <1>4 DEF Reaped
  <2> QED BY <1>0, <1>4, <2>1, ReapedStep DEF EarlierInv
<1>5. EarlierNext \/ (UNCHANGED vars /\ edition' = edition) OBVIOUS
<1> QED BY <1>0, <1>1, <1>2, <1>3, <1>4, <1>5, EarlierSteps

\* In both earlier versions, for any bound on the background processes and any
\* pids: bg_array is never overrun, no background process that has not been
\* reaped is missing from it, there are never more of them than it has room
\* for, and a single process in the foreground has ended at the prompt.
THEOREM EarlierShellsSound == EarlierSpec => []EarlierShellSound
PROOF
<1>1. EarlierInit => EarlierInv
  BY Initially DEF EarlierInit, EarlierInv, IInv
<1>2. EarlierInv /\ [EarlierNext]_<<vars, edition>> => EarlierInv' BY EarlierStep
<1>3. EarlierInv => EarlierShellSound
  BY LimitFollows DEF EarlierInv, EarlierShellSound
<1> QED BY <1>1, <1>2, <1>3, PTL DEF EarlierSpec
-----------------------------------------------------------------------------
(***************************************************************************)
(* The array.  The array of dynarray.c is the sequence that dynarray.h     *)
(* promises.  The invariant ArrayInv joins the assertion of the code with  *)
(* the extent of the room and with what its used part may hold: without    *)
(* the last, the garbage that realloc leaves above iLength could not be    *)
(* told from an element.                                                   *)
(***************************************************************************)
Stored == Tokens \cup {NO_TOKEN}
Room   == 0 .. iPhysLength - 1

ArrayInv ==
  /\ iLength \in Nat /\ iPhysLength \in Nat /\ iLength <= iPhysLength
  /\ Created => iPhysLength >= MIN_PHYS_LENGTH
  /\ ppvArray \in [Room -> Stored \cup {GARBAGE}]
  /\ \A i \in 0 .. iLength - 1 : ppvArray[i] \in Stored
  /\ returned \in Seq(Stored)

\* The sequence the shell sees in an array of length n.
Seen(room, n) == [k \in 1 .. n |-> room[k - 1]]

\* The used part of the room is a sequence of elements.
LEMMA SeenIsSeq ==
  ASSUME NEW room, NEW n \in Nat, \A i \in 0 .. n - 1 : room[i] \in Stored
  PROVE  /\ Seen(room, n) \in Seq(Stored)
         /\ Len(Seen(room, n)) = n
         /\ DOMAIN Seen(room, n) = 1 .. n
         /\ \A k \in 1 .. n : Seen(room, n)[k] = room[k - 1]
<1> DEFINE s == Seen(room, n)
<1>1. /\ DOMAIN s = 1 .. n
      /\ \A k \in 1 .. n : s[k] = room[k - 1]
  BY DEF Seen
<1>2. \A k \in 1 .. n : k - 1 \in 0 .. n - 1
  OBVIOUS
<1>3. s \in [1 .. n -> Stored]
  BY <1>2 DEF Seen
<1> HIDE DEF s
<1>4. s \in Seq(Stored) /\ Len(s) = n
  BY <1>3
<1> QED
  BY <1>1, <1>4 DEF s

\* Growing keeps each element at its index and only adds room above.
LEMMA GrownKeeps ==
  ASSUME NEW phys \in Nat, phys > 0,
         NEW room \in [0 .. phys - 1 -> Stored \cup {GARBAGE}]
  PROVE  /\ phys * GROWTH_FACTOR \in Nat /\ phys * GROWTH_FACTOR > phys
         /\ Grown(room, phys) \in [0 .. phys * GROWTH_FACTOR - 1 -> Stored \cup {GARBAGE}]
         /\ \A i \in 0 .. phys - 1 : Grown(room, phys)[i] = room[i]
<1>1. phys * GROWTH_FACTOR \in Nat /\ phys * GROWTH_FACTOR > phys
  BY DynArrayAssumption, SMTT(30)
<1> DEFINE more == phys * GROWTH_FACTOR
<1>2. Grown(room, phys) = [i \in 0 .. more - 1 |-> IF i < phys THEN room[i] ELSE GARBAGE]
  BY DEF Grown
<1>0. more \in Nat
  BY <1>1
<1> HIDE DEF more
<1>3. /\ Grown(room, phys) \in [0 .. more - 1 -> Stored \cup {GARBAGE}]
      /\ more > phys => \A i \in 0 .. phys - 1 : Grown(room, phys)[i] = room[i]
  <2>1. ASSUME NEW i \in 0 .. more - 1
        PROVE  (IF i < phys THEN room[i] ELSE GARBAGE) \in Stored \cup {GARBAGE}
    OBVIOUS
  <2>2. ASSUME more > phys, NEW i \in 0 .. phys - 1
        PROVE  Grown(room, phys)[i] = room[i]
    <3>1. i \in 0 .. more - 1 /\ i < phys
      BY <1>0, <2>2
    <3> QED
      BY <1>2, <3>1
  <2> QED
    BY <1>2, <2>1, <2>2
<1> QED
  BY <1>1, <1>3 DEF more
-----------------------------------------------------------------------------
(* The invariant holds at first, and every call keeps it. *)

LEMMA NewKeeps ==
  ASSUME ArrayInv, NEW n \in 0 .. MaxLength, DynNew(n)
  PROVE  ArrayInv'
<1>1. /\ iLength' \in Nat /\ iPhysLength' \in Nat /\ iLength' <= iPhysLength'
      /\ iPhysLength' >= MIN_PHYS_LENGTH
  BY DynArrayAssumption DEF DynNew
<1>2. /\ ppvArray' \in [0 .. iPhysLength' - 1 -> Stored \cup {GARBAGE}]
      /\ \A i \in 0 .. iPhysLength' - 1 : ppvArray'[i] \in Stored
  BY DEF DynNew, Stored
<1>3. ASSUME NEW i \in 0 .. iLength' - 1
      PROVE  i \in 0 .. iPhysLength' - 1
  BY <1>3, DynArrayAssumption DEF DynNew
<1>4. returned' \in Seq(Stored)
  BY DEF DynNew
<1> QED
  BY <1>1, <1>2, <1>3, <1>4 DEF ArrayInv, Room

\* What DynAdd does, in the terms of the lemmas: the elements stay and the new
\* one is the first after them.
LEMMA AddMoves ==
  ASSUME ArrayInv, NEW t \in Tokens, DynAdd(t)
  PROVE  /\ iLength' = iLength + 1
         /\ iPhysLength' \in Nat /\ iPhysLength' >= iPhysLength
         /\ iLength' <= iPhysLength'
         /\ ppvArray' \in [0 .. iPhysLength' - 1 -> Stored \cup {GARBAGE}]
         /\ ppvArray'[iLength] = t
         /\ \A i \in 0 .. iLength - 1 : ppvArray'[i] = ppvArray[i]
<1> DEFINE full == Full(iLength, iPhysLength)
           room == IF full THEN Grown(ppvArray, iPhysLength) ELSE ppvArray
           phys == IF full THEN iPhysLength * GROWTH_FACTOR ELSE iPhysLength
<1>1. /\ iPhysLength \in Nat /\ iPhysLength > 0 /\ iLength \in Nat /\ iLength <= iPhysLength
      /\ ppvArray \in [0 .. iPhysLength - 1 -> Stored \cup {GARBAGE}]
  BY DEF ArrayInv, DynAdd, Created, Room
<1>2. /\ iLength' = iLength + 1 /\ iPhysLength' = phys
      /\ ppvArray' = [i \in DOMAIN room |-> IF i = iLength THEN t ELSE room[i]]
  BY DEF DynAdd
<1>3. /\ phys \in Nat /\ phys >= iPhysLength /\ iLength < phys
      /\ room \in [0 .. phys - 1 -> Stored \cup {GARBAGE}]
      /\ \A i \in 0 .. iPhysLength - 1 : room[i] = ppvArray[i]
  <2>1. CASE full
    BY <1>1, <2>1, GrownKeeps DEF Full
  <2>2. CASE ~full
    BY <1>1, <2>2 DEF Full
  <2> QED
    BY <2>1, <2>2
<1> HIDE DEF room, phys
<1>4. DOMAIN room = 0 .. phys - 1 /\ t \in Stored
  BY <1>3 DEF Stored
<1>5. ppvArray' \in [0 .. phys - 1 -> Stored \cup {GARBAGE}]
  BY <1>2, <1>3, <1>4
<1>6. ppvArray'[iLength] = t
  BY <1>1, <1>2, <1>3, <1>4
<1>7. ASSUME NEW i \in 0 .. iLength - 1
      PROVE  ppvArray'[i] = ppvArray[i]
  BY <1>1, <1>2, <1>3, <1>4
<1> QED
  BY <1>1, <1>2, <1>3, <1>5, <1>6, <1>7

LEMMA AddKeeps ==
  ASSUME ArrayInv, NEW t \in Tokens, DynAdd(t)
  PROVE  ArrayInv'
<1>1. /\ iLength \in Nat /\ iPhysLength >= MIN_PHYS_LENGTH /\ iPhysLength \in Nat
      /\ \A i \in 0 .. iLength - 1 : ppvArray[i] \in Stored
  BY DEF ArrayInv, DynAdd
<1>2. ASSUME NEW i \in 0 .. iLength' - 1
      PROVE  ppvArray'[i] \in Stored
  <2>1. i = iLength \/ i \in 0 .. iLength - 1
    BY <1>1, AddMoves
  <2> QED
    BY <1>1, <2>1, AddMoves DEF Stored
<1>3. returned' \in Seq(Stored)
  BY DEF DynAdd
<1>4. iLength' \in Nat /\ iPhysLength' >= MIN_PHYS_LENGTH
  BY <1>1, AddMoves, DynArrayAssumption
<1> QED
  BY <1>2, <1>3, <1>4, AddMoves DEF ArrayInv, Room

LEMMA GetKeeps ==
  ASSUME ArrayInv, NEW i \in 0 .. iLength - 1, DynGet(i)
  PROVE  ArrayInv'
<1>1. returned' \in Seq(Stored)
  BY DEF ArrayInv, DynGet
<1> QED
  BY <1>1 DEF ArrayInv, DynGet, Room, Created

LEMMA SetKeeps ==
  ASSUME ArrayInv, NEW i \in 0 .. iLength - 1, NEW t \in Tokens, DynSet(i, t)
  PROVE  ArrayInv'
<1>1. returned' \in Seq(Stored)
  BY DEF ArrayInv, DynSet
<1>2. /\ ppvArray' \in [0 .. iPhysLength - 1 -> Stored \cup {GARBAGE}]
      /\ \A j \in 0 .. iLength - 1 : ppvArray'[j] \in Stored
  <2>1. \A j \in 0 .. iLength - 1 : j \in 0 .. iPhysLength - 1
    BY DEF ArrayInv
  <2> QED
    BY <2>1 DEF ArrayInv, DynSet, Room, Stored
<1> QED
  BY <1>1, <1>2 DEF ArrayInv, DynSet, Room, Created

LEMMA MapKeeps == ArrayInv /\ DynMap => ArrayInv'
<1> SUFFICES ASSUME ArrayInv, DynMap PROVE ArrayInv'
  OBVIOUS
<1>1. returned' \in Seq(Stored)
  BY SeenIsSeq DEF ArrayInv, DynMap, Seen
<1> QED
  BY <1>1 DEF ArrayInv, DynMap, Room, Created

LEMMA FreeKeeps == ArrayInv /\ DynFree => ArrayInv'
BY DEF ArrayInv, DynFree, NoArray, Room, Created

LEMMA ArrayInvariance == DynArraySpec => []ArrayInv
<1>1. DynArrayInit => ArrayInv
  BY DEF DynArrayInit, ArrayInv, NoArray, Room, Created
<1>2. ArrayInv /\ [DynArrayNext]_dynArrayVars => ArrayInv'
  <2> SUFFICES ASSUME ArrayInv, [DynArrayNext]_dynArrayVars PROVE ArrayInv'
    OBVIOUS
  <2>1. CASE UNCHANGED dynArrayVars
    BY <2>1 DEF ArrayInv, dynArrayVars, Room, Created
  <2>2. CASE DynArrayNext
    BY <2>2, NewKeeps, AddKeeps, GetKeeps, SetKeeps, MapKeeps, FreeKeeps DEF DynArrayNext
  <2> QED
    BY <2>1, <2>2
<1> QED
  BY <1>1, <1>2, PTL DEF DynArraySpec
-----------------------------------------------------------------------------
(* Every call does to the sequence what the header says. *)

LEMMA NewStep ==
  ASSUME ArrayInv, NEW n \in 0 .. MaxLength, DynNew(n)
  PROVE  AsVector!New
<1>1. Created' /\ ~Created
  BY DynArrayAssumption DEF DynNew, Created
<1>2. /\ n \in Nat /\ iLength' = n
      /\ \A i \in 0 .. n - 1 : ppvArray'[i] = NO_TOKEN
  BY DynArrayAssumption DEF DynNew
<1>3. Seen(ppvArray', n) \in Seq({NO_TOKEN})
  <2> DEFINE s == Seen(ppvArray', n)
  <2>1. s \in [1 .. n -> {NO_TOKEN}]
    BY <1>2 DEF Seen
  <2> HIDE DEF s
  <2> QED
    BY <1>2, <2>1 DEF s
<1> QED
  BY <1>1, <1>2, <1>3 DEF AsVector!New, DynNew, Seen

LEMMA AddStep ==
  ASSUME ArrayInv, NEW t \in Tokens, DynAdd(t)
  PROVE  AsVector!Add(t)
<1> DEFINE s == Seen(ppvArray, iLength)
           r == Seen(ppvArray', iLength')
<1>1. /\ iLength \in Nat /\ iLength' = iLength + 1
      /\ \A i \in 0 .. iLength - 1 : ppvArray[i] \in Stored
      /\ \A i \in 0 .. iLength' - 1 : ppvArray'[i] \in Stored
  BY AddKeeps, AddMoves DEF ArrayInv
<1>2. /\ s \in Seq(Stored) /\ Len(s) = iLength
      /\ \A k \in 1 .. iLength : s[k] = ppvArray[k - 1]
  BY <1>1, SeenIsSeq
<1>3. /\ r \in Seq(Stored) /\ Len(r) = iLength + 1
      /\ \A k \in 1 .. iLength + 1 : r[k] = ppvArray'[k - 1]
  BY <1>1, SeenIsSeq
<1> HIDE DEF s, r
<1>4. r[iLength + 1] = t
  BY <1>1, <1>3, AddMoves
<1>5. ASSUME NEW k \in 1 .. iLength
      PROVE  r[k] = s[k]
  <2>1. k - 1 \in 0 .. iLength - 1 /\ k \in 1 .. iLength + 1
    BY <1>1
  <2> QED
    BY <1>2, <1>3, <2>1, AddMoves
<1>6. r = Append(s, t)
  BY <1>1, <1>2, <1>3, <1>4, <1>5 DEF Stored
<1>7. Created /\ Created'
  BY AddMoves DEF DynAdd, Created, ArrayInv
<1> QED
  BY <1>6, <1>7 DEF AsVector!Add, DynAdd, Seen, s, r

\* An index of the array is a position of the sequence, one further.
LEMMA IndexIsPosition ==
  ASSUME ArrayInv, NEW i \in 0 .. iLength - 1
  PROVE  /\ Created
         /\ i + 1 \in 1 .. iLength
         /\ Seen(ppvArray, iLength)[i + 1] = ppvArray[i]
<1>1. iLength \in Nat /\ iPhysLength \in Nat /\ iLength <= iPhysLength
  BY DEF ArrayInv
<1>2. i + 1 \in 1 .. iLength /\ (i + 1) - 1 = i
  BY <1>1
<1> QED
  BY <1>1, <1>2 DEF Created, Seen

LEMMA GetStep ==
  ASSUME ArrayInv, NEW i \in 0 .. iLength - 1, DynGet(i)
  PROVE  AsVector!Get(i + 1)
BY IndexIsPosition DEF AsVector!Get, DynGet, Seen, Created

LEMMA SetStep ==
  ASSUME ArrayInv, NEW i \in 0 .. iLength - 1, NEW t \in Tokens, DynSet(i, t)
  PROVE  AsVector!Set(i + 1, t)
<1>1. /\ iLength \in Nat /\ iLength' = iLength /\ (Created' <=> Created)
      /\ i \in 0 .. iPhysLength - 1
      /\ ppvArray \in [0 .. iPhysLength - 1 -> Stored \cup {GARBAGE}]
      /\ ppvArray' = [ppvArray EXCEPT ![i] = t]
  BY DEF ArrayInv, DynSet, Created, Room
<1>2. ASSUME NEW k \in 1 .. iLength
      PROVE  ppvArray'[k - 1] = IF k = i + 1 THEN t ELSE ppvArray[k - 1]
  <2>1. k - 1 \in 0 .. iPhysLength - 1 /\ (k - 1 = i <=> k = i + 1)
    BY DEF ArrayInv
  <2> QED
    BY <1>1, <2>1
<1>3. Seen(ppvArray', iLength') = [Seen(ppvArray, iLength) EXCEPT ![i + 1] = t]
  BY <1>1, <1>2 DEF Seen
<1> QED
  BY <1>1, <1>3, IndexIsPosition DEF AsVector!Set, DynSet, Seen

LEMMA MapStep == ArrayInv /\ DynMap => AsVector!Map
BY DEF AsVector!Map, DynMap, Created

LEMMA FreeStep == ArrayInv /\ DynFree => AsVector!Free
<1> SUFFICES ASSUME ArrayInv, DynFree PROVE AsVector!Free
  OBVIOUS
<1>1. Created /\ ~Created'
  BY DEF DynFree, Created
<1>2. [k \in 1 .. iLength' |-> ppvArray'[k - 1]] = <<>>
  BY DEF DynFree
<1> QED
  BY <1>1, <1>2 DEF AsVector!Free, DynFree

\* The assertion at the start of every call, from the invariant.
LEMMA InvValid == ArrayInv => ArrayValid
BY DynArrayAssumption DEF ArrayInv, ArrayValid, IsValid, Created, NoArray, Room

\* dynarray.c keeps what dynarray.h promises: over any run the array is the
\* sequence, growing neither loses nor moves an element, and the assertion that
\* begins every function never fails.
THEOREM ArrayKeepsPromise == DynArraySpec => ImplementsVector
<1>1. DynArrayInit => AsVector!Init
  BY DEF DynArrayInit, AsVector!Init, Created
<1>2. ArrayInv /\ [DynArrayNext]_dynArrayVars =>
        [AsVector!Next]_<<[k \in 1 .. iLength |-> ppvArray[k - 1]], Created, returned>>
  <2> SUFFICES ASSUME ArrayInv, [DynArrayNext]_dynArrayVars
               PROVE  [AsVector!Next]_<<[k \in 1 .. iLength |-> ppvArray[k - 1]],
                                        Created, returned>>
    OBVIOUS
  <2>1. CASE UNCHANGED dynArrayVars
    BY <2>1 DEF dynArrayVars, Created
  <2>2. ASSUME NEW n \in 0 .. MaxLength, DynNew(n)
        PROVE  AsVector!Next
    BY <2>2, NewStep DEF AsVector!Next
  <2>3. ASSUME NEW t \in Tokens, DynAdd(t)
        PROVE  AsVector!Next
    BY <2>3, AddStep DEF AsVector!Next
  <2>4. ASSUME NEW i \in 0 .. iLength - 1, DynGet(i)
        PROVE  AsVector!Next
    BY <2>4, GetStep, IndexIsPosition DEF AsVector!Next
  <2>5. ASSUME NEW i \in 0 .. iLength - 1, NEW t \in Tokens, DynSet(i, t)
        PROVE  AsVector!Next
    BY <2>5, SetStep, IndexIsPosition DEF AsVector!Next
  <2>6. DynMap \/ DynFree => AsVector!Next
    BY MapStep, FreeStep DEF AsVector!Next
  <2> QED
    BY <2>1, <2>2, <2>3, <2>4, <2>5, <2>6 DEF DynArrayNext
<1> QED
  BY <1>1, <1>2, ArrayInvariance, InvValid, PTL
  DEF DynArraySpec, ImplementsVector, AsVector!Spec
=============================================================================
