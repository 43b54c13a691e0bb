----------------------------- MODULE MCPrograms -----------------------------
(* Instances of Pipelines, DynArray, Decomment, SkvsParse, SkvsSetup and DirTree *)
(* for TLC.  They have nothing in common; program says which of them a behaviour *)
(* is one of.                                                                    *)
EXTENDS Pipelines, DynArray, Decomment, SkvsParse, SkvsSetup, DirTree

VARIABLE program

programVars == <<program, vars, dynArrayVars, decommentVars, parseVars, setupVars, dirTreeVars>>

\* The program "a", and words of two and three letters for cd and exit.
MCBuiltins == <<"a", "a">> :> "cd" @@ <<"a", "a", "a">> :> "exit"

MCToUpper == [b \in Bytes |-> IF b = "c" THEN "C" ELSE b]
MCCommandOf == <<"C">> :> "CREATE" @@ <<"C", "C">> :> "READ"

\* Every tree of directories and links on some of the nodes, the others still new.
MCDisks ==
  LET Placed(f, n) ==
        LET up[k \in 0 .. Cardinality(Nodes)] ==
              IF k = 0 THEN n
              ELSE LET d == up[k - 1] IN IF d \in Nodes THEN f[d].in ELSE d
        IN up[Cardinality(Nodes)] = Root
  IN {f \in [Nodes -> [in : Nodes \cup {Root, FRESH}, type : {"dir", "lnk"}]] :
        \A n \in Nodes :
          \/ f[n].in = FRESH
          \/ Placed(f, n) /\ (f[n].in # Root => f[f[n].in].type = "dir")}

\* The order of a directory file is neither that of the names nor the reverse.
ProgramInit ==
  /\ program \in {"snush", "dynarray", "decomment", "skvs_parse", "skvs_setup", "dirtree"}
  /\ Init /\ DynArrayInit /\ DecommentInit /\ ParseInit /\ SetupInit /\ DirTreeInit
  /\ order = <<3, 1, 2>>
  /\ flags = {} => ndir = 1
  /\ program # "dirtree" => /\ disk = [n \in Nodes |-> [in |-> FRESH, type |-> "lnk"]]
                            /\ flags = {}

Is(name) == program = name /\ UNCHANGED program

ProgramNext ==
  \/ Is("snush") /\ Next
     /\ UNCHANGED <<dynArrayVars, decommentVars, parseVars, setupVars, dirTreeVars>>
  \/ Is("dynarray") /\ DynArrayNext
     /\ UNCHANGED <<vars, decommentVars, parseVars, setupVars, dirTreeVars>>
  \/ Is("decomment") /\ DecommentNext
     /\ UNCHANGED <<vars, dynArrayVars, parseVars, setupVars, dirTreeVars>>
  \/ Is("skvs_parse") /\ ParseNext
     /\ UNCHANGED <<vars, dynArrayVars, decommentVars, setupVars, dirTreeVars>>
  \/ Is("skvs_setup") /\ SetupNext
     /\ UNCHANGED <<vars, dynArrayVars, decommentVars, parseVars, dirTreeVars>>
  \/ Is("dirtree") /\ DirTreeNext
     /\ UNCHANGED <<vars, dynArrayVars, decommentVars, parseVars, setupVars>>

ProgramSpec ==
  /\ ProgramInit /\ [][ProgramNext]_programVars
  /\ Fairness /\ WF_dirTreeVars(program = "dirtree" /\ Walk)

\* The programs that have to end do so: pipelines, whoever leaves first, and walks
\* through a tree, whatever is found there.
ProgramsEnd == PipelineEnds /\ WalkEnds
=============================================================================
