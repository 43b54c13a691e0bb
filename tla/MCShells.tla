------------------------------ MODULE MCShells -------------------------------
(* Instances of SnushJobs and of the versions before it for TLC.  A behaviour is *)
(* one of the shell as it is or of an earlier one, as version says.              *)
EXTENDS SnushJobs

CONSTANTS p1, p2, p3, p4,
          EarlierPids      \* the pids of the earlier shells

VARIABLES version, edition, eArray, eProc, eForkedFor, ePending, eHandling, ePipe,
          eShell, eAnnounced

earlierVars == <<edition, eArray, eProc, eForkedFor, ePending, eHandling, ePipe, eShell,
                 eAnnounced>>

Earlier == INSTANCE EarlierShell WITH
  Pids <- EarlierPids, PidsReused <- TRUE, bg_array <- eArray, proc <- eProc,
  forkedFor <- eForkedFor, pending <- ePending, handling <- eHandling, pipe <- ePipe,
  shell <- eShell, announced <- eAnnounced

VersionsInit ==
  /\ version \in {"snush", "earlier"}
  /\ Init /\ Earlier!EarlierInit
  /\ version = "snush" => edition = "debug"

VersionsNext ==
  \/ version = "snush" /\ Next /\ UNCHANGED <<version, earlierVars>>
  \/ version = "earlier" /\ Earlier!EarlierNext /\ UNCHANGED <<version, vars>>

\* The fairness of FairSpec; the shell as it is can do nothing in the others.
VersionsSpec ==
  /\ VersionsInit /\ [][VersionsNext]_<<version, vars, earlierVars>>
  /\ WF_vars(version = "snush" /\ Handler) /\ WF_vars(version = "snush" /\ Runs)
  /\ WF_vars(version = "snush" /\ (ShowMessage \/ Prompt))
  /\ \A p \in Pids : WF_vars(version = "snush" /\ ChildEnds(p))

\* The earlier shells lose no background process either.
EarlierShellSound == Earlier!EarlierShellSound
=============================================================================
