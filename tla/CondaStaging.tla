---------------------------- MODULE CondaStaging ----------------------------
(***************************************************************************)
(* The conda wrapper (client/conda-wrapper.sh).  After the update check, a *)
(* command that changes packages runs with a staging directory for its     *)
(* downloads, cleared before and after.  Shells with the same Conda        *)
(* installation share the directory and know nothing of each other.        *)
(***************************************************************************)
EXTENDS ClientUpdate

VARIABLES
  work,      \* each shell's transaction
  staging    \* in _pkgrelay_conda_pkgs: <<shell, "now" or "before">>, the
             \* packages of the shell's transaction at work or of one cut off

stagingVars == <<vars, work, staging>>

StagingInit ==
  /\ Init
  /\ work = [s \in Shells |-> "none"]
  /\ staging = {}

Phase(s, phase) == work' = [work EXCEPT ![s] = phase]

PrepareMakesOnly(s) ==  \* mutant: mkdir -p without clearing
  /\ pc[s] = "cleared" /\ work[s] = "none"
  /\ Phase(s, "prepared")
  /\ UNCHANGED <<vars, staging>>

(* _pkgrelay_conda_changes_packages: clear, mkdir.                          *)
Prepare(s) ==
  /\ pc[s] = "cleared" /\ work[s] = "none"
  /\ staging' = {}
  /\ Phase(s, "prepared")
  /\ UNCHANGED vars

(* conda asks the gateway.  426 makes it fail.                              *)
Run(s) ==
  /\ work[s] = "prepared"
  /\ Gate(s)
  /\ Phase(s, IF pc'[s] = "served" THEN "running" ELSE "failing")
  /\ UNCHANGED staging

(* conda makes the directory again if it has to.                            *)
Download(s) ==
  /\ work[s] = "running" /\ <<s, "now">> \notin staging
  /\ staging' = staging \cup {<<s, "now">>}
  /\ UNCHANGED <<vars, work>>

Break(s) ==
  /\ work[s] = "running"
  /\ Phase(s, "failing")
  /\ UNCHANGED <<vars, staging>>

EndKeepsAfterError(s) ==  \* mutant: returns the status before clearing
  /\ work[s] \in {"running", "failing"}
  /\ staging' = IF work[s] = "failing" THEN staging ELSE {}
  /\ Phase(s, "none")
  /\ UNCHANGED vars

(* Clears whatever conda returned.                                          *)
End(s) ==
  /\ work[s] \in {"running", "failing"}
  /\ staging' = {}
  /\ Phase(s, "none")
  /\ UNCHANGED vars

(* Ctrl-C, or the terminal is closed, during conda.                         *)
CutOff(s) ==
  /\ "interrupt" \in Faults
  /\ work[s] # "none"
  /\ staging' = {IF p[1] = s THEN <<s, "before">> ELSE p : p \in staging}
  /\ Phase(s, "none")
  /\ Goto(s, "blocked")
  /\ UNCHANGED <<server, disk, env, remote, got, next>>

(* A shell that runs conda does nothing else.                               *)
AtPrompt(s) == work[s] = "none" /\ UNCHANGED <<work, staging>>

Transact(s) == Prepare(s) \/ Run(s) \/ Download(s) \/ Break(s) \/ End(s)

Advance(s) == (Step(s) /\ AtPrompt(s)) \/ Prepare(s) \/ Run(s)

StagingNext ==
  \/ (Redeploy \/ Reset) /\ UNCHANGED <<work, staging>>
  \/ \E s \in Shells :
       \/ (Step(s) \/ User(s)) /\ AtPrompt(s)
       \/ Transact(s) \/ CutOff(s)

StagingSpec == StagingInit /\ [][StagingNext]_stagingVars

(* As in ClientUpdate; a conda command ends.                                *)
LiveStagingSpec ==
  /\ StagingSpec
  /\ \A s \in Shells : WF_stagingVars(Advance(s)) /\ WF_stagingVars(End(s))

-----------------------------------------------------------------------------
(* Properties *)

(* A transaction never finds packages in the directory that an interrupted  *)
(* one left half downloaded.                                                *)
FreshStart ==
  \A s \in Shells : work[s] # "none" => \A p \in staging : p[2] = "now"

(* "Staging directory is cleared after package-changing commands": when no  *)
(* shell is at work nothing is left, also when shells clear under each      *)
(* other or the gateway is redeployed under a running command.              *)
CleanWhenIdle ==
  (\A s \in Shells : work[s] = "none") => staging = {}

(* What a running transaction has downloaded stays there until it ends.     *)
KeepsDownloads ==
  [][\A s \in Shells :
       work'[s] = "running" /\ <<s, "now">> \in staging => <<s, "now">> \in staging']_stagingVars
=============================================================================
