------------------------- MODULE ClientUpdateProofs -------------------------
(***************************************************************************)
(* The self-update and the conda wrapper for any number of shells,         *)
(* versions and deployments.                                               *)
(***************************************************************************)
EXTENDS CondaStaging, TLAPS

Deployed == {History[i] : i \in 1 .. deploy}

NeverRolledBack ==
  \A i, j \in 1 .. Len(History) : History[i] = History[j] => i = j

(* What the index into Downloads says about the download so far.            *)
Fetched ==
  \A s \in Shells :
    /\ pc[s] = "fetch" => \A i \in 1 .. next[s] - 1 : got[s][Downloads[i]] \in Versions
    /\ pc[s] = "install" => \A f \in Files : got[s][f] \in Versions
    /\ pc[s] = "setupBody" => got[s][Downloads[next[s]]] \in Versions
    /\ pc[s] \notin {"fetch", "install", "setupFetch", "setupBody"} => next[s] = 1

UType == TypeOK /\ Fetched

(* Nobody remembers a version that is still to come.                        *)
OnlyDeployed ==
  /\ conf \in Deployed /\ draft \in Deployed \cup {Absent}
  /\ \A s \in Shells : env[s] \in Deployed /\ remote[s] \in Deployed \cup {Absent}

(* The current version is written down nowhere before it is registered.     *)
Enrolled == {"write", "move", "export", "setupFetch", "setupBody", "setupConf"}

RegisteredFirst ==
  /\ conf = Current => registered = Current
  /\ draft = Current => registered = Current
  /\ \A s \in Shells : env[s] = Current => registered = Current
  /\ \A s \in Shells : pc[s] \in Enrolled /\ remote[s] = Current => registered = Current

(* For a single shell: while the version it is after is still the current   *)
(* one, every file so far is of that version or spoiled; once it is not,    *)
(* client.conf does not name the current one either.                        *)
OneShell == \A s, t \in Shells : s = t

Done(f) == f \in spoiled \/ installed[f] = Current

Complete == \A f \in Files : Done(f)

Followed(s) ==
  /\ remote[s] = Current =>
       /\ pc[s] = "fetch" => \A i \in 1 .. next[s] - 1 : got[s][Downloads[i]] = Current
       /\ pc[s] = "install" =>
            /\ \A f \in Files : got[s][f] = Current
            /\ \A i \in 1 .. next[s] - 1 : Done(Installs[i])
       /\ pc[s] \in {"setupFetch", "setupBody"} => \A i \in 1 .. next[s] - 1 : Done(Downloads[i])
       /\ pc[s] \in {"register", "write", "move", "setupConf"} => Complete
  /\ pc[s] \in {"fetch", "install", "register", "write", "move"} /\ remote[s] # Current =>
       conf # Current
  /\ pc[s] = "setupBody" /\ Current \in {conf, remote[s]} =>
       got[s][Downloads[next[s]]] = Current
  /\ pc[s] = "move" => draft = remote[s]

CInv == CurrentIsComplete /\ \A s \in Shells : Followed(s)

-----------------------------------------------------------------------------
LEMMA ListsCoverFiles ==
  /\ Len(Downloads) = 4 /\ Len(Installs) = 4
  /\ \A i \in 1 .. 4 : Downloads[i] \in Files /\ Installs[i] \in Files
  /\ \A f \in Files : (\E i \in 1 .. 4 : Downloads[i] = f) /\ (\E i \in 1 .. 4 : Installs[i] = f)
<1>1. /\ Len(Downloads) = 4 /\ Len(Installs) = 4
      /\ Downloads[1] = "pip-wrapper" /\ Downloads[2] = "conda-wrapper"
      /\ Downloads[3] = "cache-sync" /\ Downloads[4] = "update-check"
      /\ Installs[1] = "pip-wrapper" /\ Installs[2] = "conda-wrapper"
      /\ Installs[3] = "update-check" /\ Installs[4] = "cache-sync"
  BY DEF Downloads, Installs
<1>2. QED
  BY <1>1 DEF Files

LEMMA CurrentType == TypeOK => Current \in Versions /\ Current # Absent /\ Current \in Deployed
  BY UpdateConstants DEF TypeOK, Current, Deployed

LEMMA InitUType == Init => UType
<1> SUFFICES ASSUME Init PROVE UType
  OBVIOUS
<1>1. deploy \in 1 .. Len(History) /\ Current \in Versions
  BY UpdateConstants DEF Init, Current
<1>2. QED
  BY <1>1, ListsCoverFiles DEF Init, UType, TypeOK, Fetched, Known, Nothing, Finished,
     Updating, SettingUp

(* One step of the update's download.                                       *)
LEMMA DownloadType ==
  ASSUME UType, NEW s \in Shells, Fetch(s)
  PROVE  UType'
<1>1. /\ next[s] \in 1 .. 4 /\ Downloads[next[s]] \in Files /\ Len(Downloads) = 4
      /\ Current \in Versions
  BY ListsCoverFiles, CurrentType DEF UType, TypeOK
<1>2. TypeOK'
  <2>1. /\ got' = [got EXCEPT ![s][Downloads[next[s]]] = Current]
        /\ \/ next' = [next EXCEPT ![s] = @ + 1] /\ pc' = pc /\ next[s] < 4
           \/ next' = [next EXCEPT ![s] = 1] /\ pc' = [pc EXCEPT ![s] = "install"]
        /\ pc[s] = "fetch" /\ UNCHANGED <<server, disk, env, remote>>
    BY <1>1 DEF Fetch, Goto
  <2>2. got' \in [Shells -> [Files -> Known]]
    BY <1>1, <2>1 DEF UType, TypeOK, Known
  <2>3. next' \in [Shells -> 1 .. Len(Downloads)]
    <3>1. next \in [Shells -> 1 .. 4]
      BY <1>1 DEF UType, TypeOK
    <3>2. QED
      BY <1>1, <2>1, <3>1
  <2>4. pc' \in [Shells -> Finished \cup Updating \cup SettingUp \cup {"cleared"}]
    BY <2>1 DEF UType, TypeOK, Updating
  <2>5. \A t \in Shells : pc'[t] \in Updating \cup SettingUp => remote'[t] \in Versions
    BY <2>1 DEF UType, TypeOK, Updating
  <2>6. QED
    BY <2>1, <2>2, <2>3, <2>5, <2>4 DEF server, disk, UType, TypeOK
<1>3. ASSUME pc'[s] = "install", NEW f \in Files PROVE got'[s][f] \in Versions
  <2>1. next[s] = 4
    BY <1>1, <1>3 DEF Fetch, Goto, UType, TypeOK
  <2>2. PICK i \in 1 .. 4 : Downloads[i] = f
    BY ListsCoverFiles
  <2>3. got'[s] = [got[s] EXCEPT ![Downloads[4]] = Current]
    BY <2>1 DEF Fetch, UType, TypeOK
  <2>4. i # 4 => got[s][f] \in Versions
    BY <2>1, <2>2 DEF Fetch, UType, Fetched
  <2>5. QED
    BY <1>1, <2>1, <2>2, <2>3, <2>4 DEF UType, TypeOK
<1>4. ASSUME pc'[s] = "fetch", NEW i \in 1 .. next'[s] - 1
      PROVE  got'[s][Downloads[i]] \in Versions
  <2>1. next[s] < 4 /\ next'[s] = next[s] + 1 /\ i \in 1 .. next[s]
    BY <1>1, <1>4 DEF Fetch, Goto, UType, TypeOK
  <2>2. got'[s] = [got[s] EXCEPT ![Downloads[next[s]]] = Current]
    BY DEF Fetch, UType, TypeOK
  <2>3. i # next[s] => got[s][Downloads[i]] \in Versions
    BY <1>1, <2>1 DEF Fetch, UType, Fetched
  <2>4. Downloads[i] \in Files
    BY <1>1, <2>1, ListsCoverFiles
  <2>5. QED
    BY <1>1, <2>1, <2>2, <2>3, <2>4 DEF UType, TypeOK
<1>5. Fetched'
  <2>1. /\ pc'[s] \in {"fetch", "install"}
        /\ \A t \in Shells \ {s} : pc'[t] = pc[t] /\ got'[t] = got[t] /\ next'[t] = next[t]
    BY <1>1 DEF Fetch, Goto, UType, TypeOK
  <2>2. QED
    BY <1>3, <1>4, <2>1 DEF UType, Fetched
<1>6. QED
  BY <1>2, <1>5 DEF UType

(* One of setup's, which goes straight to the installed file.               *)
LEMMA SetupType ==
  ASSUME UType, NEW s \in Shells, SetupOpen(s) \/ SetupFetch(s)
  PROVE  UType'
<1>1. /\ next[s] \in 1 .. 4 /\ Downloads[next[s]] \in Files /\ Len(Downloads) = 4
      /\ Current \in Versions /\ next \in [Shells -> 1 .. 4]
      /\ Nothing \in [Files -> Known]
  BY ListsCoverFiles, CurrentType DEF UType, TypeOK, Nothing, Known
<1>2. CASE SetupOpen(s)
  <2>1. /\ got' = [got EXCEPT ![s][Downloads[next[s]]] = Current]
        /\ spoiled' = spoiled \cup {Downloads[next[s]]}
        /\ pc[s] = "setupFetch" /\ pc' = [pc EXCEPT ![s] = "setupBody"]
        /\ UNCHANGED <<deploy, registered, installed, conf, draft, env, remote, next>>
    BY <1>2 DEF SetupOpen, Goto, server
  <2>2. got' \in [Shells -> [Files -> Known]]
    BY <1>1, <2>1 DEF UType, TypeOK, Known
  <2>3. TypeOK'
    BY <1>1, <2>1, <2>2 DEF UType, TypeOK, SettingUp
  <2>4. got'[s][Downloads[next[s]]] \in Versions
    BY <1>1, <2>1 DEF UType, TypeOK
  <2> QED
    BY <2>1, <2>3, <2>4 DEF UType, TypeOK, Fetched
<1>3. CASE SetupFetch(s)
  <2>1. /\ installed' = [installed EXCEPT ![Downloads[next[s]]] = got[s][Downloads[next[s]]]]
        /\ spoiled' = spoiled \ {Downloads[next[s]]} /\ got' = [got EXCEPT ![s] = Nothing]
        /\ \/ next' = [next EXCEPT ![s] = @ + 1] /\ pc' = [pc EXCEPT ![s] = "setupFetch"] /\ next[s] < 4
           \/ next' = [next EXCEPT ![s] = 1] /\ pc' = [pc EXCEPT ![s] = "setupConf"]
        /\ pc[s] = "setupBody" /\ UNCHANGED <<server, conf, draft, env, remote>>
    BY <1>1, <1>3 DEF SetupFetch, Goto
  <2>2. installed' \in [Files -> Versions]
    BY <1>1, <2>1 DEF UType, TypeOK, Fetched
  <2>3. got' \in [Shells -> [Files -> Known]] /\ spoiled' \subseteq Files
    BY <1>1, <2>1 DEF UType, TypeOK
  <2>4. next' \in [Shells -> 1 .. Len(Downloads)]
    BY <1>1, <2>1
  <2>5. pc' \in [Shells -> Finished \cup Updating \cup SettingUp \cup {"cleared"}]
    BY <2>1 DEF UType, TypeOK, SettingUp
  <2>6. \A t \in Shells : pc'[t] \in Updating \cup SettingUp => remote'[t] \in Versions
    BY <2>1 DEF UType, TypeOK, SettingUp
  <2>7. TypeOK'
    BY <2>1, <2>2, <2>3, <2>4, <2>5, <2>6 DEF server, UType, TypeOK
  <2>8. Fetched'
    BY <1>1, <2>1 DEF UType, TypeOK, Fetched
  <2> QED
    BY <2>7, <2>8 DEF UType
<1> QED
  BY <1>2, <1>3

LEMMA InstallType ==
  ASSUME UType, NEW s \in Shells, Install(s) \/ InstallFails(s)
  PROVE  UType'
<1>1. /\ next[s] \in 1 .. 4 /\ Installs[next[s]] \in Files /\ Len(Installs) = 4
      /\ Len(Downloads) = 4 /\ got[s][Installs[next[s]]] \in Versions
  BY ListsCoverFiles DEF Install, InstallFails, InstallNext, UType, TypeOK, Fetched
<1>2. TypeOK'
  <2>1. /\ \/ /\ installed' = [installed EXCEPT ![Installs[next[s]]] = got[s][Installs[next[s]]]]
              /\ spoiled' = spoiled \ {Installs[next[s]]}
           \/ installed' = installed /\ spoiled' = spoiled \cup {Installs[next[s]]}
        /\ got' = got \/ got' = [got EXCEPT ![s] = Nothing]
        /\ \/ next' = [next EXCEPT ![s] = @ + 1] /\ pc' = pc /\ next[s] < 4
           \/ next' = [next EXCEPT ![s] = 1] /\ pc' = [pc EXCEPT ![s] = "register"]
        /\ pc[s] = "install" /\ UNCHANGED <<server, conf, draft, env, remote>>
    BY <1>1 DEF Install, InstallFails, InstallNext, Goto
  <2>2. installed' \in [Files -> Versions] /\ spoiled' \subseteq Files
    BY <1>1, <2>1 DEF UType, TypeOK
  <2>3. got' \in [Shells -> [Files -> Known]]
    <3>1. Nothing \in [Files -> Known]
      BY DEF Nothing, Known
    <3>2. QED
      BY <2>1, <3>1 DEF UType, TypeOK
  <2>4. next' \in [Shells -> 1 .. Len(Downloads)]
    <3>1. next \in [Shells -> 1 .. 4]
      BY <1>1 DEF UType, TypeOK
    <3>2. QED
      BY <1>1, <2>1, <3>1
  <2>5. pc' \in [Shells -> Finished \cup Updating \cup SettingUp \cup {"cleared"}]
    BY <2>1 DEF UType, TypeOK, Updating
  <2>6. \A t \in Shells : pc'[t] \in Updating \cup SettingUp => remote'[t] \in Versions
    BY <2>1 DEF UType, TypeOK, Updating
  <2>7. QED
    BY <2>1, <2>2, <2>3, <2>4, <2>6, <2>5 DEF server, UType, TypeOK
<1>3. Fetched'
  BY <1>1 DEF Install, InstallFails, InstallNext, Goto, UType, TypeOK, Fetched
<1>4. QED
  BY <1>2, <1>3 DEF UType

(* Whatever ends an update or a setup half way, files can only be spoiled.  *)
LEMMA BreakOff ==
  ASSUME UType, NEW s \in Shells, NetworkFails(s) \/ SetupFails(s) \/ Interrupt(s)
  PROVE  GiveUp(s) /\ spoiled \subseteq spoiled' /\ spoiled' \subseteq Files
<1>1. AtHand(s) \subseteq Files
  BY ListsCoverFiles DEF AtHand, UType, TypeOK
<1>2. spoiled \subseteq Files
  BY DEF UType, TypeOK
<1>3. CASE NetworkFails(s) \/ SetupFails(s)
  BY <1>2, <1>3 DEF NetworkFails, SetupFails
<1>4. CASE Interrupt(s)
  BY <1>1, <1>2, <1>4 DEF Interrupt
<1> QED
  BY <1>3, <1>4

LEMMA NextUType == UType /\ [Next]_vars => UType'
<1> SUFFICES ASSUME UType, [Next]_vars PROVE UType'
  OBVIOUS
<1>0. Current \in Versions /\ Len(Downloads) = 4
  BY CurrentType, ListsCoverFiles DEF UType
<1>7. ASSUME NEW s \in Shells,
             Fetch(s) \/ SetupOpen(s) \/ SetupFetch(s) \/ Install(s) \/ InstallFails(s)
      PROVE  UType'
  BY <1>7, DownloadType, SetupType, InstallType
<1> USE DEF UType, Goto, server, disk
<1>1. CASE Redeploy
  BY <1>1, UpdateConstants DEF Redeploy, TypeOK, Fetched
<1>2. CASE Reset
  BY <1>2 DEF Reset, TypeOK, Fetched, Known
<1>3. ASSUME NEW s \in Shells, Step(s) PROVE UType'
  <2>1. CASE Gate(s)
    BY <2>1 DEF Gate, TypeOK, Fetched, Finished, Updating, SettingUp
  <2>2. CASE Ask(s)
    <3>1. TypeOK'
      BY <1>0, <2>2 DEF Ask, TypeOK, Known, Finished, Updating, SettingUp
    <3>2. Fetched'
      BY <1>0, <2>2 DEF Ask, TypeOK, Fetched, Finished
    <3> QED
      BY <3>1, <3>2
  <2>3. CASE Register(s)
    <3>1. TypeOK'
      BY <2>3 DEF Register, TypeOK, Known, Finished, Updating, SettingUp
    <3>2. Fetched'
      BY <2>3 DEF Register, TypeOK, Fetched, Finished
    <3> QED
      BY <3>1, <3>2
  <2>5. CASE SetupRegister(s)
    <3>1. TypeOK'
      BY <2>5 DEF SetupRegister, TypeOK, Known, Finished, Updating, SettingUp
    <3>2. Fetched'
      BY <2>5 DEF SetupRegister, TypeOK, Fetched, Finished
    <3> QED
      BY <3>1, <3>2
  <2>6. CASE Write(s)
    BY <2>6 DEF Write, TypeOK, Fetched, Known, Updating, SettingUp
  <2>7. CASE Move(s)
    BY <2>7, UpdateConstants DEF Move, TypeOK, Fetched, Known, Updating, SettingUp
  <2>8. CASE Export(s)
    BY <2>8 DEF Export, TypeOK, Fetched, Known, Updating, SettingUp
  <2>9. CASE SetupConf(s)
    BY <2>9 DEF SetupConf, TypeOK, Fetched, Known, Finished, Updating, SettingUp
  <2>10. QED
    BY <1>3, <1>7, <2>1, <2>2, <2>3, <2>5, <2>6, <2>7, <2>8, <2>9 DEF Step
<1>4. ASSUME NEW s \in Shells, User(s) PROVE UType'
  <2>1. CASE Setup(s)
    BY <1>0, <2>1 DEF Setup, TypeOK, Fetched, Known, Finished, Updating, SettingUp
  <2>2. CASE GiveUp(s) /\ spoiled \subseteq spoiled' /\ spoiled' \subseteq Files
    BY <1>0, <2>2 DEF GiveUp, TypeOK, Fetched, Known, Finished, Updating, SettingUp, Nothing
  <2>3. CASE Reopen(s)
    BY <2>3 DEF Reopen, TypeOK, Fetched, Known, Finished, Updating, SettingUp
  <2>4. QED
    BY <1>4, <2>1, <2>2, <2>3, BreakOff DEF User
<1>5. CASE UNCHANGED vars
  BY <1>5 DEF vars, TypeOK, Fetched
<1>6. QED
  BY <1>1, <1>2, <1>3, <1>4, <1>5 DEF Next

(* A shell that installs has downloaded every file, and nothing else ever   *)
(* enters the client directory.                                             *)
THEOREM TypeCorrect == Spec => []TypeOK
<1>1. UType => TypeOK
  BY DEF UType
<1>2. QED
  BY <1>1, InitUType, NextUType, PTL DEF Spec
-----------------------------------------------------------------------------
(* A redeployment brings a version nobody can have seen.                    *)
LEMMA RedeployIsNew ==
  ASSUME TypeOK, NeverRolledBack, Redeploy
  PROVE  Current' \notin Deployed /\ Deployed \subseteq Deployed' /\ Current' # Absent
<1>1. deploy \in 1 .. Len(History) /\ deploy' \in 1 .. Len(History) /\ deploy' = deploy + 1
  BY UpdateConstants DEF TypeOK, Redeploy
<1>2. Current' = History[deploy'] /\ Deployed' = {History[i] : i \in 1 .. deploy'}
  BY DEF Current, Deployed
<1>3. History[deploy'] \in Versions
  BY <1>1, UpdateConstants
<1>4. ASSUME NEW i \in 1 .. deploy PROVE History[i] # History[deploy']
  BY <1>1, UpdateConstants DEF NeverRolledBack
<1>5. QED
  BY <1>1, <1>2, <1>3, <1>4, UpdateConstants DEF Deployed

LEMMA SameDeployment ==
  ASSUME deploy' = deploy
  PROVE  Current' = Current /\ Deployed' = Deployed
  BY DEF Current, Deployed

LEMMA InitOnlyDeployed == Init => OnlyDeployed /\ RegisteredFirst
<1> SUFFICES ASSUME Init PROVE OnlyDeployed /\ RegisteredFirst
  OBVIOUS
<1>1. Current \in Deployed
  BY UpdateConstants DEF Init, Current, Deployed
<1>2. QED
  BY <1>1 DEF Init, OnlyDeployed, RegisteredFirst, Enrolled

LEMMA NextOnlyDeployed == UType /\ OnlyDeployed /\ [Next]_vars => OnlyDeployed'
<1> SUFFICES ASSUME UType, OnlyDeployed, [Next]_vars PROVE OnlyDeployed'
  OBVIOUS
<1>0. Current \in Deployed /\ env \in [Shells -> Versions] /\ remote \in [Shells -> Known]
  BY CurrentType DEF UType, TypeOK
<1> USE DEF OnlyDeployed, server, disk
<1>1. CASE Redeploy
  <2>1. Deployed \subseteq Deployed'
    BY <1>1 DEF Redeploy, Deployed, UType, TypeOK
  <2>2. QED
    BY <1>1, <2>1 DEF Redeploy
<1>2. CASE Reset
  BY <1>2, SameDeployment DEF Reset
<1>3. ASSUME NEW s \in Shells, Step(s) PROVE OnlyDeployed'
  <2>1. CASE Gate(s) \/ Fetch(s) \/ SetupOpen(s) \/ SetupFetch(s)
    BY <2>1, SameDeployment DEF Gate, Fetch, SetupOpen, SetupFetch
  <2>6. CASE Install(s) \/ InstallFails(s)
    BY <2>6, SameDeployment DEF Install, InstallFails, InstallNext
  <2>2. CASE Ask(s) \/ Register(s) \/ SetupRegister(s)
    BY <1>0, <2>2, SameDeployment DEF Ask, Register, SetupRegister
  <2>3. CASE Write(s) \/ Move(s)
    BY <1>0, <2>3, SameDeployment DEF Write, Move
  <2>4. CASE Export(s) \/ SetupConf(s)
    <3>1. remote[s] \in Deployed
      BY <2>4, UpdateConstants DEF Export, SetupConf, UType, TypeOK, Updating, SettingUp
    <3>2. QED
      BY <1>0, <2>4, <3>1, SameDeployment DEF Export, SetupConf
  <2>5. QED
    BY <1>3, <2>1, <2>2, <2>3, <2>4, <2>6 DEF Step
<1>4. ASSUME NEW s \in Shells, User(s) PROVE OnlyDeployed'
  <2>1. CASE Setup(s) \/ Reopen(s)
    BY <1>0, <2>1, SameDeployment DEF Setup, Reopen
  <2>2. CASE GiveUp(s)
    BY <1>0, <2>2, SameDeployment DEF GiveUp
  <2>3. QED
    BY <1>4, <2>1, <2>2, BreakOff DEF User
<1>5. CASE UNCHANGED vars
  BY <1>5, SameDeployment DEF vars
<1>6. QED
  BY <1>1, <1>2, <1>3, <1>4, <1>5 DEF Next

LEMMA NextRegisteredFirst ==
  ASSUME NeverRolledBack, "reset" \notin Faults,
         UType, OnlyDeployed, RegisteredFirst, [Next]_vars
  PROVE  RegisteredFirst'
<1>0. /\ Current # Absent /\ env \in [Shells -> Versions] /\ remote \in [Shells -> Known]
      /\ pc \in [Shells -> Finished \cup Updating \cup SettingUp \cup {"cleared"}]
  BY CurrentType DEF UType, TypeOK
<1> USE DEF RegisteredFirst, Enrolled, Goto, server, disk
<1>1. CASE Redeploy
  <2>1. Current' \notin Deployed /\ Current' # Absent
    BY <1>1, RedeployIsNew DEF UType
  <2>2. QED
    BY <1>1, <2>1 DEF Redeploy, OnlyDeployed
<1>2. CASE Reset
  BY <1>2 DEF Reset
<1>3. ASSUME NEW s \in Shells, Step(s) PROVE RegisteredFirst'
  <2>1. CASE Gate(s) \/ Ask(s) \/ Fetch(s)
    BY <1>0, <2>1, SameDeployment DEF Gate, Ask, Fetch
  <2>8. CASE Install(s) \/ InstallFails(s)
    BY <1>0, <2>8, SameDeployment DEF Install, InstallFails, InstallNext
  <2>2. CASE Register(s) \/ SetupRegister(s)
    BY <1>0, <2>2, SameDeployment DEF Register, SetupRegister, RegisterAccepts
  <2>3. CASE SetupOpen(s) \/ SetupFetch(s)
    BY <1>0, <2>3, SameDeployment DEF SetupOpen, SetupFetch
  <2>4. CASE Write(s)
    BY <1>0, <2>4, SameDeployment DEF Write
  <2>5. CASE Move(s)
    BY <1>0, <2>5, SameDeployment DEF Move
  <2>6. CASE Export(s) \/ SetupConf(s)
    BY <1>0, <2>6, SameDeployment DEF Export, SetupConf
  <2>7. QED
    BY <1>3, <2>1, <2>2, <2>3, <2>4, <2>5, <2>6, <2>8 DEF Step
<1>4. ASSUME NEW s \in Shells, User(s) PROVE RegisteredFirst'
  <2>1. CASE Setup(s) \/ Reopen(s)
    BY <1>0, <2>1, SameDeployment DEF Setup, Reopen
  <2>2. CASE GiveUp(s)
    BY <1>0, <2>2, SameDeployment DEF GiveUp
  <2>3. QED
    BY <1>4, <2>1, <2>2, BreakOff DEF User
<1>5. CASE UNCHANGED vars
  BY <1>5, SameDeployment DEF vars
<1>6. QED
  BY <1>1, <1>2, <1>3, <1>4, <1>5 DEF Next

(* The gate lets in every shell whose update check found nothing to do,     *)
(* for any number of shells on one installation, whatever is interrupted    *)
(* and whenever the gateway is redeployed, as long as no old version comes  *)
(* back and nobody deletes the registrations.                               *)
THEOREM CheckedShellsPassTheGate ==
  ASSUME NeverRolledBack, "reset" \notin Faults
  PROVE  Spec => []GateAdmitsCurrent
<1> DEFINE RInv == UType /\ OnlyDeployed /\ RegisteredFirst
<1>1. Init => RInv
  BY InitUType, InitOnlyDeployed
<1>2. RInv /\ [Next]_vars => RInv'
  BY NextUType, NextOnlyDeployed, NextRegisteredFirst
<1>3. RInv => GateAdmitsCurrent
  BY DEF RegisteredFirst, GateAdmitsCurrent
<1>4. QED
  BY <1>1, <1>2, <1>3, PTL DEF Spec

-----------------------------------------------------------------------------
LEMMA InitCInv == Init => CInv
<1> SUFFICES ASSUME Init PROVE CInv
  OBVIOUS
<1>1. Current # Absent
  BY InitUType, CurrentType DEF UType
<1>2. QED
  BY <1>1 DEF Init, CInv, CurrentIsComplete, Followed

LEMMA FetchCInv ==
  ASSUME UType, CInv, NEW s \in Shells, \A t \in Shells : t = s, Fetch(s)
  PROVE  CInv'
<1>1. /\ next[s] \in 1 .. 4 /\ Len(Downloads) = 4 /\ Current' = Current
      /\ \A i \in 1 .. 4 : Downloads[i] \in Files
  BY ListsCoverFiles, SameDeployment DEF Fetch, server, UType, TypeOK
<1>2. /\ got'[s] = [got[s] EXCEPT ![Downloads[next[s]]] = Current] /\ pc[s] = "fetch"
      /\ UNCHANGED <<installed, spoiled, conf, draft, remote>>
      /\ \/ next[s] < 4 /\ next'[s] = next[s] + 1 /\ pc'[s] = "fetch"
         \/ next[s] = 4 /\ pc'[s] = "install" /\ next'[s] = 1
  BY <1>1 DEF Fetch, Goto, server, disk, UType, TypeOK
<1>3. DOMAIN got[s] = Files
  BY DEF UType, TypeOK
<1>4. remote[s] = Current => \A i \in 1 .. next[s] : got'[s][Downloads[i]] = Current
  BY <1>1, <1>2, <1>3 DEF CInv, Followed
<1>5. remote[s] = Current /\ next[s] = 4 => \A f \in Files : got'[s][f] = Current
  BY <1>4, ListsCoverFiles
<1>6. Followed(s)'
  BY <1>1, <1>2, <1>4, <1>5 DEF CInv, Followed
<1>7. QED
  BY <1>1, <1>2, <1>6 DEF CInv, CurrentIsComplete

LEMMA SetupOpenCInv ==
  ASSUME UType, CInv, NEW s \in Shells, \A t \in Shells : t = s, SetupOpen(s)
  PROVE  CInv'
<1>1. /\ next[s] \in 1 .. 4 /\ Downloads[next[s]] \in Files /\ Current' = Current
  BY ListsCoverFiles, SameDeployment DEF SetupOpen, server, UType, TypeOK
<1>2. /\ got'[s][Downloads[next[s]]] = Current /\ spoiled \subseteq spoiled'
      /\ pc[s] = "setupFetch" /\ pc'[s] = "setupBody"
      /\ UNCHANGED <<installed, conf, draft, remote, next>>
  BY <1>1 DEF SetupOpen, Goto, server, UType, TypeOK
<1>3. Followed(s)'
  BY <1>1, <1>2 DEF CInv, Followed, Done
<1>4. CurrentIsComplete'
  BY <1>1, <1>2 DEF CInv, CurrentIsComplete
<1> QED
  BY <1>3, <1>4 DEF CInv

LEMMA SetupFetchCInv ==
  ASSUME UType, CInv, NEW s \in Shells, \A t \in Shells : t = s, SetupFetch(s)
  PROVE  CInv'
<1> DEFINE f == Downloads[next[s]]
<1>1. /\ next[s] \in 1 .. 4 /\ Len(Downloads) = 4 /\ Current' = Current
      /\ \A i \in 1 .. 4 : Downloads[i] \in Files
  BY ListsCoverFiles, SameDeployment DEF SetupFetch, server, UType, TypeOK
<1>2. /\ installed' = [installed EXCEPT ![f] = got[s][f]] /\ spoiled' = spoiled \ {f}
      /\ pc[s] = "setupBody" /\ UNCHANGED <<conf, draft, remote>>
      /\ \/ next[s] < 4 /\ next'[s] = next[s] + 1 /\ pc'[s] = "setupFetch"
         \/ next[s] = 4 /\ pc'[s] = "setupConf" /\ next'[s] = 1
  BY <1>1 DEF SetupFetch, Goto, server, UType, TypeOK
<1>3. DOMAIN installed = Files
  BY DEF UType, TypeOK
<1>4. Current \in {conf, remote[s]} => installed'[f] = Current
  BY <1>1, <1>2, <1>3 DEF CInv, Followed
<1>5. \A g \in Files \ {f} : Done(g) => Done(g)'
  BY <1>1, <1>2, <1>3 DEF Done
<1>6. remote[s] = Current => \A i \in 1 .. next[s] : Done(Downloads[i])'
  <2> SUFFICES ASSUME remote[s] = Current, NEW i \in 1 .. next[s] PROVE Done(Downloads[i])'
    OBVIOUS
  <2>1. Downloads[i] # f => Done(Downloads[i])
    BY <1>1, <1>2 DEF CInv, Followed
  <2>2. Downloads[i] = f => Done(Downloads[i])'
    BY <1>1, <1>4 DEF Done
  <2> QED
    BY <1>1, <1>5, <2>1, <2>2
<1>7. remote[s] = Current /\ next[s] = 4 => Complete'
  BY <1>1, <1>6, ListsCoverFiles DEF Complete
<1>8. Followed(s)'
  BY <1>1, <1>2, <1>6, <1>7 DEF CInv, Followed
<1>9. CurrentIsComplete'
  BY <1>1, <1>2, <1>3, <1>4 DEF CInv, CurrentIsComplete
<1> QED
  BY <1>8, <1>9 DEF CInv

LEMMA InstallCInv ==
  ASSUME UType, CInv, NEW s \in Shells, \A t \in Shells : t = s,
         Install(s) \/ InstallFails(s)
  PROVE  CInv'
<1> DEFINE f == Installs[next[s]]
<1>1. /\ next[s] \in 1 .. 4 /\ Len(Installs) = 4 /\ Current' = Current
      /\ \A i \in 1 .. 4 : Installs[i] \in Files
  BY ListsCoverFiles, SameDeployment DEF Install, InstallFails, InstallNext, server, UType, TypeOK
<1>2. /\ \/ installed' = [installed EXCEPT ![f] = got[s][f]] /\ spoiled' = spoiled \ {f}
         \/ installed' = installed /\ spoiled' = spoiled \cup {f}
      /\ pc[s] = "install" /\ UNCHANGED <<conf, draft, remote>>
      /\ \/ next[s] < 4 /\ next'[s] = next[s] + 1 /\ pc'[s] = "install" /\ got' = got
         \/ next[s] = 4 /\ pc'[s] = "register" /\ next'[s] = 1
  BY <1>1 DEF Install, InstallFails, InstallNext, Goto, server, UType, TypeOK
<1>3. DOMAIN installed = Files
  BY DEF UType, TypeOK
<1>4. /\ remote[s] = Current => got[s][f] = Current
      /\ remote[s] = Current => f \in spoiled' \/ installed'[f] = Current
  BY <1>1, <1>2, <1>3 DEF CInv, Followed
<1>5. \A g \in Files \ {f} : Done(g) => Done(g)'
  BY <1>1, <1>2, <1>3 DEF Done
<1>6. remote[s] = Current => \A i \in 1 .. next[s] : Done(Installs[i])'
  <2> SUFFICES ASSUME remote[s] = Current, NEW i \in 1 .. next[s] PROVE Done(Installs[i])'
    OBVIOUS
  <2>1. CASE Installs[i] = f
    BY <1>1, <1>4, <2>1 DEF Done
  <2>2. CASE Installs[i] # f
    <3>1. Done(Installs[i])
      BY <1>1, <1>2, <2>2 DEF CInv, Followed
    <3> QED
      BY <1>1, <1>5, <2>2, <3>1
  <2> QED
    BY <2>1, <2>2
<1>7. remote[s] = Current /\ next[s] = 4 => Complete'
  BY <1>1, <1>6, ListsCoverFiles DEF Complete
<1>8. Followed(s)'
  BY <1>1, <1>2, <1>6, <1>7 DEF CInv, Followed
<1>9. conf = Current => remote[s] = Current
  BY <1>2 DEF CInv, Followed
<1>10. CurrentIsComplete'
  BY <1>1, <1>2, <1>3, <1>4, <1>9 DEF CInv, CurrentIsComplete
<1> QED
  BY <1>8, <1>10 DEF CInv

LEMMA NextCInv ==
  ASSUME NeverRolledBack, OneShell, UType, OnlyDeployed, CInv, [Next]_vars
  PROVE  CInv'
<1>0. /\ Current # Absent /\ remote \in [Shells -> Known]
      /\ pc \in [Shells -> Finished \cup Updating \cup SettingUp \cup {"cleared"}]
      /\ next \in [Shells -> 1 .. 4]
  BY CurrentType, ListsCoverFiles DEF UType, TypeOK
<1>1. CASE Redeploy
  <2>1. Current' \notin Deployed /\ Current' # Absent
    BY <1>1, RedeployIsNew DEF UType
  <2>2. QED
    BY <1>1, <2>1 DEF Redeploy, disk, OnlyDeployed, CInv, CurrentIsComplete, Followed
<1>2. CASE Reset \/ UNCHANGED vars
  <2>1. UNCHANGED <<deploy, disk, env, pc, remote, got, next>>
    BY <1>2 DEF Reset, vars, disk
  <2>2. QED
    BY <2>1, SameDeployment DEF disk, CInv, CurrentIsComplete, Complete, Done, Followed
<1>3. ASSUME NEW s \in Shells, Step(s) PROVE CInv'
  <2>0. \A t \in Shells : t = s
    BY DEF OneShell
  <2> SUFFICES ASSUME ~Fetch(s), ~SetupOpen(s), ~SetupFetch(s), ~Install(s), ~InstallFails(s)
               PROVE  CInv'
    BY <2>0, FetchCInv, SetupOpenCInv, SetupFetchCInv, InstallCInv
  <2>1. /\ Current' = Current /\ UNCHANGED <<installed, spoiled>>
        /\ CurrentIsComplete /\ UNCHANGED conf => CurrentIsComplete'
    BY <1>3, SameDeployment DEF Step, Gate, Ask, Register, Write, Move, Export, SetupRegister,
       SetupConf, server, disk, CurrentIsComplete
  <2>10. Complete' <=> Complete
    BY <2>1 DEF Complete, Done
  <2> USE DEF Goto, server, disk
  <2>2. CASE Gate(s)
    BY <1>0, <2>0, <2>1, <2>2 DEF Gate, CInv, Followed
  <2>3. CASE Ask(s)
    <3>1. next[s] = 1
      BY <2>3 DEF Ask, UType, Fetched, Finished
    <3>2. QED
      BY <1>0, <2>0, <2>1, <2>3, <3>1 DEF Ask, CInv, Followed
  <2>4. CASE Register(s) \/ SetupRegister(s)
    <3>1. pc[s] = "setup" => next[s] = 1
      BY DEF UType, Fetched
    <3>2. QED
      BY <1>0, <2>0, <2>1, <2>4, <2>10, <3>1 DEF Register, SetupRegister, CInv, Followed
  <2>5. CASE Write(s)
    BY <1>0, <2>0, <2>1, <2>5, <2>10 DEF Write, CInv, Followed
  <2>6. CASE Move(s)
    <3>1. conf' = remote[s]
      BY <2>6, UpdateConstants DEF Move, CInv, Followed, UType, TypeOK, Updating
    <3>2. CurrentIsComplete'
      BY <2>1, <2>6, <3>1 DEF Move, CInv, Followed, Complete, Done, CurrentIsComplete
    <3>3. QED
      BY <1>0, <2>0, <2>6, <3>2 DEF Move, CInv, Followed
  <2>7. CASE Export(s)
    BY <1>0, <2>0, <2>1, <2>7 DEF Export, CInv, Followed
  <2>8. CASE SetupConf(s)
    <3>1. CurrentIsComplete'
      BY <2>1, <2>8 DEF SetupConf, CInv, Followed, Complete, Done, CurrentIsComplete
    <3>2. QED
      BY <1>0, <2>0, <2>8, <3>1 DEF SetupConf, CInv, Followed
  <2>9. QED
    BY <1>3, <2>2, <2>3, <2>4, <2>5, <2>6, <2>7, <2>8 DEF Step
<1>4. ASSUME NEW s \in Shells, User(s) PROVE CInv'
  <2>0. \A t \in Shells : t = s
    BY DEF OneShell
  <2>1. CASE Setup(s) \/ Reopen(s)
    <3>1. Current' = Current /\ UNCHANGED disk
      BY <2>1, SameDeployment DEF Setup, Reopen, server
    <3>2. CurrentIsComplete'
      BY <3>1 DEF CInv, CurrentIsComplete, disk
    <3> QED
      BY <1>0, <2>0, <2>1, <3>2 DEF Setup, Reopen, Goto, CInv, Followed
  <2>2. CASE GiveUp(s) /\ spoiled \subseteq spoiled'
    <3>1. Current' = Current /\ UNCHANGED <<installed, conf>>
      BY <2>2, SameDeployment DEF GiveUp, server
    <3>2. CurrentIsComplete'
      BY <2>2, <3>1 DEF CInv, CurrentIsComplete
    <3> QED
      BY <1>0, <2>0, <2>2, <3>1, <3>2 DEF GiveUp, Goto, CInv, Followed
  <2> QED
    BY <1>4, <2>1, <2>2, BreakOff DEF User
<1>5. QED
  BY <1>1, <1>2, <1>3, <1>4 DEF Next

(* With one shell and no rollback, in an installation whose client.conf     *)
(* names the current version every file is a current one or one whose last  *)
(* writing was cut off or failed, however many versions are deployed at     *)
(* whatever moments, whichever downloads and `install`s fail and wherever   *)
(* the update or a setup in place is interrupted.  (Two shells share        *)
(* client.conf.update, and the files of one can meet the version the other  *)
(* has written.)                                                            *)
THEOREM CurrentClientsAreComplete ==
  ASSUME NeverRolledBack, OneShell
  PROVE  Spec => []CurrentIsComplete
<1> DEFINE OInv == UType /\ OnlyDeployed /\ CInv
<1>1. Init => OInv
  BY InitUType, InitOnlyDeployed, InitCInv
<1>2. OInv /\ [Next]_vars => OInv'
  BY NextUType, NextOnlyDeployed, NextCInv
<1>3. OInv => CurrentIsComplete
  BY DEF CInv
<1>4. QED
  BY <1>1, <1>2, <1>3, PTL DEF Spec

-----------------------------------------------------------------------------
(* The conda wrapper: a shell at work has passed the update check and is    *)
(* not updating, so that cutting it off leaves nothing half done but the    *)
(* packages in the staging directory.                                       *)

AtWork ==
  /\ work \in [Shells -> {"none", "prepared", "running", "failing"}]
  /\ \A s \in Shells : work[s] # "none" => pc[s] \in {"cleared", "served", "refused"}

(* What is marked "now" belongs to a transaction that has not ended.        *)
Owned ==
  /\ staging \subseteq Shells \X {"now", "before"}
  /\ \A p \in staging : p[2] = "now" => work[p[1]] # "none"

LEMMA StagingStep ==
  ASSUME UType, AtWork, [StagingNext]_stagingVars
  PROVE  \/ [Next]_vars
         \/ \E s \in Shells : /\ work[s] # "none"
                             /\ pc' = [pc EXCEPT ![s] = "blocked"]
                             /\ UNCHANGED <<deploy, registered, installed, spoiled, conf,
                                            draft, env, remote, got, next>>
<1>1. CASE \E s \in Shells : CutOff(s)
  BY <1>1 DEF CutOff, Goto, server, disk
<1>2. CASE \E s \in Shells : Transact(s)
  BY <1>2 DEF Transact, Prepare, Run, Download, Break, End, Next, Step
<1> QED
  BY <1>1, <1>2 DEF StagingNext, stagingVars, Next

LEMMA CutOffKeeps ==
  ASSUME UType, AtWork, NEW s \in Shells, work[s] # "none",
         pc' = [pc EXCEPT ![s] = "blocked"],
         UNCHANGED <<deploy, registered, installed, spoiled, conf, draft, env, remote, got,
                     next>>
  PROVE  /\ UType'
         /\ OnlyDeployed => OnlyDeployed'
         /\ RegisteredFirst => RegisteredFirst'
         /\ CInv => CInv'
<1>0. /\ pc[s] \in {"cleared", "served", "refused"} /\ Current' = Current /\ Deployed' = Deployed
      /\ pc \in [Shells -> Finished \cup Updating \cup SettingUp \cup {"cleared"}]
  BY SameDeployment DEF AtWork, UType, TypeOK
<1>1. \A t \in Shells : pc'[t] = pc[t] \/ (pc'[t] = "blocked" /\ t = s)
  BY <1>0
<1>2. next[s] = 1
  BY <1>0 DEF UType, Fetched
<1>3. UType'
  BY <1>0, <1>1, <1>2 DEF UType, TypeOK, Fetched, Finished, Updating, SettingUp
<1>4. OnlyDeployed => OnlyDeployed'
  BY <1>0 DEF OnlyDeployed
<1>5. RegisteredFirst => RegisteredFirst'
  BY <1>0, <1>1 DEF RegisteredFirst, Enrolled
<1>6. CInv => CInv'
  BY <1>0, <1>1 DEF CInv, CurrentIsComplete, Followed, Complete, Done
<1> QED
  BY <1>3, <1>4, <1>5, <1>6

LEMMA NextAtWork == UType /\ AtWork /\ [StagingNext]_stagingVars => AtWork'
<1> SUFFICES ASSUME UType, AtWork, [StagingNext]_stagingVars PROVE AtWork'
  OBVIOUS
<1>0. pc \in [Shells -> Finished \cup Updating \cup SettingUp \cup {"cleared"}]
  BY DEF UType, TypeOK
<1>1. CASE (Redeploy \/ Reset) /\ UNCHANGED <<work, staging>>
  BY <1>1 DEF Redeploy, Reset, AtWork
<1>2. ASSUME NEW s \in Shells, Step(s) \/ User(s), AtPrompt(s) PROVE AtWork'
  <2>1. \A t \in Shells \ {s} : pc'[t] = pc[t]
    BY <1>0, <1>2 DEF Step, Gate, Ask, Fetch, Install, InstallFails, InstallNext, Register,
         Write, Move, Export, SetupRegister, SetupOpen, SetupFetch, SetupConf, User, Setup,
         NetworkFails, SetupFails, Interrupt, GiveUp, Reopen, Goto
  <2> QED
    BY <1>2, <2>1 DEF AtPrompt, AtWork
<1>3. ASSUME NEW s \in Shells, Transact(s) PROVE AtWork'
  <2>1. CASE Run(s)
    BY <1>0, <2>1 DEF Run, Gate, Phase, Goto, AtWork
  <2>2. CASE Prepare(s)
    BY <2>2 DEF Prepare, Phase, AtWork, vars
  <2>3. CASE Download(s) \/ Break(s) \/ End(s)
    BY <2>3 DEF Download, Break, End, Phase, AtWork, vars
  <2> QED
    BY <1>3, <2>1, <2>2, <2>3 DEF Transact
<1>4. ASSUME NEW s \in Shells, CutOff(s) PROVE AtWork'
  BY <1>0, <1>4 DEF CutOff, Phase, Goto, AtWork
<1>5. CASE UNCHANGED stagingVars
  BY <1>5 DEF stagingVars, vars, AtWork
<1> QED
  BY <1>1, <1>2, <1>3, <1>4, <1>5 DEF StagingNext

LEMMA InitStaging == StagingInit => UType /\ AtWork /\ Owned
BY InitUType DEF StagingInit, AtWork, Owned

LEMMA NextStaging ==
  UType /\ AtWork /\ [StagingNext]_stagingVars => UType' /\ AtWork'
BY StagingStep, CutOffKeeps, NextUType, NextAtWork

(* The same three facts when commands are conda commands that can be cut    *)
(* off at any point of their transactions.  First: a shell that installs    *)
(* has downloaded every file.                                               *)
THEOREM WrappedTypeCorrect == StagingSpec => []TypeOK
<1>1. UType => TypeOK
  BY DEF UType
<1> QED
  BY <1>1, InitStaging, NextStaging, PTL DEF StagingSpec

(* Second: the gate lets in every shell its update check lets through, also *)
(* when the shell comes back from a conda command that was cut off.         *)
THEOREM WrappedShellsPassTheGate ==
  ASSUME NeverRolledBack, "reset" \notin Faults
  PROVE  StagingSpec => []GateAdmitsCurrent
<1> DEFINE RInv == OnlyDeployed /\ RegisteredFirst
<1>1. StagingInit => RInv
  BY InitOnlyDeployed DEF StagingInit
<1>2. UType /\ AtWork /\ RInv /\ [StagingNext]_stagingVars => RInv'
  BY StagingStep, CutOffKeeps, NextOnlyDeployed, NextRegisteredFirst
<1>3. RInv => GateAdmitsCurrent
  BY DEF RegisteredFirst, GateAdmitsCurrent
<1> QED
  BY <1>1, <1>2, <1>3, InitStaging, NextStaging, PTL DEF StagingSpec

(* Third: with one shell, a client.conf that names the current version      *)
(* stands for files of that version.                                        *)
THEOREM WrappedClientsAreComplete ==
  ASSUME NeverRolledBack, OneShell
  PROVE  StagingSpec => []CurrentIsComplete
<1> DEFINE OInv == OnlyDeployed /\ CInv
<1>1. StagingInit => OInv
  BY InitOnlyDeployed, InitCInv DEF StagingInit
<1>2. UType /\ AtWork /\ OInv /\ [StagingNext]_stagingVars => OInv'
  BY StagingStep, CutOffKeeps, NextOnlyDeployed, NextCInv
<1>3. OInv => CurrentIsComplete
  BY DEF CInv
<1> QED
  BY <1>1, <1>2, <1>3, InitStaging, NextStaging, PTL DEF StagingSpec

(* What a step does to the staging directory.                               *)
LEMMA StagingSource ==
  ASSUME AtWork, Owned, [StagingNext]_stagingVars
  PROVE  \/ UNCHANGED <<work, staging>>
         \/ \E s \in Shells :
              /\ \A t \in Shells \ {s} : work'[t] = work[t]
              /\ \/ staging' = {}
                 \/ work[s] # "none" /\ work'[s] # "none" /\ staging' = staging
                 \/ work[s] # "none" /\ work'[s] = work[s] /\ staging' = staging \cup {<<s, "now">>}
                 \/ /\ "interrupt" \in Faults /\ work'[s] = "none"
                    /\ staging' = {IF p[1] = s THEN <<s, "before">> ELSE p : p \in staging}
<1>1. ASSUME NEW s \in Shells, Transact(s) \/ CutOff(s)
      PROVE  /\ \A t \in Shells \ {s} : work'[t] = work[t]
             /\ \/ staging' = {}
                \/ work[s] # "none" /\ work'[s] # "none" /\ staging' = staging
                \/ work[s] # "none" /\ work'[s] = work[s] /\ staging' = staging \cup {<<s, "now">>}
                \/ /\ "interrupt" \in Faults /\ work'[s] = "none"
                   /\ staging' = {IF p[1] = s THEN <<s, "before">> ELSE p : p \in staging}
  <2>1. CASE Prepare(s) \/ End(s)
    BY <2>1 DEF Prepare, End, Phase, AtWork
  <2>2. CASE Run(s) \/ Break(s)
    BY <2>2 DEF Run, Break, Phase, AtWork
  <2>3. CASE Download(s)
    BY <2>3 DEF Download
  <2>4. CASE CutOff(s)
    BY <2>4 DEF CutOff, Phase, AtWork
  <2> QED
    BY <1>1, <2>1, <2>2, <2>3, <2>4 DEF Transact
<1> QED
  BY <1>1 DEF StagingNext, AtPrompt, stagingVars

LEMMA NextOwned == AtWork /\ Owned /\ [StagingNext]_stagingVars => Owned'
<1> SUFFICES ASSUME AtWork, Owned, [StagingNext]_stagingVars PROVE Owned'
  OBVIOUS
<1>1. CASE UNCHANGED <<work, staging>>
  BY <1>1 DEF Owned
<1>2. ASSUME NEW s \in Shells, \A t \in Shells \ {s} : work'[t] = work[t],
             \/ staging' = {}
             \/ work[s] # "none" /\ work'[s] # "none" /\ staging' = staging
             \/ work[s] # "none" /\ work'[s] = work[s] /\ staging' = staging \cup {<<s, "now">>}
             \/ staging' = {IF p[1] = s THEN <<s, "before">> ELSE p : p \in staging}
      PROVE  Owned'
  <2>1. CASE staging' \subseteq staging \cup {<<s, "now">>} /\ work'[s] # "none"
    BY <1>2, <2>1 DEF Owned
  <2>2. CASE staging' = {IF p[1] = s THEN <<s, "before">> ELSE p : p \in staging}
    BY <1>2, <2>2 DEF Owned
  <2>3. CASE staging' = {}
    BY <2>3 DEF Owned
  <2> QED
    BY <1>2, <2>1, <2>2, <2>3
<1> QED
  BY <1>1, <1>2, StagingSource

(* "Staging directory is cleared after package-changing commands": unless a *)
(* command is cut off, nothing is left when no shell is at work, however    *)
(* many shells clear the directory under each other.                        *)
THEOREM StagingIsCleared ==
  ASSUME "interrupt" \notin Faults
  PROVE  StagingSpec => []CleanWhenIdle
<1> DEFINE AllNow == \A p \in staging : p[2] = "now"
<1>1. StagingInit => AllNow
  BY DEF StagingInit
<1>2. AtWork /\ Owned /\ AllNow /\ [StagingNext]_stagingVars => AllNow'
  BY StagingSource
<1>3. Owned /\ AllNow => CleanWhenIdle
  BY DEF Owned, CleanWhenIdle
<1> QED
  BY <1>1, <1>2, <1>3, InitStaging, NextStaging, NextOwned, PTL DEF StagingSpec

(* With one shell a transaction never meets what an interrupted one left.   *)
THEOREM TransactionsStartFresh ==
  ASSUME OneShell
  PROVE  StagingSpec => []FreshStart
<1>1. StagingInit => FreshStart
  BY DEF StagingInit, FreshStart
<1>2. AtWork /\ Owned /\ FreshStart /\ [StagingNext]_stagingVars => FreshStart'
  BY StagingSource DEF OneShell, FreshStart
<1> QED
  BY <1>1, <1>2, InitStaging, NextStaging, NextOwned, PTL DEF StagingSpec
=============================================================================
