---------------------------- MODULE ClientUpdate ----------------------------
(***************************************************************************)
(* The shell client's self-update (client/update-check.sh), the setup that *)
(* installs it (client/setenv.sh) and the gateway's version gate           *)
(* (app/main.py).  One client installation, several shells that share its  *)
(* directory, and a gateway that is redeployed meanwhile.  A client        *)
(* version is a hash of the client payload (rebuild.sh), so the files a    *)
(* deployment serves and the version it requires change together.          *)
(***************************************************************************)
EXTENDS Integers, Sequences

CONSTANTS
  Shells,     \* shells open on this installation
  Versions,
  History,    \* the versions deployed, in order
  Faults,     \* subset of {"network", "interrupt", "reset", "install"}
  Absent      \* no file, no row

ASSUME UpdateConstants ==
  /\ History \in Seq(Versions) /\ History # <<>>
  /\ Absent \notin Versions

Downloads == <<"pip-wrapper", "conda-wrapper", "cache-sync", "update-check">>
Installs == <<"pip-wrapper", "conda-wrapper", "update-check", "cache-sync">>
Files == {"pip-wrapper", "conda-wrapper", "cache-sync", "update-check"}

VARIABLES
  deploy,      \* how many deployments there have been
  registered,  \* clients.client_version of this client id
  installed,   \* client directory: file -> version it comes from
  spoiled,     \* files there whose last writing was cut off or failed
  conf,        \* PKGRELAY_CLIENT_VERSION in client.conf
  draft,       \* the same in client.conf.update
  env,         \* each shell's exported PKGRELAY_CLIENT_VERSION
  pc,
  remote,      \* remote_version
  got,         \* the shell's temporary directory: file -> version
  next         \* index into Downloads or Installs

vars == <<deploy, registered, installed, spoiled, conf, draft, env, pc, remote, got, next>>
server == <<deploy, registered>>
disk == <<installed, spoiled, conf, draft>>

Current == History[deploy]          \* required_client_version

Finished == {"idle", "served", "refused", "blocked"}
Updating == {"fetch", "install", "register", "write", "move", "export"}
SettingUp == {"setup", "setupFetch", "setupBody", "setupConf"}

Nothing == [f \in Files |-> Absent]

Init ==
  /\ deploy = 1
  /\ registered = Current
  /\ installed = [f \in Files |-> Current]
  /\ spoiled = {}
  /\ conf = Current
  /\ draft = Absent
  /\ env = [s \in Shells |-> Current]
  /\ pc = [s \in Shells |-> "idle"]
  /\ remote = [s \in Shells |-> Absent]
  /\ got = [s \in Shells |-> Nothing]
  /\ next = [s \in Shells |-> 1]

Goto(s, phase) == pc' = [pc EXCEPT ![s] = phase]

-----------------------------------------------------------------------------
(* The gateway *)

RegisterAcceptsAny(v) == TRUE  \* mutant: no 409

(* register_client answers 409 to any other version.                        *)
RegisterAccepts(v) == v = Current

(* rebuild.sh: a new container with new client files and their version.     *)
Redeploy ==
  /\ deploy < Len(History)
  /\ deploy' = deploy + 1
  /\ UNCHANGED <<registered, disk, env, pc, remote, got, next>>

(* reset-cache.sh --yes: the database goes, with it every registration.     *)
Reset ==
  /\ "reset" \in Faults
  /\ registered # Absent
  /\ registered' = Absent
  /\ UNCHANGED <<deploy, disk, env, pc, remote, got, next>>

(* require_current_client lets the request in or answers 426.               *)
Gate(s) ==
  /\ pc[s] = "cleared"
  /\ Goto(s, IF registered = Current THEN "served" ELSE "refused")
  /\ UNCHANGED <<server, disk, env, remote, got, next>>

-----------------------------------------------------------------------------
(* _pkgrelay_check_client_update, before every conda or pip command *)

Ask(s) ==
  /\ pc[s] \in Finished
  /\ IF Current = env[s]
     THEN Goto(s, "cleared") /\ UNCHANGED remote
     ELSE Goto(s, "fetch") /\ remote' = [remote EXCEPT ![s] = Current]
  /\ UNCHANGED <<server, disk, env, got, next>>

FetchSkips(s) ==  \* mutant: stops one file short
  /\ pc[s] = "fetch"
  /\ got' = [got EXCEPT ![s][Downloads[next[s]]] = Current]
  /\ IF next[s] < Len(Downloads) - 1
     THEN next' = [next EXCEPT ![s] = @ + 1] /\ UNCHANGED pc
     ELSE next' = [next EXCEPT ![s] = 1] /\ Goto(s, "install")
  /\ UNCHANGED <<server, disk, env, remote>>

(* Each file is whatever the gateway serves at that moment.                 *)
Fetch(s) ==
  /\ pc[s] = "fetch"
  /\ got' = [got EXCEPT ![s][Downloads[next[s]]] = Current]
  /\ IF next[s] < Len(Downloads)
     THEN next' = [next EXCEPT ![s] = @ + 1] /\ UNCHANGED pc
     ELSE next' = [next EXCEPT ![s] = 1] /\ Goto(s, "install")
  /\ UNCHANGED <<server, disk, env, remote>>

(* The next file, or the end of the temporary directory.                    *)
InstallNext(s) ==
  /\ pc[s] = "install"
  /\ IF next[s] < Len(Installs)
     THEN /\ next' = [next EXCEPT ![s] = @ + 1]
          /\ UNCHANGED <<pc, got>>
     ELSE /\ next' = [next EXCEPT ![s] = 1]
          /\ Goto(s, "register")
          /\ got' = [got EXCEPT ![s] = Nothing]
  /\ UNCHANGED <<server, conf, draft, env, remote>>

Install(s) ==
  LET f == Installs[next[s]] IN
  /\ InstallNext(s)
  /\ installed' = [installed EXCEPT ![f] = got[s][f]]
  /\ spoiled' = spoiled \ {f}

(* `install` removes the old file before it copies, and nobody looks at its *)
(* exit status.                                                             *)
InstallFails(s) ==
  /\ "install" \in Faults
  /\ InstallNext(s)
  /\ spoiled' = spoiled \cup {Installs[next[s]]}
  /\ UNCHANGED installed

Register(s) ==
  /\ pc[s] = "register"
  /\ IF RegisterAccepts(remote[s])
     THEN /\ registered' = remote[s]
          /\ Goto(s, "write")
          /\ UNCHANGED remote
     ELSE /\ Goto(s, "blocked")
          /\ remote' = [remote EXCEPT ![s] = Absent]
          /\ UNCHANGED registered
  /\ UNCHANGED <<deploy, disk, env, got, next>>

WriteAsksAgain(s) ==  \* mutant: records the version served by now
  /\ pc[s] = "write"
  /\ draft' = Current
  /\ Goto(s, "move")
  /\ UNCHANGED <<server, installed, spoiled, conf, env, remote, got, next>>

(* client.conf.update has a fixed name: shells write the same file.         *)
Write(s) ==
  /\ pc[s] = "write"
  /\ draft' = remote[s]
  /\ Goto(s, "move")
  /\ UNCHANGED <<server, installed, spoiled, conf, env, remote, got, next>>

(* mv; it fails when another shell has moved the draft, and nobody minds.   *)
Move(s) ==
  /\ pc[s] = "move"
  /\ conf' = IF draft = Absent THEN conf ELSE draft
  /\ draft' = Absent
  /\ Goto(s, "export")
  /\ UNCHANGED <<server, installed, spoiled, env, remote, got, next>>

ExportForgotten(s) ==  \* mutant: only client.conf is brought up to date
  /\ pc[s] = "export"
  /\ remote' = [remote EXCEPT ![s] = Absent]
  /\ Goto(s, "cleared")
  /\ UNCHANGED <<server, disk, env, got, next>>

Export(s) ==
  /\ pc[s] = "export"
  /\ env' = [env EXCEPT ![s] = remote[s]]
  /\ remote' = [remote EXCEPT ![s] = Absent]
  /\ Goto(s, "cleared")
  /\ UNCHANGED <<server, disk, got, next>>

-----------------------------------------------------------------------------
(* setenv.sh, "Install": registers first and downloads in place *)

Setup(s) ==
  /\ pc[s] \in Finished
  /\ remote' = [remote EXCEPT ![s] = Current]
  /\ Goto(s, "setup")
  /\ UNCHANGED <<server, disk, env, got, next>>

SetupRegister(s) ==
  /\ pc[s] = "setup"
  /\ IF RegisterAccepts(remote[s])
     THEN /\ registered' = remote[s]
          /\ Goto(s, "setupFetch")
          /\ UNCHANGED remote
     ELSE /\ Goto(s, "blocked")
          /\ remote' = [remote EXCEPT ![s] = Absent]
          /\ UNCHANGED registered
  /\ UNCHANGED <<deploy, disk, env, got, next>>

(* The body begins, and with it `curl -o` empties the installed file.       *)
SetupOpen(s) ==
  /\ pc[s] = "setupFetch"
  /\ got' = [got EXCEPT ![s][Downloads[next[s]]] = Current]
  /\ spoiled' = spoiled \cup {Downloads[next[s]]}
  /\ Goto(s, "setupBody")
  /\ UNCHANGED <<server, installed, conf, draft, env, remote, next>>

(* The body is there to its end.                                            *)
SetupFetch(s) ==
  LET f == Downloads[next[s]] IN
  /\ pc[s] = "setupBody"
  /\ installed' = [installed EXCEPT ![f] = got[s][f]]
  /\ spoiled' = spoiled \ {f}
  /\ got' = [got EXCEPT ![s] = Nothing]
  /\ IF next[s] < Len(Downloads)
     THEN next' = [next EXCEPT ![s] = @ + 1] /\ Goto(s, "setupFetch")
     ELSE next' = [next EXCEPT ![s] = 1] /\ Goto(s, "setupConf")
  /\ UNCHANGED <<server, conf, draft, env, remote>>

(* Writes client.conf in place; `exec bash -l` then reads it.               *)
SetupConf(s) ==
  /\ pc[s] = "setupConf"
  /\ conf' = remote[s]
  /\ env' = [env EXCEPT ![s] = remote[s]]
  /\ remote' = [remote EXCEPT ![s] = Absent]
  /\ Goto(s, "idle")
  /\ UNCHANGED <<server, installed, spoiled, draft, got, next>>

-----------------------------------------------------------------------------
(* The user and the network *)

(* The shell's locals are gone; the client directory stays as it is, with a *)
(* file in it that setenv.sh was writing.                                   *)
GiveUp(s) ==
  /\ remote' = [remote EXCEPT ![s] = Absent]
  /\ got' = [got EXCEPT ![s] = Nothing]
  /\ next' = [next EXCEPT ![s] = 1]
  /\ Goto(s, "blocked")
  /\ UNCHANGED <<server, installed, conf, draft, env>>

(* curl fails or `bash -n` rejects what it brought.                         *)
NetworkFails(s) ==
  /\ "network" \in Faults
  /\ pc[s] \in {"fetch", "register"}
  /\ GiveUp(s)
  /\ UNCHANGED spoiled

(* `set -e` ends setenv.sh at the first curl that fails.                    *)
SetupFails(s) ==
  /\ "network" \in Faults
  /\ pc[s] \in {"setup", "setupFetch", "setupBody"}
  /\ GiveUp(s)
  /\ UNCHANGED spoiled

(* The file `install` is copying.                                           *)
AtHand(s) == IF pc[s] = "install" THEN {Installs[next[s]]} ELSE {}

(* Ctrl-C, or the terminal is closed.                                       *)
Interrupt(s) ==
  /\ "interrupt" \in Faults
  /\ pc[s] \in Updating \cup SettingUp
  /\ GiveUp(s)
  /\ \E torn \in SUBSET AtHand(s) : spoiled' = spoiled \cup torn

(* The shell is replaced by a new one, which sources client.conf.           *)
Reopen(s) ==
  /\ pc[s] \in Finished
  /\ env[s] # conf
  /\ env' = [env EXCEPT ![s] = conf]
  /\ Goto(s, "idle")
  /\ UNCHANGED <<server, disk, remote, got, next>>

-----------------------------------------------------------------------------
Step(s) ==
  \/ Gate(s) \/ Ask(s) \/ Fetch(s) \/ Install(s) \/ InstallFails(s) \/ Register(s)
  \/ Write(s) \/ Move(s) \/ Export(s)
  \/ SetupRegister(s) \/ SetupOpen(s) \/ SetupFetch(s) \/ SetupConf(s)

User(s) ==
  Setup(s) \/ NetworkFails(s) \/ SetupFails(s) \/ Interrupt(s) \/ Reopen(s)

Next ==
  \/ Redeploy \/ Reset
  \/ \E s \in Shells : Step(s) \/ User(s)

Spec == Init /\ [][Next]_vars

(* Every shell keeps running commands and every command runs on.            *)
LiveSpec == Spec /\ \A s \in Shells : WF_vars(Step(s))

-----------------------------------------------------------------------------
(* Properties *)

Known == Versions \cup {Absent}

(* Everything stays in its set; a shell past the download has every file.   *)
TypeOK ==
  /\ deploy \in 1 .. Len(History)
  /\ registered \in Known
  /\ installed \in [Files -> Versions]
  /\ spoiled \subseteq Files
  /\ conf \in Versions
  /\ draft \in Known
  /\ env \in [Shells -> Versions]
  /\ pc \in [Shells -> Finished \cup Updating \cup SettingUp \cup {"cleared"}]
  /\ remote \in [Shells -> Known]
  /\ got \in [Shells -> [Files -> Known]]
  /\ next \in [Shells -> 1 .. Len(Downloads)]
  /\ \A s \in Shells : pc[s] \in Updating \cup SettingUp => remote[s] \in Versions

(* A client that counts as current never mixes versions: every file whose   *)
(* last writing went through is of the current one, whatever was            *)
(* interrupted and whenever the gateway was redeployed.                     *)
CurrentIsComplete ==
  conf = Current => \A f \in Files \ spoiled : installed[f] = Current

(* "Atomically refresh the installed shell client": when no shell is at it, *)
(* every file is whole.  Setup in place and an unchecked `install` break    *)
(* it.                                                                      *)
CurrentIsWhole ==
  conf = Current /\ (\A s \in Shells : pc[s] \notin Updating \cup SettingUp) =>
    spoiled = {}

(* A shell the update check lets through is one the gate lets through.      *)
GateAdmitsCurrent ==
  \A s \in Shells : env[s] = Current => registered = Current

(* When deployments stop, every shell ends up at the last version.          *)
ShellsCatchUp ==
  <>(deploy = Len(History)) => <>[](\A s \in Shells : env[s] = Current)
=============================================================================
