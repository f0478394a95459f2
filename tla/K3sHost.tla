------------------------------ MODULE K3sHost ------------------------------
(***************************************************************************)
(* The remote machine as the provider can see and change it over SSH: one  *)
(* systemd unit, the configuration in the unit file get.k3s.io wrote, and  *)
(* the configuration the running process was started with.  These are pure *)
(* operators on a host record; the controllers' modules decide when a      *)
(* command is sent and what the sender learns of it.                       *)
(*                                                                         *)
(* Abstractions.  A configuration (every flag of one install command line) *)
(* is an opaque member of Configs.  "inactive", "failed", "deactivating"   *)
(* and "reloading" are one state, "down": Observe tells none of them       *)
(* apart.  Every LoadState other than "not-found" is "loaded".             *)
(***************************************************************************)
CONSTANTS Configs,      \* configurations a user can ask for
          NoConfig      \* no configuration, or one this provider never sent

ConfigOrNone == Configs \cup {NoConfig}

UnitStates == {"down", "activating", "active"}

Hosts == [loaded : BOOLEAN,         \* LoadState of the unit is not "not-found"
          state  : UnitStates,      \* its ActiveState
          cfg    : ConfigOrNone,    \* flags in the unit file
          runs   : ConfigOrNone]    \* flags the active process was started with

NoUnit  == [loaded |-> FALSE, state |-> "down", cfg |-> NoConfig, runs |-> NoConfig]

\* A machine that already runs a k3s this provider did not install.
Adopted == [NoUnit EXCEPT !.loaded = TRUE, !.state = "active"]

(***************************************************************************)
(* ServiceProbe: the two questions Observe asks of systemd.                *)
(***************************************************************************)
\* Mutant: LoadState is read and "not-found" is no answer of its own.
ExistsWhateverLoadState(h) == TRUE

Exists(h) == h.loaded

Ready(h) == h.state = "active"

(***************************************************************************)
(* The install command has two halves joined by &&: the script piped into  *)
(* sh writes the binary and the unit file (INSTALL_K3S_SKIP_START keeps it *)
(* from starting anything), then a restart is queued without waiting.  A   *)
(* restart of a unit systemd has never heard of fails.                     *)
(***************************************************************************)
Written(h, c) == [h EXCEPT !.loaded = TRUE, !.cfg = c]

Restarted(h) == [h EXCEPT !.state = "activating", !.runs = NoConfig]

Installed(h, c) == Restarted(Written(h, c))

\* Where an install that did not report success can have left the machine:
\* cut off before the unit file, between the halves, or only in its reply.
PartialInstalls(h, c) == {h, Written(h, c), Installed(h, c)}

Down(h) == [h EXCEPT !.state = "down", !.runs = NoConfig]

\* k3s-uninstall.sh stops the unit first and removes its files after.
PartialUninstalls(h) == {h, Down(h), NoUnit}

\* Type=notify: the unit turns active when the process reports ready, and the
\* process has then read the unit file of the moment it was started.
Started(h) == [h EXCEPT !.state = "active", !.runs = h.cfg]
=============================================================================
