------------------------------ MODULE Playbook ------------------------------
(***************************************************************************)
(* slurm-rdma/ansible/playbook.yml, run any number of times against a      *)
(* cluster whose nodes reboot and are provisioned anew in between: what    *)
(* the tasks leave on the disks of the nodes and which of it the daemons   *)
(* have loaded.                                                            *)
(*                                                                         *)
(* Ansible runs a task on all hosts that have not failed, in any order,    *)
(* before it goes on to the next; a host on which a task fails takes no    *)
(* further part in the run, the others go on.  The tasks on swappiness,    *)
(* hostnames, directories and gres.conf write what no other task reads and *)
(* are left out, and so is the output of the check at the end.  A loop is  *)
(* one step, save where one of its items cannot be done.  The swap entry   *)
(* of a disk is one that the regexp of the fstab task finds; one that      *)
(* follows a blank line it would find in the second run only.              *)
(***************************************************************************)
EXTENDS Integers, Sequences, FiniteSets, SequencesExt

CONSTANTS
    Nodes,          \* the inventory
    Controller,     \* node1
    Accidents,      \* which of Kinds occur
    MaxRuns,        \* bound: runs of the playbook
    MaxFailures,    \* bound: failed tasks, in all the runs together
    MaxMoves        \* bound: addresses a node goes through

Kinds == {"failure", "reboot", "rebuild", "replace", "wipe", "elsewhere"}

ASSUME PlaybookAssumption ==
    /\ Controller \in Nodes /\ IsFiniteSet(Nodes)
    /\ Accidents \subseteq Kinds
    /\ MaxRuns \in Nat /\ MaxFailures \in Nat /\ MaxMoves \in Nat

VARIABLES
    addr,       \* addr[n]: the private address of n
    disk,       \* disk[n]: what the tasks leave on the disk of n, see Blank
    loaded,     \* loaded[n]: what is in effect on n, see Boot
    control,    \* /tmp/munge.key of the control machine
    keys,       \* number of munge keys generated so far on the nodes
    play,       \* the run in progress
    runs,
    failures    \* failed tasks so far

vars == <<addr, disk, loaded, control, keys, play, runs, failures>>

Nothing == 0
Foreign == -1   \* the munge key of another cluster
Unknown == [n \in Nodes |-> Nothing]    \* no slurm.conf, no facts

Tasks == <<"facts", "swapoff", "fstab", "packages", "modprobe", "persist", "nodes",
           "generate", "fetch", "copy", "munge", "configure", "slurmctld", "slurmd", "check">>
OnlyOnController == {"generate", "fetch", "slurmctld"}

\* A new disk; its image has swap.
Blank == [swap |-> TRUE, installed |-> FALSE, modules |-> FALSE, key |-> Nothing,
          hosts |-> [n \in Nodes |-> <<>>], conf |-> Unknown]

\* What the daemons of n load when n starts from disk d.
Boot(n, d) == [swap |-> d.swap, modules |-> d.modules, munge |-> d.key,
               slurmctld |-> IF n = Controller THEN d.conf ELSE Unknown,
               slurmd |-> d.conf]

NoRun == [step |-> 0, todo |-> {}, failed |-> {}, facts |-> Unknown, swapping |-> {}]
Ended == play.step > Len(Tasks)
Running == play.step > 0 /\ ~Ended

Alive == Nodes \ play.failed

\* The hosts that have a task to do at step i: "when" skips it on the others.
Todo(i) == IF i \notin 1 .. Len(Tasks) THEN {}
           ELSE IF Tasks[i] \in OnlyOnController THEN Alive \cap {Controller}
           ELSE Alive

Init ==
    /\ addr = [n \in Nodes |-> 1]
    /\ disk = [n \in Nodes |-> Blank]
    /\ loaded = [n \in Nodes |-> Boot(n, Blank)]
    /\ control = Nothing
    /\ keys = 0
    /\ play = NoRun
    /\ runs = 0
    /\ failures = 0

-----------------------------------------------------------------------------
(* The run.                                                                *)

\* Mutant: the hosts that failed in the last run stay marked.
StartAfterFailures ==
    /\ ~Running
    /\ runs < MaxRuns
    /\ runs' = runs + 1
    /\ play' = [play EXCEPT !.step = 1, !.todo = Nodes]
    /\ UNCHANGED <<addr, disk, loaded, control, keys, failures>>

Start ==
    /\ ~Running
    /\ runs < MaxRuns
    /\ runs' = runs + 1
    /\ play' = [NoRun EXCEPT !.step = 1, !.todo = Nodes]
    /\ UNCHANGED <<addr, disk, loaded, control, keys, failures>>

NextTask ==
    /\ Running
    /\ play.todo = {}
    /\ play' = [play EXCEPT !.step = @ + 1, !.todo = Todo(play.step + 1)]
    /\ UNCHANGED <<addr, disk, loaded, control, keys, runs, failures>>

\* Host n does its part of a task.
Does(n, task) ==
    /\ Running
    /\ Tasks[play.step] = task
    /\ n \in play.todo
    /\ UNCHANGED <<addr, runs, failures>>
Done(n) == play' = [play EXCEPT !.todo = @ \ {n}]
DropOut(n) == play' = [play EXCEPT !.todo = @ \ {n}, !.failed = @ \cup {n}]
Write(n, d) == disk' = [disk EXCEPT ![n] = d]

Fail(n) ==
    /\ "failure" \in Accidents
    /\ Running
    /\ n \in play.todo
    /\ failures < MaxFailures
    /\ failures' = failures + 1
    /\ DropOut(n)
    /\ UNCHANGED <<addr, disk, loaded, control, keys, runs>>

GatherFacts(n) ==
    /\ Does(n, "facts")
    /\ play' = [play EXCEPT !.todo = @ \ {n}, !.facts[n] = addr[n],
                            !.swapping = IF loaded[n].swap THEN @ \cup {n} ELSE @]
    /\ UNCHANGED <<disk, loaded, control, keys>>

\* Skipped where the facts say that there is no swap.
SwapOff(n) ==
    /\ Does(n, "swapoff")
    /\ loaded' = [loaded EXCEPT ![n].swap = @ /\ n \notin play.swapping]
    /\ Done(n)
    /\ UNCHANGED <<disk, control, keys>>

\* Mutant: the entries are looked at where swap was on when the run began.
RemoveSwapIfOn(n) ==
    /\ Does(n, "fstab")
    /\ Write(n, [disk[n] EXCEPT !.swap = @ /\ n \notin play.swapping])
    /\ Done(n)
    /\ UNCHANGED <<loaded, control, keys>>

RemoveSwap(n) ==
    /\ Does(n, "fstab")
    /\ Write(n, [disk[n] EXCEPT !.swap = FALSE])
    /\ Done(n)
    /\ UNCHANGED <<loaded, control, keys>>

\* The munge package may come with a key of its own and start with it.
InstallPackages(n) ==
    /\ Does(n, "packages")
    /\ \/ UNCHANGED <<loaded, keys>> /\ Write(n, [disk[n] EXCEPT !.installed = TRUE])
       \/ /\ ~disk[n].installed
          /\ keys' = keys + 1
          /\ Write(n, [disk[n] EXCEPT !.installed = TRUE, !.key = keys'])
          /\ loaded' = [loaded EXCEPT ![n].munge = keys']
    /\ Done(n)
    /\ UNCHANGED control

LoadModules(n) ==
    /\ Does(n, "modprobe")
    /\ loaded' = [loaded EXCEPT ![n].modules = TRUE]
    /\ Done(n)
    /\ UNCHANGED <<disk, control, keys>>

PersistModules(n) ==
    /\ Does(n, "persist")
    /\ Write(n, [disk[n] EXCEPT !.modules = TRUE])
    /\ Done(n)
    /\ UNCHANGED <<loaded, control, keys>>

\* Mutant: the line is appended in every run, as by echo >>.
AddNodesAgain(n) ==
    /\ Does(n, "nodes")
    /\ Nothing \notin {play.facts[m] : m \in Nodes}
    /\ Write(n, [disk[n] EXCEPT !.hosts = [m \in Nodes |-> Append(@[m], play.facts[m])]])
    /\ Done(n)
    /\ UNCHANGED <<loaded, control, keys>>

\* Mutant: a node that has a line, with whatever address, keeps it.
AddNodesOnce(n) ==
    /\ Does(n, "nodes")
    /\ Nothing \notin {play.facts[m] : m \in Nodes}
    /\ Write(n, [disk[n] EXCEPT !.hosts =
                   [m \in Nodes |-> IF @[m] # <<>> THEN @[m] ELSE <<play.facts[m]>>]])
    /\ Done(n)
    /\ UNCHANGED <<loaded, control, keys>>

\* lineinfile: the line is appended unless it is there.
AddNodes(n) ==
    /\ Does(n, "nodes")
    /\ Nothing \notin {play.facts[m] : m \in Nodes}
    /\ Write(n, [disk[n] EXCEPT !.hosts =
                   [m \in Nodes |-> IF Contains(@[m], play.facts[m]) THEN @[m]
                                    ELSE Append(@[m], play.facts[m])]])
    /\ Done(n)
    /\ UNCHANGED <<loaded, control, keys>>

\* hostvars of a node whose facts are missing is an error; the other items of
\* the loop are done all the same, then the host fails.
AddKnownNodes(n) ==
    /\ Does(n, "nodes")
    /\ Nothing \in {play.facts[m] : m \in Nodes}
    /\ Write(n, [disk[n] EXCEPT !.hosts =
                   [m \in Nodes |-> IF play.facts[m] = Nothing \/ Contains(@[m], play.facts[m])
                                    THEN @[m] ELSE Append(@[m], play.facts[m])]])
    /\ DropOut(n)
    /\ UNCHANGED <<loaded, control, keys>>

GenerateKey(n) ==
    /\ Does(n, "generate")
    /\ IF disk[n].key = Nothing
       THEN keys' = keys + 1 /\ Write(n, [disk[n] EXCEPT !.key = keys'])
       ELSE UNCHANGED <<keys, disk>>
    /\ Done(n)
    /\ UNCHANGED <<loaded, control>>

\* Mutant: the key is fetched unless a file of that name is there.
FetchOnce(n) ==
    /\ Does(n, "fetch")
    /\ control' = IF control = Nothing THEN disk[n].key ELSE control
    /\ Done(n)
    /\ UNCHANGED <<disk, loaded, keys>>

FetchKey(n) ==
    /\ Does(n, "fetch")
    /\ control' = disk[n].key
    /\ Done(n)
    /\ UNCHANGED <<disk, loaded, keys>>

CopyKey(n) ==
    /\ Does(n, "copy")
    /\ control # Nothing
    /\ Write(n, [disk[n] EXCEPT !.key = control])
    /\ Done(n)
    /\ UNCHANGED <<loaded, control, keys>>

\* Without a source on the control machine the task fails.
MissKey(n) ==
    /\ Does(n, "copy")
    /\ control = Nothing
    /\ DropOut(n)
    /\ UNCHANGED <<disk, loaded, control, keys>>

\* Mutant: state started leaves a daemon that runs alone.
StartMunge(n) ==
    /\ Does(n, "munge")
    /\ loaded' = [loaded EXCEPT ![n].munge = IF @ = Nothing THEN disk[n].key ELSE @]
    /\ Done(n)
    /\ UNCHANGED <<disk, control, keys>>

RestartMunge(n) ==
    /\ Does(n, "munge")
    /\ loaded' = [loaded EXCEPT ![n].munge = disk[n].key]
    /\ Done(n)
    /\ UNCHANGED <<disk, control, keys>>

\* slurm.conf.j2 renders the address of every node; a host that comes here has
\* the facts of all.
DeployConf(n) ==
    /\ Does(n, "configure")
    /\ Nothing \notin {play.facts[m] : m \in Nodes}
    /\ Write(n, [disk[n] EXCEPT !.conf = play.facts])
    /\ Done(n)
    /\ UNCHANGED <<loaded, control, keys>>

RestartSlurmctld(n) ==
    /\ Does(n, "slurmctld")
    /\ loaded' = [loaded EXCEPT ![n].slurmctld = disk[n].conf]
    /\ Done(n)
    /\ UNCHANGED <<disk, control, keys>>

\* Mutant: slurmd is restarted where the controller is only.
RestartOneSlurmd(n) ==
    /\ Does(n, "slurmd")
    /\ loaded' = [loaded EXCEPT ![n].slurmd = IF n = Controller THEN disk[n].conf ELSE @]
    /\ Done(n)
    /\ UNCHANGED <<disk, control, keys>>

RestartSlurmd(n) ==
    /\ Does(n, "slurmd")
    /\ loaded' = [loaded EXCEPT ![n].slurmd = disk[n].conf]
    /\ Done(n)
    /\ UNCHANGED <<disk, control, keys>>

\* ibv_devices finds the kernel modules, or the host fails.
CheckDevices(n) ==
    /\ Does(n, "check")
    /\ Done(n)
    /\ UNCHANGED <<disk, loaded, control, keys>>

-----------------------------------------------------------------------------
(* Between runs.                                                           *)

Accident(kind, n) ==
    /\ kind \in Accidents
    /\ ~Running
    /\ UNCHANGED <<control, keys, runs, failures>>

Reboot(n) ==
    /\ Accident("reboot", n)
    /\ disk[n].installed
    /\ loaded' = [loaded EXCEPT ![n] = Boot(n, disk[n])]
    /\ UNCHANGED <<addr, disk, play>>

\* Terraform creates the instance anew, at another address, from a new disk
\* or from the disk resource it keeps.
Move(n) ==
    /\ addr[n] < MaxMoves
    /\ addr' = [addr EXCEPT ![n] = @ + 1]
    /\ play' = NoRun

Rebuild(n) ==
    /\ Accident("rebuild", n)
    /\ Move(n)
    /\ Write(n, Blank)
    /\ loaded' = [loaded EXCEPT ![n] = Boot(n, Blank)]

Replace(n) ==
    /\ Accident("replace", n)
    /\ Move(n)
    /\ loaded' = [loaded EXCEPT ![n] = Boot(n, disk[n])]
    /\ UNCHANGED disk

\* /tmp of the control machine does not survive its reboot.
WipeControl ==
    /\ "wipe" \in Accidents
    /\ ~Running
    /\ control' = Nothing
    /\ UNCHANGED <<addr, disk, loaded, keys, play, runs, failures>>

\* The playbook runs for another cluster, whose key its fetch leaves at the
\* same path of the control machine.
ServeAnotherCluster ==
    /\ "elsewhere" \in Accidents
    /\ ~Running
    /\ control' = Foreign
    /\ UNCHANGED <<addr, disk, loaded, keys, play, runs, failures>>

-----------------------------------------------------------------------------
Host(n) ==
    \/ GatherFacts(n) \/ SwapOff(n) \/ RemoveSwap(n) \/ InstallPackages(n)
    \/ LoadModules(n) \/ PersistModules(n) \/ AddNodes(n)
    \/ GenerateKey(n) \/ FetchKey(n) \/ CopyKey(n) \/ RestartMunge(n)
    \/ DeployConf(n) \/ RestartSlurmctld(n) \/ RestartSlurmd(n) \/ CheckDevices(n)

FailedTask(n) == Fail(n) \/ AddKnownNodes(n) \/ MissKey(n)

Run == Start \/ NextTask \/ \E n \in Nodes : Host(n) \/ FailedTask(n)

Next == Run \/ WipeControl \/ ServeAnotherCluster
            \/ \E n \in Nodes : Reboot(n) \/ Rebuild(n) \/ Replace(n)

Spec == Init /\ [][Next]_vars

-----------------------------------------------------------------------------
(* What a run promises.                                                    *)

\* The last run ended without a failed host, and no node moved since.
Converged == Ended /\ play.failed = {}

\* The types of the state.
TypeOK ==
    /\ addr \in [Nodes -> 1 .. MaxMoves + 1]
    /\ \A n \in Nodes :
          /\ disk[n].installed \in BOOLEAN /\ disk[n].key \in Foreign .. keys
          /\ disk[n].conf \in [Nodes -> 0 .. MaxMoves + 1]
          /\ loaded[n].munge \in Foreign .. keys
    /\ control \in Foreign .. keys
    /\ play.step \in 0 .. Len(Tasks) + 1
    /\ play.todo \subseteq Nodes \ play.failed

\* Munge requires an identical key on all nodes: after a run without failures
\* every daemon has loaded the key that is on its disk, and it is the same
\* one everywhere and no other cluster's, whatever keys packages and earlier
\* runs, also of nodes that were rebuilt since, left on the nodes, and runs for
\* this or another cluster on the control machine.
OneKey ==
    Converged => \A n, m \in Nodes : /\ loaded[n].munge = disk[n].key
                                     /\ disk[n].key = disk[m].key
                                     /\ disk[n].key \notin {Nothing, Foreign}

\* After a run without failures every Slurm daemon runs with the addresses
\* the nodes have.
OneConfiguration ==
    Converged => /\ loaded[Controller].slurmctld = addr
                 /\ \A n \in Nodes : loaded[n].slurmd = addr

\* Nothing that a run has achieved is lost by a reboot: what is loaded is what
\* the disk makes a node start with, swap is off and the modules are there,
\* although each is set in one task and made to last in another, and a host
\* may have failed between the two in an earlier run.
SurvivesReboot ==
    Converged => \A n \in Nodes : /\ loaded[n] = Boot(n, disk[n])
                                  /\ ~loaded[n].swap /\ loaded[n].modules

\* The nodes share a key of their own.
Shared == \E k \in 1 .. keys : \A n \in Nodes : disk[n].key = k

\* Node1 has dropped out of the run before its fetch replaced the key of
\* another cluster on the control machine: the copy hands that one out.
Misled == Controller \in play.failed /\ control = Foreign

\* A run never breaks what an earlier run has achieved: once the nodes share
\* a key, running the playbook again, with hosts failing at any task of it,
\* leaves them with that key, although the control machine may have lost its
\* copy or hold another cluster's, unless node1 drops out before it replaced
\* that.
RerunKeepsKey ==
    [][Running /\ Shared /\ ~Misled => \A n \in Nodes : disk'[n].key = disk[n].key]_vars

\* A run without failures leaves a working cluster, whatever it started from:
\* every node has its packages and modules, no swap, one key, a configuration
\* and a hosts file with every address in force, and its daemons run with
\* what is on its disk.
Provisioned(n) ==
    /\ disk[n].installed /\ disk[n].modules /\ ~disk[n].swap
    /\ disk[n].conf = addr
    /\ \A m \in Nodes : Contains(disk[n].hosts[m], addr[m])
    /\ loaded[n] = Boot(n, disk[n])
Working == Shared /\ \A n \in Nodes : Provisioned(n)
RunProvisions == Converged => Working

\* The playbook is idempotent: on a cluster that works no task of a later run
\* writes to a disk, loads anything else or makes a key, although hosts drop
\* out of that run at any task and the control machine may have lost its key
\* or hold another cluster's, unless node1 drops out before it replaced that.
RerunChangesNothing ==
    [][Running /\ Working /\ ~Misled => UNCHANGED <<disk, loaded, keys>>]_vars

-----------------------------------------------------------------------------
(* A statement of the playbook that it does not keep.                      *)

\* The address n finds for m: the first line of /etc/hosts counts.
Resolves(n, m) == Head(disk[n].hosts[m])

\* playbook.yml, 63: stable hostnames, so slurm.conf (SlurmctldHost=node1) is
\* consistent across reprovisioning.
NamesFollowNodes ==
    Converged => \A n, m \in Nodes : n # m => Resolves(n, m) = addr[m]

=============================================================================
