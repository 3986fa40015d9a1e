--------------------------- MODULE PlaybookProofs ---------------------------
(***************************************************************************)
(* Proofs about the playbook, for any inventory and any number of runs,    *)
(* failures, reboots and nodes provisioned anew: what a run without        *)
(* failures establishes, and that no run takes a shared key away or        *)
(* changes a cluster that works, unless node1 fails while the control      *)
(* machine holds another cluster's key.                                    *)
(***************************************************************************)
EXTENDS Playbook, TLAPS

-----------------------------------------------------------------------------
(* The order of the tasks.                                                 *)

At_facts == 1
At_swapoff == 2
At_fstab == 3
At_packages == 4
At_modprobe == 5
At_persist == 6
At_nodes == 7
At_generate == 8
At_fetch == 9
At_copy == 10
At_munge == 11
At_configure == 12
At_slurmctld == 13
At_slurmd == 14
At_check == 15

USE DEF At_facts, At_swapoff, At_fstab, At_packages, At_modprobe, At_persist, At_nodes, At_generate,
        At_fetch, At_copy, At_munge, At_configure, At_slurmctld, At_slurmd, At_check, Foreign

LEMMA Fifteen == Len(Tasks) = 15
  BY DEF Tasks

LEMMA Places ==
  ASSUME NEW i \in 1 .. 15
  PROVE  /\ Tasks[i] = "facts" <=> i = At_facts
         /\ Tasks[i] = "swapoff" <=> i = At_swapoff
         /\ Tasks[i] = "fstab" <=> i = At_fstab
         /\ Tasks[i] = "packages" <=> i = At_packages
         /\ Tasks[i] = "modprobe" <=> i = At_modprobe
         /\ Tasks[i] = "persist" <=> i = At_persist
         /\ Tasks[i] = "nodes" <=> i = At_nodes
         /\ Tasks[i] = "generate" <=> i = At_generate
         /\ Tasks[i] = "fetch" <=> i = At_fetch
         /\ Tasks[i] = "copy" <=> i = At_copy
         /\ Tasks[i] = "munge" <=> i = At_munge
         /\ Tasks[i] = "configure" <=> i = At_configure
         /\ Tasks[i] = "slurmctld" <=> i = At_slurmctld
         /\ Tasks[i] = "slurmd" <=> i = At_slurmd
         /\ Tasks[i] = "check" <=> i = At_check
  BY SMT DEF Tasks

-----------------------------------------------------------------------------
(* Types.                                                                  *)

Addresses == [Nodes -> 0 .. MaxMoves + 1]
Keys == Foreign .. keys
Disks == [swap : BOOLEAN, installed : BOOLEAN, modules : BOOLEAN, key : Keys,
          hosts : [Nodes -> Seq(Nat)], conf : Addresses]
Daemons == [swap : BOOLEAN, modules : BOOLEAN, munge : Keys,
            slurmctld : Addresses, slurmd : Addresses]
Plays == [step : 0 .. 16, todo : SUBSET Nodes, failed : SUBSET Nodes, facts : Addresses,
          swapping : SUBSET Nodes]

TInv ==
    /\ addr \in [Nodes -> 1 .. MaxMoves + 1]
    /\ keys \in Nat
    /\ disk \in [Nodes -> Disks]
    /\ loaded \in [Nodes -> Daemons]
    /\ control \in Keys
    /\ play \in Plays
    /\ play.todo \cap play.failed = {}

LEMMA Keeping ==
  ASSUME keys \in Nat, keys' \in Nat, keys <= keys'
  PROVE  /\ Keys \subseteq Keys'
         /\ Disks \subseteq Disks'
         /\ Daemons \subseteq Daemons'
<1>1. Keys \subseteq Keys'
  BY DEF Keys
<1>2. ASSUME NEW d \in Disks PROVE d \in Disks'
  BY <1>1, <1>2 DEF Disks, Addresses
<1>3. ASSUME NEW d \in Daemons PROVE d \in Daemons'
  BY <1>1, <1>3 DEF Daemons, Addresses
<1> QED BY <1>1, <1>2, <1>3

LEMMA Booting ==
  ASSUME TInv, NEW n \in Nodes, NEW d \in Disks
  PROVE  Boot(n, d) \in Daemons
<1>1. Unknown \in Addresses
  BY PlaybookAssumption DEF Unknown, Addresses, Nothing
<1> QED BY <1>1 DEF Boot, Daemons, Disks

LEMMA Blanks == keys \in Nat => Blank \in Disks
<1>1. Unknown \in Addresses
  BY PlaybookAssumption DEF Unknown, Addresses, Nothing
<1>2. [n \in Nodes |-> <<>>] \in [Nodes -> Seq(Nat)]
  OBVIOUS
<1> QED BY <1>1, <1>2 DEF Blank, Disks, Keys, Nothing

LEMMA Idle == NoRun \in Plays /\ NoRun.todo = {} /\ NoRun.failed = {} /\ NoRun.step = 0
<1>1. Unknown \in Addresses
  BY PlaybookAssumption DEF Unknown, Addresses, Nothing
<1> QED BY <1>1 DEF NoRun, Plays

LEMMA InitTypes == Init => TInv
<1> SUFFICES ASSUME Init PROVE TInv
  OBVIOUS
<1>1. keys = 0 /\ control = 0
  BY DEF Init, Nothing
<1>2. Blank \in Disks
  BY <1>1, Blanks
<1>3. \A n \in Nodes : Boot(n, Blank).munge = 0
  BY DEF Boot, Blank, Nothing
<1>4. Unknown \in Addresses
  BY PlaybookAssumption DEF Unknown, Addresses, Nothing
<1>5. loaded \in [Nodes -> Daemons]
  <2> SUFFICES ASSUME NEW n \in Nodes PROVE Boot(n, Blank) \in Daemons
    BY DEF Init
  <2> QED BY <1>2, <1>4 DEF Boot, Daemons, Disks
<1>6. play \in Plays /\ play.todo = {} /\ play.failed = {}
  BY Idle DEF Init
<1>7. addr \in [Nodes -> 1 .. MaxMoves + 1] /\ disk \in [Nodes -> Disks]
  BY <1>2, PlaybookAssumption DEF Init
<1> QED BY <1>1, <1>5, <1>6, <1>7 DEF TInv, Keys

\* What a host writes and loads, and how the run goes on, keeps the types.
LEMMA HostTypes ==
  ASSUME TInv, NEW n \in Nodes, NEW task,
         Does(n, task),
         keys' \in {keys, keys + 1},
         control' \in Keys',
         disk' = disk \/ \E d \in Disks' : Write(n, d),
         loaded' = loaded \/ \E b \in Daemons' : loaded' = [loaded EXCEPT ![n] = b],
         play' \in Plays, play'.todo = play.todo \ {n}, play'.failed = play.failed
  PROVE  TInv'
<1>1. keys \in Nat /\ keys' \in Nat /\ keys <= keys'
  BY DEF TInv
<1>2. Disks \subseteq Disks' /\ Daemons \subseteq Daemons'
  BY <1>1, Keeping
<1>3. disk' \in [Nodes -> Disks']
  BY <1>2 DEF TInv, Write
<1>4. loaded' \in [Nodes -> Daemons']
  BY <1>2 DEF TInv
<1>5. play'.todo \cap play'.failed = {}
  BY DEF TInv
<1>6. addr' = addr
  BY DEF Does
<1> QED BY <1>1, <1>3, <1>4, <1>5, <1>6 DEF TInv, Plays, Addresses

\* The tasks: the one of the facts, and the others.
LEMMA FactsPlay ==
  ASSUME TInv, NEW n \in Nodes, GatherFacts(n)
  PROVE  /\ play' \in Plays
         /\ play'.step = play.step
         /\ play'.todo = play.todo \ {n}
         /\ play'.failed = play.failed
         /\ play'.facts = [play.facts EXCEPT ![n] = addr[n]]
         /\ play'.swapping = IF loaded[n].swap THEN play.swapping \cup {n} ELSE play.swapping
<1> DEFINE todo == play.todo \ {n}
           facts == [play.facts EXCEPT ![n] = addr[n]]
           swapping == IF loaded[n].swap THEN play.swapping \cup {n} ELSE play.swapping
<1>1. play' = [step |-> play.step, todo |-> todo, failed |-> play.failed,
               facts |-> facts, swapping |-> swapping]
  BY DEF GatherFacts, TInv, Plays
<1>2. facts \in Addresses
  BY DEF TInv, Plays, Addresses
<1>3. play.step \in 0 .. 16 /\ todo \in SUBSET Nodes /\ play.failed \in SUBSET Nodes
      /\ swapping \in SUBSET Nodes
  BY DEF TInv, Plays
<1> HIDE DEF todo, facts, swapping
<1>4. play' \in Plays
  BY <1>1, <1>2, <1>3 DEF Plays
<1> QED BY <1>1, <1>4 DEF todo, facts, swapping

LEMMA DonePlay ==
  ASSUME TInv, NEW n \in Nodes, Done(n)
  PROVE  /\ play' \in Plays
         /\ play'.step = play.step
         /\ play'.todo = play.todo \ {n}
         /\ play'.failed = play.failed
         /\ play'.facts = play.facts
         /\ play'.swapping = play.swapping
BY DEF Done, TInv, Plays

LEMMA TaskTypes == TInv /\ (\E n \in Nodes : Host(n)) => TInv'
<1> SUFFICES ASSUME TInv, NEW n \in Nodes, Host(n) PROVE TInv'
  OBVIOUS
<1> DEFINE D == disk[n]
           L == loaded[n]
<1>t. /\ keys \in Nat /\ control \in Keys /\ D \in Disks /\ L \in Daemons
      /\ play.facts \in Addresses
  BY DEF TInv, Plays
<1>u. keys' = keys => Disks' = Disks /\ Daemons' = Daemons /\ Keys' = Keys
  BY DEF Disks, Daemons, Keys, Addresses
<1>1. CASE GatherFacts(n)
  BY <1>1, <1>t, <1>u, FactsPlay, HostTypes DEF GatherFacts
<1>2. CASE SwapOff(n)
  <2>1. [L EXCEPT !.swap = @ /\ n \notin play.swapping] \in Daemons
    BY <1>t DEF Daemons
  <2>2. loaded' = [loaded EXCEPT ![n] = [L EXCEPT !.swap = @ /\ n \notin play.swapping]]
    BY <1>2 DEF SwapOff
  <2> QED BY <1>2, <2>1, <2>2, <1>t, <1>u, DonePlay, HostTypes DEF SwapOff
<1>3. CASE RemoveSwap(n)
  <2>1. [D EXCEPT !.swap = FALSE] \in Disks
    BY <1>t DEF Disks
  <2> QED BY <1>3, <2>1, <1>t, <1>u, DonePlay, HostTypes DEF RemoveSwap
<1>4. CASE InstallPackages(n)
  <2>1. CASE UNCHANGED <<loaded, keys>> /\ Write(n, [disk[n] EXCEPT !.installed = TRUE])
    <3>1. [D EXCEPT !.installed = TRUE] \in Disks
      BY <1>t DEF Disks
    <3> QED BY <1>4, <2>1, <3>1, <1>t, <1>u, DonePlay, HostTypes DEF InstallPackages
  <2>2. CASE /\ keys' = keys + 1
             /\ Write(n, [disk[n] EXCEPT !.installed = TRUE, !.key = keys'])
             /\ loaded' = [loaded EXCEPT ![n].munge = keys']
    <3>1. keys' \in Keys' /\ Keys \subseteq Keys' /\ Disks \subseteq Disks' /\ Daemons \subseteq Daemons'
      BY <1>t, <2>2, Keeping DEF Keys
    <3>2. [D EXCEPT !.installed = TRUE, !.key = keys'] \in Disks'
      BY <1>t, <3>1 DEF Disks
    <3>3. [L EXCEPT !.munge = keys'] \in Daemons'
      BY <1>t, <3>1 DEF Daemons
    <3>4. loaded' = [loaded EXCEPT ![n] = [L EXCEPT !.munge = keys']]
      BY <2>2
    <3>5. control' \in Keys'
      BY <1>4, <1>t, <3>1 DEF InstallPackages
    <3>6. Does(n, "packages") /\ Done(n)
      BY <1>4 DEF InstallPackages
    <3> QED BY <2>2, <3>2, <3>3, <3>4, <3>5, <3>6, DonePlay, HostTypes
  <2> QED BY <1>4, <2>1, <2>2 DEF InstallPackages
<1>5. CASE LoadModules(n)
  <2>1. [L EXCEPT !.modules = TRUE] \in Daemons
    BY <1>t DEF Daemons
  <2>2. loaded' = [loaded EXCEPT ![n] = [L EXCEPT !.modules = TRUE]]
    BY <1>5 DEF LoadModules
  <2> QED BY <1>5, <2>1, <2>2, <1>t, <1>u, DonePlay, HostTypes DEF LoadModules
<1>6. CASE PersistModules(n)
  <2>1. [D EXCEPT !.modules = TRUE] \in Disks
    BY <1>t DEF Disks
  <2> QED BY <1>6, <2>1, <1>t, <1>u, DonePlay, HostTypes DEF PersistModules
<1>7. CASE AddNodes(n)
  <2> DEFINE H == [m \in Nodes |-> IF Contains(D.hosts[m], play.facts[m]) THEN D.hosts[m]
                                   ELSE Append(D.hosts[m], play.facts[m])]
  <2>1. D.hosts \in [Nodes -> Seq(Nat)] /\ \A m \in Nodes : play.facts[m] \in Nat
    BY <1>t, PlaybookAssumption DEF Disks, Addresses
  <2>2. H \in [Nodes -> Seq(Nat)]
    BY <2>1
  <2>3. Write(n, [D EXCEPT !.hosts = H])
    BY <1>7 DEF AddNodes
  <2> HIDE DEF H
  <2>4. [D EXCEPT !.hosts = H] \in Disks
    BY <1>t, <2>2 DEF Disks
  <2> QED BY <1>7, <2>3, <2>4, <1>t, <1>u, DonePlay, HostTypes DEF AddNodes
<1>8. CASE GenerateKey(n)
  <2>1. CASE keys' = keys + 1 /\ Write(n, [disk[n] EXCEPT !.key = keys'])
    <3>1. keys' \in Keys' /\ Keys \subseteq Keys' /\ Disks \subseteq Disks'
      BY <1>t, <2>1, Keeping DEF Keys
    <3>2. [D EXCEPT !.key = keys'] \in Disks'
      BY <1>t, <3>1 DEF Disks
    <3>3. control' \in Keys'
      BY <1>8, <1>t, <3>1 DEF GenerateKey
    <3> QED BY <1>8, <2>1, <3>2, <3>3, DonePlay, HostTypes DEF GenerateKey
  <2>2. CASE UNCHANGED <<keys, disk>>
    BY <1>8, <2>2, <1>t, <1>u, DonePlay, HostTypes DEF GenerateKey
  <2> QED BY <1>8, <2>1, <2>2 DEF GenerateKey
<1>9. CASE FetchKey(n)
  <2>1. disk[n].key \in Keys
    BY <1>t DEF Disks
  <2> QED BY <1>9, <2>1, <1>t, <1>u, DonePlay, HostTypes DEF FetchKey
<1>10. CASE CopyKey(n)
  <2>1. [D EXCEPT !.key = control] \in Disks
    BY <1>t DEF Disks
  <2> QED BY <1>10, <2>1, <1>t, <1>u, DonePlay, HostTypes DEF CopyKey
<1>11. CASE RestartMunge(n)
  <2>1. [L EXCEPT !.munge = D.key] \in Daemons
    BY <1>t DEF Daemons, Disks
  <2>2. loaded' = [loaded EXCEPT ![n] = [L EXCEPT !.munge = D.key]]
    BY <1>11 DEF RestartMunge
  <2> QED BY <1>11, <2>1, <2>2, <1>t, <1>u, DonePlay, HostTypes DEF RestartMunge
<1>12. CASE DeployConf(n)
  <2>1. [D EXCEPT !.conf = play.facts] \in Disks
    BY <1>t DEF Disks
  <2> QED BY <1>12, <2>1, <1>t, <1>u, DonePlay, HostTypes DEF DeployConf
<1>13. CASE RestartSlurmctld(n)
  <2>1. [L EXCEPT !.slurmctld = D.conf] \in Daemons
    BY <1>t DEF Daemons, Disks
  <2>2. loaded' = [loaded EXCEPT ![n] = [L EXCEPT !.slurmctld = D.conf]]
    BY <1>13 DEF RestartSlurmctld
  <2> QED BY <1>13, <2>1, <2>2, <1>t, <1>u, DonePlay, HostTypes DEF RestartSlurmctld
<1>14. CASE RestartSlurmd(n)
  <2>1. [L EXCEPT !.slurmd = D.conf] \in Daemons
    BY <1>t DEF Daemons, Disks
  <2>2. loaded' = [loaded EXCEPT ![n] = [L EXCEPT !.slurmd = D.conf]]
    BY <1>14 DEF RestartSlurmd
  <2> QED BY <1>14, <2>1, <2>2, <1>t, <1>u, DonePlay, HostTypes DEF RestartSlurmd
<1>15. CASE CheckDevices(n)
  BY <1>15, <1>t, <1>u, DonePlay, HostTypes DEF CheckDevices
<1> QED BY <1>1, <1>2, <1>3, <1>4, <1>5, <1>6, <1>7, <1>8, <1>9, <1>10, <1>11, <1>12, <1>13,
           <1>14, <1>15 DEF Host

\* A host that drops out of the run is marked as failed and has nothing left to do.
LEMMA DropPlay ==
  ASSUME TInv, NEW n \in Nodes, DropOut(n)
  PROVE  /\ play' \in Plays
         /\ play'.step = play.step
         /\ play'.todo = play.todo \ {n}
         /\ play'.failed = play.failed \cup {n}
         /\ play'.facts = play.facts
         /\ play'.swapping = play.swapping
<1>1. play' = [step |-> play.step, todo |-> play.todo \ {n}, failed |-> play.failed \cup {n},
               facts |-> play.facts, swapping |-> play.swapping]
  BY DEF DropOut, TInv, Plays
<1>2. /\ play.step \in 0 .. 16 /\ play.facts \in Addresses /\ play.swapping \in SUBSET Nodes
      /\ play.todo \ {n} \in SUBSET Nodes /\ play.failed \cup {n} \in SUBSET Nodes
  BY DEF TInv, Plays
<1> QED BY <1>1, <1>2 DEF Plays

\* A task that fails has written lines of the hosts file at most.
LEMMA FailedTaskWrites ==
  ASSUME TInv, NEW n \in Nodes, FailedTask(n)
  PROVE  /\ DropOut(n) /\ n \in play.todo /\ Running
         /\ addr' = addr /\ loaded' = loaded /\ control' = control /\ keys' = keys
         /\ \A m \in Nodes \ {n} : disk'[m] = disk[m]
         /\ \E H \in [Nodes -> Seq(Nat)] : disk'[n] = [disk[n] EXCEPT !.hosts = H]
         /\ disk' \in [Nodes -> Disks]
<1>t. disk \in [Nodes -> Disks] /\ disk[n] \in Disks /\ play.facts \in Addresses
  BY DEF TInv, Plays
<1>1. CASE Fail(n) \/ MissKey(n)
  <2>1. disk[n] = [disk[n] EXCEPT !.hosts = disk[n].hosts] /\ disk[n].hosts \in [Nodes -> Seq(Nat)]
    BY <1>t DEF Disks
  <2>2. disk' = disk
    BY <1>1 DEF Fail, MissKey
  <2> QED BY <1>1, <1>t, <2>1, <2>2 DEF Fail, MissKey, Does
<1>2. CASE AddKnownNodes(n)
  <2> DEFINE H == [m \in Nodes |-> IF play.facts[m] = Nothing \/ Contains(disk[n].hosts[m], play.facts[m])
                                   THEN disk[n].hosts[m] ELSE Append(disk[n].hosts[m], play.facts[m])]
  <2>0. disk[n].hosts \in [Nodes -> Seq(Nat)]
    BY <1>t DEF Disks
  <2>1. \A m \in Nodes : play.facts[m] \in Nat
    <3>1. play.facts \in [Nodes -> 0 .. MaxMoves + 1]
      BY <1>t DEF Addresses
    <3> QED BY <3>1, PlaybookAssumption
  <2>2. H \in [Nodes -> Seq(Nat)]
    BY <2>0, <2>1
  <2>3. Write(n, [disk[n] EXCEPT !.hosts = H])
    BY <1>2 DEF AddKnownNodes
  <2> HIDE DEF H
  <2>4. [disk[n] EXCEPT !.hosts = H] \in Disks
    BY <1>t, <2>2 DEF Disks
  <2> QED BY <1>2, <1>t, <2>2, <2>3, <2>4 DEF AddKnownNodes, Does, Write
<1> QED BY <1>1, <1>2 DEF FailedTask

\* A move, and whatever leaves the number of keys as it is.
LEMMA MoveTypes ==
  ASSUME TInv, NEW n \in Nodes, Move(n)
  PROVE  addr' \in [Nodes -> 1 .. MaxMoves + 1] /\ play' = NoRun
BY PlaybookAssumption DEF Move, TInv

LEMMA NextTypes == TInv /\ [Next]_vars => TInv'
<1> SUFFICES ASSUME TInv, [Next]_vars PROVE TInv'
  OBVIOUS
<1>u. keys' = keys => Disks' = Disks /\ Daemons' = Daemons /\ Keys' = Keys
  BY DEF Disks, Daemons, Keys, Addresses
<1>p. Plays' = Plays
  BY DEF Plays, Addresses
<1>1. CASE UNCHANGED vars
  BY <1>1, <1>u, <1>p DEF vars, TInv
<1>2. CASE Start
  <2>a. play' = [step |-> 1, todo |-> Nodes, failed |-> {}, facts |-> Unknown, swapping |-> {}]
    BY <1>2 DEF Start, NoRun
  <2>b. Unknown \in Addresses
    BY PlaybookAssumption DEF Unknown, Addresses, Nothing
  <2>1. play' \in Plays /\ play'.todo \cap play'.failed = {}
    BY <2>a, <2>b DEF Plays
  <2> QED BY <1>2, <2>1, <1>u, <1>p DEF Start, TInv
<1>3. CASE NextTask
  <2>1. play.step \in 0 .. 15
    BY <1>3, Fifteen DEF NextTask, Running, Ended, TInv, Plays
  <2>2. Todo(play.step + 1) \in SUBSET (Nodes \ play.failed)
    BY DEF Todo, Alive
  <2>3. play' = [step |-> play.step + 1, todo |-> Todo(play.step + 1), failed |-> play.failed,
                 facts |-> play.facts, swapping |-> play.swapping]
    BY <1>3 DEF NextTask, TInv, Plays
  <2> DEFINE i == play.step + 1
             todo == Todo(i)
  <2> HIDE DEF i, todo
  <2>4. /\ i \in 0 .. 16 /\ play.facts \in Addresses /\ play.swapping \in SUBSET Nodes
        /\ todo \in SUBSET Nodes /\ play.failed \in SUBSET Nodes /\ todo \cap play.failed = {}
    BY <2>1, <2>2 DEF TInv, Plays, i, todo
  <2>5. play' = [step |-> i, todo |-> todo, failed |-> play.failed,
                 facts |-> play.facts, swapping |-> play.swapping]
    BY <2>3 DEF i, todo
  <2>6. play' \in Plays /\ play'.todo \cap play'.failed = {}
    BY <2>4, <2>5 DEF Plays
  <2> QED BY <1>3, <2>6, <1>u, <1>p DEF NextTask, TInv
<1>4. CASE \E n \in Nodes : Host(n)
  BY <1>4, TaskTypes
<1>5. ASSUME NEW n \in Nodes, FailedTask(n) PROVE TInv'
  <2>1. /\ DropOut(n) /\ addr' = addr /\ loaded' = loaded /\ control' = control /\ keys' = keys
        /\ disk' \in [Nodes -> Disks]
    BY <1>5, FailedTaskWrites
  <2>2. play' \in Plays /\ play'.todo \cap play'.failed = {}
    BY <2>1, DropPlay DEF TInv
  <2> QED BY <2>1, <2>2, <1>u, <1>p DEF TInv
<1>6. CASE WipeControl \/ ServeAnotherCluster
  BY <1>6, <1>u, <1>p DEF WipeControl, ServeAnotherCluster, TInv, Keys, Nothing
<1>7. ASSUME NEW n \in Nodes, Reboot(n) PROVE TInv'
  <2>1. Boot(n, disk[n]) \in Daemons
    BY Booting DEF TInv
  <2> QED BY <1>7, <2>1, <1>u, <1>p DEF Reboot, Accident, TInv
<1>8. ASSUME NEW n \in Nodes, Rebuild(n) PROVE TInv'
  <2>1. Blank \in Disks /\ Boot(n, Blank) \in Daemons
    BY Blanks, Booting DEF TInv
  <2> QED BY <1>8, <2>1, <1>u, <1>p, MoveTypes, Idle DEF Rebuild, Accident, Write, TInv
<1>9. ASSUME NEW n \in Nodes, Replace(n) PROVE TInv'
  <2>1. Boot(n, disk[n]) \in Daemons
    BY Booting DEF TInv
  <2> QED BY <1>9, <2>1, <1>u, <1>p, MoveTypes, Idle DEF Replace, Accident, TInv
<1> QED BY <1>1, <1>2, <1>3, <1>4, <1>5, <1>6, <1>7, <1>8, <1>9 DEF Next, Run

\* The state keeps its types, whatever fails, reboots and is replaced.
THEOREM PlaybookTypes == Spec => []TypeOK
<1>1. TInv => TypeOK
  <2> SUFFICES ASSUME TInv PROVE TypeOK
    OBVIOUS
  <2>1. ASSUME NEW n \in Nodes
        PROVE  /\ disk[n].installed \in BOOLEAN /\ disk[n].key \in Foreign .. keys
               /\ disk[n].conf \in [Nodes -> 0 .. MaxMoves + 1]
               /\ loaded[n].munge \in Foreign .. keys
    BY DEF TInv, Disks, Daemons, Keys, Addresses
  <2>2. play.step \in 0 .. Len(Tasks) + 1 /\ play.todo \subseteq Nodes \ play.failed
    BY Fifteen DEF TInv, Plays
  <2> QED BY <2>1, <2>2 DEF TInv, TypeOK, Keys
<1> QED BY <1>1, InitTypes, NextTypes, PTL DEF Spec

-----------------------------------------------------------------------------
(* How far a run is with a host: what host n, which has not failed, has    *)
(* done of the tasks up to the i-th.                                       *)

Past(n, i) == /\ n \notin play.failed
              /\ i < play.step \/ (i = play.step /\ n \notin play.todo)

\* The tasks of the controller alone.
Own == {At_generate, At_fetch, At_slurmctld}

LEMMA DoesAt ==
  ASSUME TInv, NEW n \in Nodes, NEW task, Does(n, task)
  PROVE  play.step \in 1 .. 15 /\ Tasks[play.step] = task /\ n \in play.todo
         /\ n \notin play.failed
BY Fifteen DEF Does, Running, Ended, TInv, Plays

\* A host that does a task is past it then, and was past all the tasks before.
LEMMA PastDone ==
  ASSUME TInv, NEW n \in Nodes, n \in play.todo,
         play'.step = play.step, play'.todo = play.todo \ {n}, play'.failed = play.failed
  PROVE  /\ \A m \in Nodes, i \in 1 .. 15 :
               Past(m, i)' <=> Past(m, i) \/ (m = n /\ i = play.step)
         /\ \A i \in 1 .. 15 : i < play.step => Past(n, i)
         /\ \A i \in 1 .. 15 : i >= play.step => ~Past(n, i)
BY DEF TInv, Plays, Past

LEMMA PastNext ==
  ASSUME TInv, NextTask
  PROVE  \A n \in Nodes, i \in 1 .. 15 :
            i \notin Own \/ n = Controller => (Past(n, i)' <=> Past(n, i))
<1> SUFFICES ASSUME NEW n \in Nodes, NEW i \in 1 .. 15, i \notin Own \/ n = Controller
             PROVE  Past(n, i)' <=> Past(n, i)
  OBVIOUS
<1>1. play.step \in 0 .. 15 /\ play.todo = {}
  BY Fifteen DEF NextTask, Running, Ended, TInv, Plays
<1>2. play'.step = play.step + 1 /\ play'.todo = Todo(play.step + 1) /\ play'.failed = play.failed
  BY DEF NextTask, TInv, Plays
<1>3. i = play.step + 1 /\ n \notin play.failed => n \in Todo(i)
  <2> SUFFICES ASSUME n \notin play.failed PROVE n \in Todo(i)
    BY <1>1
  <2>1. Tasks[i] \in OnlyOnController => i \in Own
    BY Places DEF OnlyOnController, Own
  <2> QED BY <2>1, Fifteen DEF Todo, Alive
<1> QED BY <1>1, <1>2, <1>3 DEF Past

LEMMA PastStart ==
  ASSUME Start, NEW n \in Nodes, NEW i \in 1 .. 15
  PROVE  ~Past(n, i)'
BY DEF Start, NoRun, Past

LEMMA PastFail ==
  ASSUME TInv, NEW n \in Nodes, FailedTask(n), NEW m \in Nodes, NEW i \in 1 .. 15
  PROVE  Past(m, i)' <=> Past(m, i) /\ m # n
BY FailedTaskWrites, DropPlay DEF TInv, Plays, Past

LEMMA PastMove ==
  ASSUME play' = NoRun, NEW n \in Nodes, NEW i \in 1 .. 15
  PROVE  ~Past(n, i)'
BY DEF NoRun, Past

-----------------------------------------------------------------------------
(* What the tasks that a host is past have left behind.                    *)

Known(n) == play.facts[n] \in {Nothing, addr[n]}

Prepared(n) ==
    /\ Past(n, At_facts) => /\ play.facts[n] = addr[n]
                            /\ loaded[n].swap = FALSE \/ n \in play.swapping
    /\ Past(n, At_swapoff) => loaded[n].swap = FALSE
    /\ Past(n, At_fstab) => disk[n].swap = FALSE
    /\ Past(n, At_packages) => disk[n].installed = TRUE
    /\ Past(n, At_modprobe) => loaded[n].modules = TRUE
    /\ Past(n, At_persist) => disk[n].modules = TRUE
    /\ disk[n].key = Nothing \/ disk[n].installed = TRUE

Configured(n) ==
    /\ Past(n, At_configure) => disk[n].conf = addr
    /\ Past(n, At_slurmd) => loaded[n].slurmd = disk[n].conf
    /\ IF n = Controller
       THEN Past(n, At_slurmctld) => loaded[n].slurmctld = disk[n].conf
       ELSE loaded[n].slurmctld = Unknown

\* The key of the controller reaches n by way of the control machine.
Keyed(n) ==
    /\ Past(n, At_copy) => /\ disk[n].key # Nothing
                           /\ \/ Controller \in play.failed
                              \/ disk[n].key = disk[Controller].key
    /\ Past(n, At_munge) => loaded[n].munge = disk[n].key
    /\ n = Controller => /\ disk[n].key # Foreign
                         /\ Past(n, At_generate) => disk[n].key # Nothing
                         /\ Running /\ Past(n, At_fetch) => control = disk[n].key

\* A key of these nodes on the control machine that is not the controller's,
\* which was generated before the controller was rebuilt, is of no harm to a
\* key that nodes share: then no other node has the controller's.
Source ==
    \/ disk[Controller].key = Nothing
    \/ control \in {Nothing, Foreign, disk[Controller].key}
    \/ \A n \in Nodes \ {Controller} : disk[n].key # disk[Controller].key

Good(n) == Known(n) /\ Prepared(n) /\ Configured(n) /\ Keyed(n)

NInv == \A n \in Nodes : Good(n)

LEMMA InitNInv == Init => NInv /\ Source
<1> SUFFICES ASSUME Init PROVE NInv /\ Source
  OBVIOUS
<1>1. \A n \in Nodes, i \in 1 .. 15 : ~Past(n, i)
  BY DEF Init, NoRun, Past
<1>2. \A n \in Nodes : /\ play.facts[n] = Nothing /\ disk[n].key = Nothing
                       /\ loaded[n].slurmctld = Unknown
  BY DEF Init, NoRun, Unknown, Blank, Boot
<1>3. disk[Controller].key = Nothing
  BY <1>2, PlaybookAssumption
<1> QED BY <1>1, <1>2, <1>3 DEF NInv, Good, Source, Known, Prepared, Configured, Keyed, Foreign, Nothing

\* What holds of a host goes on to hold when nothing of it changes.
LEMMA Bystander ==
  ASSUME NInv, NEW m \in Nodes,
         addr' = addr, disk'[m] = disk[m], loaded'[m] = loaded[m],
         play'.facts[m] = play.facts[m], m \in play.swapping => m \in play'.swapping,
         play.failed \subseteq play'.failed,
         \A i \in 1 .. 15 : i \notin Own \/ m = Controller => (Past(m, i)' => Past(m, i)),
         Past(m, At_copy) => disk'[Controller].key = disk[Controller].key,
         Running' /\ m = Controller /\ Past(m, At_fetch) => Running /\ control' = control
  PROVE  Good(m)'
<1>1. \A i \in 1 .. 15 \ {8, 9, 13} : Past(m, i)' => Past(m, i)
  BY DEF Own
<1>2. m = Controller => \A i \in 1 .. 15 : Past(m, i)' => Past(m, i)
  OBVIOUS
<1>3. Known(m)' /\ Prepared(m)' /\ Configured(m)'
  BY <1>1, <1>2 DEF NInv, Good, Known, Prepared, Configured, Unknown
<1>4. Keyed(m)'
  BY <1>1, <1>2 DEF NInv, Good, Keyed
<1> QED BY <1>3, <1>4 DEF Good

\* The host n does the p-th task of the run.
DoesIt(n, p) ==
    /\ Running /\ Running' /\ addr' = addr
    /\ n \in play.todo /\ play.step = p
    /\ play'.step = p /\ play'.todo = play.todo \ {n} /\ play'.failed = play.failed

LEMMA Doer ==
  ASSUME TInv, NEW n \in Nodes, NEW p \in 1 .. 15, DoesIt(n, p)
  PROVE  /\ \A i \in 1 .. 15 : /\ Past(n, i)' <=> i <= p
                               /\ Past(n, i) <=> i < p
         /\ \A m \in Nodes \ {n}, i \in 1 .. 15 : Past(m, i)' <=> Past(m, i)
         /\ \A m \in Nodes, i \in 1 .. 15 : i < p /\ m \notin play.failed => Past(m, i)
         /\ \A m \in Nodes, i \in 1 .. 15 : i > p => ~Past(m, i)
<1>1. \A m \in Nodes, i \in 1 .. 15 : /\ i < p /\ m \notin play.failed => Past(m, i)
                                      /\ i > p => ~Past(m, i)
  BY DEF Past, DoesIt
<1>2. \A m \in Nodes, i \in 1 .. 15 : Past(m, i)' <=> Past(m, i) \/ (m = n /\ i = p)
  BY PastDone DEF DoesIt
<1>3. \A i \in 1 .. 15 : Past(n, i) <=> i < p
  BY PastDone DEF DoesIt
<1>4. \A i \in 1 .. 15 : Past(n, i)' <=> i <= p
  BY <1>2, <1>3
<1> QED BY <1>1, <1>2, <1>3, <1>4

\* The hosts that have a task of the controller to do.
OwnTodo == play.step \in Own => play.todo \subseteq {Controller}

LEMMA OnOthers ==
  ASSUME TInv, NInv, OwnTodo, NEW n \in Nodes, NEW p \in 1 .. 15, DoesIt(n, p),
         play.swapping \subseteq play'.swapping,
         \A m \in Nodes \ {n} : /\ disk'[m] = disk[m] /\ loaded'[m] = loaded[m]
                                /\ play'.facts[m] = play.facts[m],
         \/ n # Controller \/ disk'[n].key = disk[n].key \/ p < At_copy
         \/ p = At_copy /\ disk'[n].key = control,
         control' = control \/ p = At_fetch
  PROVE  /\ \A m \in Nodes \ {n} : Good(m)'
         /\ OwnTodo'
         /\ p \in Own => n = Controller
<1>1. p \in Own => n = Controller
  BY DEF OwnTodo, DoesIt
<1>2. OwnTodo'
  BY DEF OwnTodo, DoesIt
<1>3. ASSUME NEW m \in Nodes \ {n}
      PROVE  Good(m)'
  <2>1. \A i \in 1 .. 15 : Past(m, i)' => Past(m, i)
    BY <1>3, Doer
  <2>2. Past(m, At_copy) => disk'[Controller].key = disk[Controller].key
    <3> SUFFICES ASSUME Past(m, At_copy), n = Controller PROVE disk'[n].key = disk[n].key
      BY <1>3, PlaybookAssumption
    <3>1. p >= 10
      BY Doer
    <3>2. CASE p = 10 /\ disk'[n].key = control
      <4>1. Past(n, 9) /\ Running
        BY <3>2, Doer DEF DoesIt
      <4> QED BY <3>2, <4>1 DEF NInv, Good, Keyed
    <3> QED BY <3>1, <3>2
  <2>3. m = Controller => control' = control
    BY <1>1, <1>3 DEF Own
  <2>4. Running /\ addr' = addr /\ play'.failed = play.failed
    BY DEF DoesIt
  <2> QED BY <1>3, <2>1, <2>2, <2>3, <2>4, Bystander
<1> QED BY <1>1, <1>2, <1>3

\* Every task takes its host one task further and leaves the others as they are.
LEMMA TaskInv ==
    TInv /\ NInv /\ OwnTodo /\ Source /\ (\E n \in Nodes : Host(n)) =>
      NInv' /\ OwnTodo' /\ Source'
<1> SUFFICES ASSUME TInv, NInv, OwnTodo, Source, NEW n \in Nodes, Host(n)
             PROVE  NInv' /\ OwnTodo' /\ Source'
  OBVIOUS
<1> USE PlaybookAssumption
<1>a. Good(n)
  BY DEF NInv
<1>b. ASSUME \A m \in Nodes \ {n} : Good(m)', Good(n)'
      PROVE NInv'
  BY <1>b DEF NInv
<1>t. /\ disk \in [Nodes -> Disks] /\ loaded \in [Nodes -> Daemons] /\ play \in Plays
      /\ disk[n] \in Disks /\ loaded[n] \in Daemons /\ play.facts \in Addresses
  BY DEF TInv, Plays
<1>1. CASE GatherFacts(n)
  <2>1. Does(n, "facts")
    BY <1>1 DEF GatherFacts
  <2>2. DoesIt(n, 1)
    <3>1. play.step = 1 /\ n \in play.todo
      BY <2>1, Places, DoesAt
    <3>2. play'.step = 1 /\ play'.todo = play.todo \ {n} /\ play'.failed = play.failed
      BY <1>1, FactsPlay, <3>1
    <3> QED BY <2>1, <3>1, <3>2 DEF DoesIt, Does, Running, Ended
  <2>3. disk' = disk /\ loaded' = loaded /\ control' = control
    BY <1>1, <1>t DEF GatherFacts, Write, Disks, Daemons
  <2>4. \A m \in Nodes \ {n} : disk'[m] = disk[m] /\ loaded'[m] = loaded[m]
    BY <1>1, <1>t DEF GatherFacts, Write
  <2>5. /\ \A m \in Nodes \ {n} : play'.facts[m] = play.facts[m]
        /\ play'.facts[n] = addr[n] /\ play.swapping \subseteq play'.swapping
        /\ loaded[n].swap = FALSE \/ n \in play'.swapping
    <3>1. loaded[n].swap \in BOOLEAN
      BY <1>t DEF Daemons
    <3>2. CASE loaded[n].swap
      <4>1. play'.swapping = play.swapping \cup {n}
        BY <1>1, <3>2, FactsPlay
      <4>2. play'.facts = [play.facts EXCEPT ![n] = addr[n]]
        BY <1>1, FactsPlay
      <4> QED BY <4>1, <4>2, <1>t DEF Addresses
    <3>3. CASE ~loaded[n].swap
      BY <1>1, <3>1, <3>3, <1>t, FactsPlay DEF Addresses
    <3> QED BY <3>2, <3>3
  <2>6. /\ \A m \in Nodes \ {n} : Good(m)'
        /\ OwnTodo'
        /\ 1 \in Own => n = Controller
    <3>1. \/ n # Controller \/ disk'[n].key = disk[n].key \/ 1 < At_copy
          \/ 1 = At_copy /\ disk'[n].key = control
      BY <2>3, <1>t DEF Disks
    <3>2. 1 \in 1 .. 15 /\ (control' = control \/ 1 = At_fetch)
      BY <2>3
    <3>3. play.swapping \subseteq play'.swapping
      BY <2>5
    <3>4. \A m \in Nodes \ {n} : play'.facts[m] = play.facts[m]
      BY <2>5
    <3> QED BY <2>2, <2>4, <3>1, <3>2, <3>3, <3>4, OnOthers
  <2>7. /\ \A i \in 1 .. 15 : (Past(n, i)' <=> i <= 1) /\ (Past(n, i) <=> i < 1)
        /\ \A m \in Nodes, i \in 1 .. 15 : i < 1 /\ m \notin play.failed => Past(m, i)
    BY <2>2, Doer
  <2>9. Good(n)'
    <3>1. Known(n)'
      BY <2>2, <2>5, <1>a DEF Good, Known, DoesIt
    <3>2. Prepared(n)'
      BY <2>2, <2>3, <2>5, <2>7, <1>a, <1>t DEF Good, Prepared, Disks, Daemons, Nothing, DoesIt
    <3>3. Configured(n)'
      BY <2>2, <2>3, <2>6, <2>7, <1>a, <1>t DEF Good, Configured, Disks, Daemons, DoesIt, Own
    <3>4. Keyed(n)'
      BY <2>2, <2>3, <2>4, <2>6, <2>7, <1>a, <1>t
         DEF Good, Keyed, Disks, Daemons, Own, Nothing, DoesIt
    <3> QED BY <3>1, <3>2, <3>3, <3>4 DEF Good
  <2>10. Source'
    BY <2>3, <2>4, <2>6, <1>t DEF Source, Disks, Own, Nothing
  <2> QED BY <2>6, <2>9, <2>10, <1>b
<1>2. CASE SwapOff(n)
  <2>1. Does(n, "swapoff") /\ Done(n)
    BY <1>2 DEF SwapOff
  <2>2. DoesIt(n, 2)
    <3>1. play.step = 2 /\ n \in play.todo
      BY <2>1, Places, DoesAt
    <3>2. play'.step = 2 /\ play'.todo = play.todo \ {n} /\ play'.failed = play.failed
      BY <2>1, DonePlay, <3>1
    <3> QED BY <2>1, <3>1, <3>2 DEF DoesIt, Does, Running, Ended
  <2>3. /\ disk' = disk /\ control' = control
        /\ loaded'[n].swap = (IF n \in play.swapping THEN FALSE ELSE loaded[n].swap)
        /\ loaded'[n].modules = loaded[n].modules /\ loaded'[n].munge = loaded[n].munge
        /\ loaded'[n].slurmctld = loaded[n].slurmctld /\ loaded'[n].slurmd = loaded[n].slurmd
    BY <1>2, <1>t DEF SwapOff, Write, Disks, Daemons
  <2>4. \A m \in Nodes \ {n} : disk'[m] = disk[m] /\ loaded'[m] = loaded[m]
    BY <1>2, <1>t DEF SwapOff, Write
  <2>5. play'.facts = play.facts /\ play'.swapping = play.swapping
    BY <2>1, DonePlay
  <2>6. /\ \A m \in Nodes \ {n} : Good(m)'
        /\ OwnTodo'
        /\ 2 \in Own => n = Controller
    <3>1. \/ n # Controller \/ disk'[n].key = disk[n].key \/ 2 < At_copy
          \/ 2 = At_copy /\ disk'[n].key = control
      BY <2>3, <1>t DEF Disks
    <3>2. 2 \in 1 .. 15 /\ (control' = control \/ 2 = At_fetch)
      BY <2>3
    <3>3. play.swapping \subseteq play'.swapping
      BY <2>5
    <3>4. \A m \in Nodes \ {n} : play'.facts[m] = play.facts[m]
      BY <2>5
    <3> QED BY <2>2, <2>4, <3>1, <3>2, <3>3, <3>4, OnOthers
  <2>7. /\ \A i \in 1 .. 15 : (Past(n, i)' <=> i <= 2) /\ (Past(n, i) <=> i < 2)
        /\ \A m \in Nodes, i \in 1 .. 15 : i < 2 /\ m \notin play.failed => Past(m, i)
    BY <2>2, Doer
  <2>9. Good(n)'
    <3>1. Known(n)'
      BY <2>2, <2>5, <1>a DEF Good, Known, DoesIt
    <3>2. Prepared(n)'
      BY <2>2, <2>3, <2>5, <2>7, <1>a, <1>t DEF Good, Prepared, Disks, Daemons, Nothing, DoesIt
    <3>3. Configured(n)'
      BY <2>2, <2>3, <2>6, <2>7, <1>a, <1>t DEF Good, Configured, Disks, Daemons, DoesIt, Own
    <3>4. Keyed(n)'
      BY <2>2, <2>3, <2>4, <2>6, <2>7, <1>a, <1>t
         DEF Good, Keyed, Disks, Daemons, Own, Nothing, DoesIt
    <3> QED BY <3>1, <3>2, <3>3, <3>4 DEF Good
  <2>10. Source'
    BY <2>3, <2>4, <2>6, <1>t DEF Source, Disks, Own, Nothing
  <2> QED BY <2>6, <2>9, <2>10, <1>b
<1>3. CASE RemoveSwap(n)
  <2>1. Does(n, "fstab") /\ Done(n)
    BY <1>3 DEF RemoveSwap
  <2>2. DoesIt(n, 3)
    <3>1. play.step = 3 /\ n \in play.todo
      BY <2>1, Places, DoesAt
    <3>2. play'.step = 3 /\ play'.todo = play.todo \ {n} /\ play'.failed = play.failed
      BY <2>1, DonePlay, <3>1
    <3> QED BY <2>1, <3>1, <3>2 DEF DoesIt, Does, Running, Ended
  <2>3. disk'[n] = [disk[n] EXCEPT !.swap = FALSE] /\ loaded' = loaded /\ control' = control
    BY <1>3, <1>t DEF RemoveSwap, Write, Disks, Daemons
  <2>4. \A m \in Nodes \ {n} : disk'[m] = disk[m] /\ loaded'[m] = loaded[m]
    BY <1>3, <1>t DEF RemoveSwap, Write
  <2>5. play'.facts = play.facts /\ play'.swapping = play.swapping
    BY <2>1, DonePlay
  <2>6. /\ \A m \in Nodes \ {n} : Good(m)'
        /\ OwnTodo'
        /\ 3 \in Own => n = Controller
    <3>1. \/ n # Controller \/ disk'[n].key = disk[n].key \/ 3 < At_copy
          \/ 3 = At_copy /\ disk'[n].key = control
      BY <2>3, <1>t DEF Disks
    <3>2. 3 \in 1 .. 15 /\ (control' = control \/ 3 = At_fetch)
      BY <2>3
    <3>3. play.swapping \subseteq play'.swapping
      BY <2>5
    <3>4. \A m \in Nodes \ {n} : play'.facts[m] = play.facts[m]
      BY <2>5
    <3> QED BY <2>2, <2>4, <3>1, <3>2, <3>3, <3>4, OnOthers
  <2>7. /\ \A i \in 1 .. 15 : (Past(n, i)' <=> i <= 3) /\ (Past(n, i) <=> i < 3)
        /\ \A m \in Nodes, i \in 1 .. 15 : i < 3 /\ m \notin play.failed => Past(m, i)
    BY <2>2, Doer
  <2>9. Good(n)'
    <3>1. Known(n)'
      BY <2>2, <2>5, <1>a DEF Good, Known, DoesIt
    <3>2. Prepared(n)'
      BY <2>2, <2>3, <2>5, <2>7, <1>a, <1>t DEF Good, Prepared, Disks, Daemons, Nothing, DoesIt
    <3>3. Configured(n)'
      BY <2>2, <2>3, <2>6, <2>7, <1>a, <1>t DEF Good, Configured, Disks, Daemons, DoesIt, Own
    <3>4. Keyed(n)'
      BY <2>2, <2>3, <2>4, <2>6, <2>7, <1>a, <1>t
         DEF Good, Keyed, Disks, Daemons, Own, Nothing, DoesIt
    <3> QED BY <3>1, <3>2, <3>3, <3>4 DEF Good
  <2>10. Source'
    <3>1. \A m \in Nodes : disk'[m].key = disk[m].key
      BY <2>3, <2>4, <1>t DEF Disks
    <3> QED BY <2>3, <3>1 DEF Source
  <2> QED BY <2>6, <2>9, <2>10, <1>b
<1>4. CASE InstallPackages(n)
  <2>1. Does(n, "packages") /\ Done(n)
    BY <1>4 DEF InstallPackages
  <2>2. DoesIt(n, 4)
    <3>1. play.step = 4 /\ n \in play.todo
      BY <2>1, Places, DoesAt
    <3>2. play'.step = 4 /\ play'.todo = play.todo \ {n} /\ play'.failed = play.failed
      BY <2>1, DonePlay, <3>1
    <3> QED BY <2>1, <3>1, <3>2 DEF DoesIt, Does, Running, Ended
  <2>3. /\ disk'[n].installed = TRUE /\ control' = control
        /\ disk'[n].swap = disk[n].swap /\ disk'[n].modules = disk[n].modules
        /\ disk'[n].conf = disk[n].conf /\ loaded'[n].swap = loaded[n].swap
        /\ loaded'[n].modules = loaded[n].modules
        /\ loaded'[n].slurmctld = loaded[n].slurmctld /\ loaded'[n].slurmd = loaded[n].slurmd
        /\ disk'[n].key \in {disk[n].key, keys + 1}
    <3>1. CASE UNCHANGED <<loaded, keys>> /\ Write(n, [disk[n] EXCEPT !.installed = TRUE])
      <4>1. disk'[n] = [disk[n] EXCEPT !.installed = TRUE] /\ loaded' = loaded /\ control' = control
        BY <1>4, <3>1, <1>t DEF InstallPackages, Write
      <4> QED BY <4>1, <1>t DEF Disks
    <3>2. CASE /\ Write(n, [disk[n] EXCEPT !.installed = TRUE, !.key = keys'])
               /\ keys' = keys + 1 /\ loaded' = [loaded EXCEPT ![n].munge = keys']
      <4>1. disk'[n] = [disk[n] EXCEPT !.installed = TRUE, !.key = keys + 1]
        BY <3>2, <1>t DEF Write
      <4>2. loaded'[n] = [loaded[n] EXCEPT !.munge = keys + 1] /\ control' = control
        BY <1>4, <3>2, <1>t DEF InstallPackages
      <4> QED BY <4>1, <4>2, <1>t DEF Disks, Daemons
    <3> QED BY <1>4, <3>1, <3>2 DEF InstallPackages
  <2>4. \A m \in Nodes \ {n} : disk'[m] = disk[m] /\ loaded'[m] = loaded[m]
    BY <1>4, <1>t DEF InstallPackages, Write
  <2>5. play'.facts = play.facts /\ play'.swapping = play.swapping
    BY <2>1, DonePlay
  <2>6. /\ \A m \in Nodes \ {n} : Good(m)'
        /\ OwnTodo'
        /\ 4 \in Own => n = Controller
    <3>1. \/ n # Controller \/ disk'[n].key = disk[n].key \/ 4 < At_copy
          \/ 4 = At_copy /\ disk'[n].key = control
      BY <2>3, <1>t DEF Disks
    <3>2. 4 \in 1 .. 15 /\ (control' = control \/ 4 = At_fetch)
      BY <2>3
    <3>3. play.swapping \subseteq play'.swapping
      BY <2>5
    <3>4. \A m \in Nodes \ {n} : play'.facts[m] = play.facts[m]
      BY <2>5
    <3> QED BY <2>2, <2>4, <3>1, <3>2, <3>3, <3>4, OnOthers
  <2>7. /\ \A i \in 1 .. 15 : (Past(n, i)' <=> i <= 4) /\ (Past(n, i) <=> i < 4)
        /\ \A m \in Nodes, i \in 1 .. 15 : i < 4 /\ m \notin play.failed => Past(m, i)
    BY <2>2, Doer
  <2>8. keys \in Nat /\ control \in Foreign .. keys /\ \A m \in Nodes : disk[m].key \in Foreign .. keys
    BY DEF TInv, Disks, Keys
  <2>9. Good(n)'
    <3>1. Known(n)'
      BY <2>2, <2>5, <1>a DEF Good, Known, DoesIt
    <3>2. Prepared(n)'
      BY <2>2, <2>3, <2>5, <2>7, <1>a, <1>t, <2>8 DEF Good, Prepared, Disks, Daemons, Nothing, DoesIt
    <3>3. Configured(n)'
      BY <2>2, <2>3, <2>6, <2>7, <1>a, <1>t, <2>8 DEF Good, Configured, Disks, Daemons, DoesIt, Own
    <3>4. Keyed(n)'
      BY <2>2, <2>3, <2>4, <2>6, <2>7, <1>a, <1>t, <2>8
         DEF Good, Keyed, Disks, Daemons, Own, Nothing, DoesIt
    <3> QED BY <3>1, <3>2, <3>3, <3>4 DEF Good
  <2>10. Source'
    <3>1. /\ \A m \in Nodes \ {n} : disk'[m].key = disk[m].key
          /\ disk'[n].key \in {disk[n].key, keys + 1} /\ control' = control
      BY <2>3, <2>4
    <3>2. CASE n = Controller
      BY <2>8, <3>1, <3>2 DEF Source, Nothing
    <3>3. CASE n # Controller
      BY <2>8, <3>1, <3>3 DEF Source, Nothing
    <3> QED BY <3>2, <3>3
  <2> QED BY <2>6, <2>9, <2>10, <1>b
<1>5. CASE LoadModules(n)
  <2>1. Does(n, "modprobe") /\ Done(n)
    BY <1>5 DEF LoadModules
  <2>2. DoesIt(n, 5)
    <3>1. play.step = 5 /\ n \in play.todo
      BY <2>1, Places, DoesAt
    <3>2. play'.step = 5 /\ play'.todo = play.todo \ {n} /\ play'.failed = play.failed
      BY <2>1, DonePlay, <3>1
    <3> QED BY <2>1, <3>1, <3>2 DEF DoesIt, Does, Running, Ended
  <2>3. disk' = disk /\ loaded'[n] = [loaded[n] EXCEPT !.modules = TRUE] /\ control' = control
    BY <1>5, <1>t DEF LoadModules, Write, Disks, Daemons
  <2>4. \A m \in Nodes \ {n} : disk'[m] = disk[m] /\ loaded'[m] = loaded[m]
    BY <1>5, <1>t DEF LoadModules, Write
  <2>5. play'.facts = play.facts /\ play'.swapping = play.swapping
    BY <2>1, DonePlay
  <2>6. /\ \A m \in Nodes \ {n} : Good(m)'
        /\ OwnTodo'
        /\ 5 \in Own => n = Controller
    <3>1. \/ n # Controller \/ disk'[n].key = disk[n].key \/ 5 < At_copy
          \/ 5 = At_copy /\ disk'[n].key = control
      BY <2>3, <1>t DEF Disks
    <3>2. 5 \in 1 .. 15 /\ (control' = control \/ 5 = At_fetch)
      BY <2>3
    <3>3. play.swapping \subseteq play'.swapping
      BY <2>5
    <3>4. \A m \in Nodes \ {n} : play'.facts[m] = play.facts[m]
      BY <2>5
    <3> QED BY <2>2, <2>4, <3>1, <3>2, <3>3, <3>4, OnOthers
  <2>7. /\ \A i \in 1 .. 15 : (Past(n, i)' <=> i <= 5) /\ (Past(n, i) <=> i < 5)
        /\ \A m \in Nodes, i \in 1 .. 15 : i < 5 /\ m \notin play.failed => Past(m, i)
    BY <2>2, Doer
  <2>9. Good(n)'
    <3>1. Known(n)'
      BY <2>2, <2>5, <1>a DEF Good, Known, DoesIt
    <3>2. Prepared(n)'
      BY <2>2, <2>3, <2>5, <2>7, <1>a, <1>t DEF Good, Prepared, Disks, Daemons, Nothing, DoesIt
    <3>3. Configured(n)'
      BY <2>2, <2>3, <2>6, <2>7, <1>a, <1>t DEF Good, Configured, Disks, Daemons, DoesIt, Own
    <3>4. Keyed(n)'
      BY <2>2, <2>3, <2>4, <2>6, <2>7, <1>a, <1>t
         DEF Good, Keyed, Disks, Daemons, Own, Nothing, DoesIt
    <3> QED BY <3>1, <3>2, <3>3, <3>4 DEF Good
  <2>10. Source'
    BY <2>3, <2>4, <2>6, <1>t DEF Source, Disks, Own, Nothing
  <2> QED BY <2>6, <2>9, <2>10, <1>b
<1>6. CASE PersistModules(n)
  <2>1. Does(n, "persist") /\ Done(n)
    BY <1>6 DEF PersistModules
  <2>2. DoesIt(n, 6)
    <3>1. play.step = 6 /\ n \in play.todo
      BY <2>1, Places, DoesAt
    <3>2. play'.step = 6 /\ play'.todo = play.todo \ {n} /\ play'.failed = play.failed
      BY <2>1, DonePlay, <3>1
    <3> QED BY <2>1, <3>1, <3>2 DEF DoesIt, Does, Running, Ended
  <2>3. disk'[n] = [disk[n] EXCEPT !.modules = TRUE] /\ loaded' = loaded /\ control' = control
    BY <1>6, <1>t DEF PersistModules, Write, Disks, Daemons
  <2>4. \A m \in Nodes \ {n} : disk'[m] = disk[m] /\ loaded'[m] = loaded[m]
    BY <1>6, <1>t DEF PersistModules, Write
  <2>5. play'.facts = play.facts /\ play'.swapping = play.swapping
    BY <2>1, DonePlay
  <2>6. /\ \A m \in Nodes \ {n} : Good(m)'
        /\ OwnTodo'
        /\ 6 \in Own => n = Controller
    <3>1. \/ n # Controller \/ disk'[n].key = disk[n].key \/ 6 < At_copy
          \/ 6 = At_copy /\ disk'[n].key = control
      BY <2>3, <1>t DEF Disks
    <3>2. 6 \in 1 .. 15 /\ (control' = control \/ 6 = At_fetch)
      BY <2>3
    <3>3. play.swapping \subseteq play'.swapping
      BY <2>5
    <3>4. \A m \in Nodes \ {n} : play'.facts[m] = play.facts[m]
      BY <2>5
    <3> QED BY <2>2, <2>4, <3>1, <3>2, <3>3, <3>4, OnOthers
  <2>7. /\ \A i \in 1 .. 15 : (Past(n, i)' <=> i <= 6) /\ (Past(n, i) <=> i < 6)
        /\ \A m \in Nodes, i \in 1 .. 15 : i < 6 /\ m \notin play.failed => Past(m, i)
    BY <2>2, Doer
  <2>9. Good(n)'
    <3>1. Known(n)'
      BY <2>2, <2>5, <1>a DEF Good, Known, DoesIt
    <3>2. Prepared(n)'
      BY <2>2, <2>3, <2>5, <2>7, <1>a, <1>t DEF Good, Prepared, Disks, Daemons, Nothing, DoesIt
    <3>3. Configured(n)'
      BY <2>2, <2>3, <2>6, <2>7, <1>a, <1>t DEF Good, Configured, Disks, Daemons, DoesIt, Own
    <3>4. Keyed(n)'
      BY <2>2, <2>3, <2>4, <2>6, <2>7, <1>a, <1>t
         DEF Good, Keyed, Disks, Daemons, Own, Nothing, DoesIt
    <3> QED BY <3>1, <3>2, <3>3, <3>4 DEF Good
  <2>10. Source'
    <3>1. \A m \in Nodes : disk'[m].key = disk[m].key
      BY <2>3, <2>4, <1>t DEF Disks
    <3> QED BY <2>3, <3>1 DEF Source
  <2> QED BY <2>6, <2>9, <2>10, <1>b
<1>7. CASE AddNodes(n)
  <2>1. Does(n, "nodes") /\ Done(n)
    BY <1>7 DEF AddNodes
  <2>2. DoesIt(n, 7)
    <3>1. play.step = 7 /\ n \in play.todo
      BY <2>1, Places, DoesAt
    <3>2. play'.step = 7 /\ play'.todo = play.todo \ {n} /\ play'.failed = play.failed
      BY <2>1, DonePlay, <3>1
    <3> QED BY <2>1, <3>1, <3>2 DEF DoesIt, Does, Running, Ended
  <2>3. /\ disk'[n].installed = disk[n].installed /\ disk'[n].swap = disk[n].swap
        /\ disk'[n].modules = disk[n].modules /\ disk'[n].conf = disk[n].conf
        /\ disk'[n].key = disk[n].key /\ loaded' = loaded /\ control' = control
    BY <1>7, <1>t DEF AddNodes, Write, Disks, Daemons
  <2>4. \A m \in Nodes \ {n} : disk'[m] = disk[m] /\ loaded'[m] = loaded[m]
    BY <1>7, <1>t DEF AddNodes, Write
  <2>5. play'.facts = play.facts /\ play'.swapping = play.swapping
    BY <2>1, DonePlay
  <2>6. /\ \A m \in Nodes \ {n} : Good(m)'
        /\ OwnTodo'
        /\ 7 \in Own => n = Controller
    <3>1. \/ n # Controller \/ disk'[n].key = disk[n].key \/ 7 < At_copy
          \/ 7 = At_copy /\ disk'[n].key = control
      BY <2>3, <1>t DEF Disks
    <3>2. 7 \in 1 .. 15 /\ (control' = control \/ 7 = At_fetch)
      BY <2>3
    <3>3. play.swapping \subseteq play'.swapping
      BY <2>5
    <3>4. \A m \in Nodes \ {n} : play'.facts[m] = play.facts[m]
      BY <2>5
    <3> QED BY <2>2, <2>4, <3>1, <3>2, <3>3, <3>4, OnOthers
  <2>7. /\ \A i \in 1 .. 15 : (Past(n, i)' <=> i <= 7) /\ (Past(n, i) <=> i < 7)
        /\ \A m \in Nodes, i \in 1 .. 15 : i < 7 /\ m \notin play.failed => Past(m, i)
    BY <2>2, Doer
  <2>9. Good(n)'
    <3>1. Known(n)'
      BY <2>2, <2>5, <1>a DEF Good, Known, DoesIt
    <3>2. Prepared(n)'
      BY <2>2, <2>3, <2>5, <2>7, <1>a, <1>t DEF Good, Prepared, Disks, Daemons, Nothing, DoesIt
    <3>3. Configured(n)'
      BY <2>2, <2>3, <2>6, <2>7, <1>a, <1>t DEF Good, Configured, Disks, Daemons, DoesIt, Own
    <3>4. Keyed(n)'
      BY <2>2, <2>3, <2>4, <2>6, <2>7, <1>a, <1>t
         DEF Good, Keyed, Disks, Daemons, Own, Nothing, DoesIt
    <3> QED BY <3>1, <3>2, <3>3, <3>4 DEF Good
  <2>10. Source'
    <3>1. \A m \in Nodes : disk'[m].key = disk[m].key
      BY <2>3, <2>4, <1>t DEF Disks
    <3> QED BY <2>3, <3>1 DEF Source
  <2> QED BY <2>6, <2>9, <2>10, <1>b
<1>8. CASE GenerateKey(n)
  <2>1. Does(n, "generate") /\ Done(n)
    BY <1>8 DEF GenerateKey
  <2>2. DoesIt(n, 8)
    <3>1. play.step = 8 /\ n \in play.todo
      BY <2>1, Places, DoesAt
    <3>2. play'.step = 8 /\ play'.todo = play.todo \ {n} /\ play'.failed = play.failed
      BY <2>1, DonePlay, <3>1
    <3> QED BY <2>1, <3>1, <3>2 DEF DoesIt, Does, Running, Ended
  <2>3. /\ disk'[n].installed = disk[n].installed /\ disk'[n].swap = disk[n].swap
        /\ disk'[n].modules = disk[n].modules /\ disk'[n].conf = disk[n].conf
        /\ disk'[n].key = (IF disk[n].key = Nothing THEN keys + 1 ELSE disk[n].key)
        /\ loaded' = loaded /\ control' = control
    BY <1>8, <1>t DEF GenerateKey, Write, Disks, Daemons
  <2>4. \A m \in Nodes \ {n} : disk'[m] = disk[m] /\ loaded'[m] = loaded[m]
    BY <1>8, <1>t DEF GenerateKey, Write
  <2>5. play'.facts = play.facts /\ play'.swapping = play.swapping
    BY <2>1, DonePlay
  <2>6. /\ \A m \in Nodes \ {n} : Good(m)'
        /\ OwnTodo'
        /\ 8 \in Own => n = Controller
    <3>1. \/ n # Controller \/ disk'[n].key = disk[n].key \/ 8 < At_copy
          \/ 8 = At_copy /\ disk'[n].key = control
      BY <2>3, <1>t DEF Disks
    <3>2. 8 \in 1 .. 15 /\ (control' = control \/ 8 = At_fetch)
      BY <2>3
    <3>3. play.swapping \subseteq play'.swapping
      BY <2>5
    <3>4. \A m \in Nodes \ {n} : play'.facts[m] = play.facts[m]
      BY <2>5
    <3> QED BY <2>2, <2>4, <3>1, <3>2, <3>3, <3>4, OnOthers
  <2>7. /\ \A i \in 1 .. 15 : (Past(n, i)' <=> i <= 8) /\ (Past(n, i) <=> i < 8)
        /\ \A m \in Nodes, i \in 1 .. 15 : i < 8 /\ m \notin play.failed => Past(m, i)
    BY <2>2, Doer
  <2>8. keys \in Nat /\ control \in Foreign .. keys /\ \A m \in Nodes : disk[m].key \in Foreign .. keys
    BY DEF TInv, Disks, Keys
  <2>9. Good(n)'
    <3>1. Known(n)'
      BY <2>2, <2>5, <1>a DEF Good, Known, DoesIt
    <3>2. Prepared(n)'
      BY <2>2, <2>3, <2>5, <2>7, <1>a, <1>t, <2>8 DEF Good, Prepared, Disks, Daemons, Nothing, DoesIt
    <3>3. Configured(n)'
      BY <2>2, <2>3, <2>6, <2>7, <1>a, <1>t, <2>8 DEF Good, Configured, Disks, Daemons, DoesIt, Own
    <3>4. Keyed(n)'
      BY <2>2, <2>3, <2>4, <2>6, <2>7, <1>a, <1>t, <2>8
         DEF Good, Keyed, Disks, Daemons, Own, Nothing, DoesIt
    <3> QED BY <3>1, <3>2, <3>3, <3>4 DEF Good
  <2>10. Source'
    <3>1. /\ \A m \in Nodes \ {n} : disk'[m].key = disk[m].key
          /\ disk'[n].key \in {disk[n].key, keys + 1} /\ control' = control
      BY <2>3, <2>4
    <3>2. CASE n = Controller
      BY <2>8, <3>1, <3>2 DEF Source, Nothing
    <3>3. CASE n # Controller
      BY <2>8, <3>1, <3>3 DEF Source, Nothing
    <3> QED BY <3>2, <3>3
  <2> QED BY <2>6, <2>9, <2>10, <1>b
<1>9. CASE FetchKey(n)
  <2>1. Does(n, "fetch") /\ Done(n)
    BY <1>9 DEF FetchKey
  <2>2. DoesIt(n, 9)
    <3>1. play.step = 9 /\ n \in play.todo
      BY <2>1, Places, DoesAt
    <3>2. play'.step = 9 /\ play'.todo = play.todo \ {n} /\ play'.failed = play.failed
      BY <2>1, DonePlay, <3>1
    <3> QED BY <2>1, <3>1, <3>2 DEF DoesIt, Does, Running, Ended
  <2>3. disk' = disk /\ loaded' = loaded /\ control' = disk[n].key
    BY <1>9, <1>t DEF FetchKey, Write, Disks, Daemons
  <2>4. \A m \in Nodes \ {n} : disk'[m] = disk[m] /\ loaded'[m] = loaded[m]
    BY <1>9, <1>t DEF FetchKey, Write
  <2>5. play'.facts = play.facts /\ play'.swapping = play.swapping
    BY <2>1, DonePlay
  <2>6. /\ \A m \in Nodes \ {n} : Good(m)'
        /\ OwnTodo'
        /\ 9 \in Own => n = Controller
    <3>1. \/ n # Controller \/ disk'[n].key = disk[n].key \/ 9 < At_copy
          \/ 9 = At_copy /\ disk'[n].key = control
      BY <2>3, <1>t DEF Disks
    <3>2. 9 \in 1 .. 15 /\ (control' = control \/ 9 = At_fetch)
      BY <2>3
    <3>3. play.swapping \subseteq play'.swapping
      BY <2>5
    <3>4. \A m \in Nodes \ {n} : play'.facts[m] = play.facts[m]
      BY <2>5
    <3> QED BY <2>2, <2>4, <3>1, <3>2, <3>3, <3>4, OnOthers
  <2>7. /\ \A i \in 1 .. 15 : (Past(n, i)' <=> i <= 9) /\ (Past(n, i) <=> i < 9)
        /\ \A m \in Nodes, i \in 1 .. 15 : i < 9 /\ m \notin play.failed => Past(m, i)
    BY <2>2, Doer
  <2>9. Good(n)'
    <3>1. Known(n)'
      BY <2>2, <2>5, <1>a DEF Good, Known, DoesIt
    <3>2. Prepared(n)'
      BY <2>2, <2>3, <2>5, <2>7, <1>a, <1>t DEF Good, Prepared, Disks, Daemons, Nothing, DoesIt
    <3>3. Configured(n)'
      BY <2>2, <2>3, <2>6, <2>7, <1>a, <1>t DEF Good, Configured, Disks, Daemons, DoesIt, Own
    <3>4. Keyed(n)'
      BY <2>2, <2>3, <2>4, <2>6, <2>7, <1>a, <1>t
         DEF Good, Keyed, Disks, Daemons, Own, Nothing, DoesIt
    <3> QED BY <3>1, <3>2, <3>3, <3>4 DEF Good
  <2>10. Source'
    BY <2>3, <2>4, <2>6, <1>t DEF Source, Disks, Own, Nothing
  <2> QED BY <2>6, <2>9, <2>10, <1>b
<1>10. CASE CopyKey(n)
  <2>1. Does(n, "copy") /\ Done(n)
    BY <1>10 DEF CopyKey
  <2>2. DoesIt(n, 10)
    <3>1. play.step = 10 /\ n \in play.todo
      BY <2>1, Places, DoesAt
    <3>2. play'.step = 10 /\ play'.todo = play.todo \ {n} /\ play'.failed = play.failed
      BY <2>1, DonePlay, <3>1
    <3> QED BY <2>1, <3>1, <3>2 DEF DoesIt, Does, Running, Ended
  <2>3. disk'[n] = [disk[n] EXCEPT !.key = control] /\ loaded' = loaded /\ control' = control /\ control # Nothing
    BY <1>10, <1>t DEF CopyKey, Write, Disks, Daemons
  <2>4. \A m \in Nodes \ {n} : disk'[m] = disk[m] /\ loaded'[m] = loaded[m]
    BY <1>10, <1>t DEF CopyKey, Write
  <2>5. play'.facts = play.facts /\ play'.swapping = play.swapping
    BY <2>1, DonePlay
  <2>6. /\ \A m \in Nodes \ {n} : Good(m)'
        /\ OwnTodo'
        /\ 10 \in Own => n = Controller
    <3>1. \/ n # Controller \/ disk'[n].key = disk[n].key \/ 10 < At_copy
          \/ 10 = At_copy /\ disk'[n].key = control
      BY <2>3, <1>t DEF Disks
    <3>2. 10 \in 1 .. 15 /\ (control' = control \/ 10 = At_fetch)
      BY <2>3
    <3>3. play.swapping \subseteq play'.swapping
      BY <2>5
    <3>4. \A m \in Nodes \ {n} : play'.facts[m] = play.facts[m]
      BY <2>5
    <3> QED BY <2>2, <2>4, <3>1, <3>2, <3>3, <3>4, OnOthers
  <2>7. /\ \A i \in 1 .. 15 : (Past(n, i)' <=> i <= 10) /\ (Past(n, i) <=> i < 10)
        /\ \A m \in Nodes, i \in 1 .. 15 : i < 10 /\ m \notin play.failed => Past(m, i)
    BY <2>2, Doer
  <2>8. Controller \notin play.failed => control = disk[Controller].key
    <3> SUFFICES ASSUME Controller \notin play.failed PROVE control = disk[Controller].key
      OBVIOUS
    <3>1. Past(Controller, 9) /\ Running
      BY <2>2, <2>7 DEF DoesIt
    <3> QED BY <3>1 DEF NInv, Good, Keyed
  <2>9. Good(n)'
    <3>1. Known(n)'
      BY <2>2, <2>5, <1>a DEF Good, Known, DoesIt
    <3>2. Prepared(n)'
      BY <2>2, <2>3, <2>5, <2>7, <1>a, <1>t, <2>8 DEF Good, Prepared, Disks, Daemons, Nothing, DoesIt
    <3>3. Configured(n)'
      BY <2>2, <2>3, <2>6, <2>7, <1>a, <1>t, <2>8 DEF Good, Configured, Disks, Daemons, DoesIt, Own
    <3>4. Keyed(n)'
      <4>1. /\ disk'[n].key = control /\ loaded'[n].munge = loaded[n].munge
            /\ n # Controller => disk'[Controller].key = disk[Controller].key
            /\ play'.failed = play.failed /\ control' = control /\ n \notin play.failed /\ control # Nothing
        BY <2>1, <2>2, <2>3, <2>4, <1>t, DoesAt DEF Disks, DoesIt
      <4> QED BY <2>2, <2>8, <4>1, <2>7, <1>a DEF Good, Keyed, Nothing, DoesIt
    <3> QED BY <3>1, <3>2, <3>3, <3>4 DEF Good
  <2>10. Source'
    BY <2>3, <2>4, <2>6, <1>t, <2>8 DEF Source, Disks, Own, Nothing
  <2> QED BY <2>6, <2>9, <2>10, <1>b
<1>11. CASE RestartMunge(n)
  <2>1. Does(n, "munge") /\ Done(n)
    BY <1>11 DEF RestartMunge
  <2>2. DoesIt(n, 11)
    <3>1. play.step = 11 /\ n \in play.todo
      BY <2>1, Places, DoesAt
    <3>2. play'.step = 11 /\ play'.todo = play.todo \ {n} /\ play'.failed = play.failed
      BY <2>1, DonePlay, <3>1
    <3> QED BY <2>1, <3>1, <3>2 DEF DoesIt, Does, Running, Ended
  <2>3. disk' = disk /\ loaded'[n] = [loaded[n] EXCEPT !.munge = disk[n].key] /\ control' = control
    BY <1>11, <1>t DEF RestartMunge, Write, Disks, Daemons
  <2>4. \A m \in Nodes \ {n} : disk'[m] = disk[m] /\ loaded'[m] = loaded[m]
    BY <1>11, <1>t DEF RestartMunge, Write
  <2>5. play'.facts = play.facts /\ play'.swapping = play.swapping
    BY <2>1, DonePlay
  <2>6. /\ \A m \in Nodes \ {n} : Good(m)'
        /\ OwnTodo'
        /\ 11 \in Own => n = Controller
    <3>1. \/ n # Controller \/ disk'[n].key = disk[n].key \/ 11 < At_copy
          \/ 11 = At_copy /\ disk'[n].key = control
      BY <2>3, <1>t DEF Disks
    <3>2. 11 \in 1 .. 15 /\ (control' = control \/ 11 = At_fetch)
      BY <2>3
    <3>3. play.swapping \subseteq play'.swapping
      BY <2>5
    <3>4. \A m \in Nodes \ {n} : play'.facts[m] = play.facts[m]
      BY <2>5
    <3> QED BY <2>2, <2>4, <3>1, <3>2, <3>3, <3>4, OnOthers
  <2>7. /\ \A i \in 1 .. 15 : (Past(n, i)' <=> i <= 11) /\ (Past(n, i) <=> i < 11)
        /\ \A m \in Nodes, i \in 1 .. 15 : i < 11 /\ m \notin play.failed => Past(m, i)
    BY <2>2, Doer
  <2>9. Good(n)'
    <3>1. Known(n)'
      BY <2>2, <2>5, <1>a DEF Good, Known, DoesIt
    <3>2. Prepared(n)'
      BY <2>2, <2>3, <2>5, <2>7, <1>a, <1>t DEF Good, Prepared, Disks, Daemons, Nothing, DoesIt
    <3>3. Configured(n)'
      BY <2>2, <2>3, <2>6, <2>7, <1>a, <1>t DEF Good, Configured, Disks, Daemons, DoesIt, Own
    <3>4. Keyed(n)'
      BY <2>2, <2>3, <2>4, <2>6, <2>7, <1>a, <1>t
         DEF Good, Keyed, Disks, Daemons, Own, Nothing, DoesIt
    <3> QED BY <3>1, <3>2, <3>3, <3>4 DEF Good
  <2>10. Source'
    BY <2>3, <2>4, <2>6, <1>t DEF Source, Disks, Own, Nothing
  <2> QED BY <2>6, <2>9, <2>10, <1>b
<1>12. CASE DeployConf(n)
  <2>1. Does(n, "configure") /\ Done(n)
    BY <1>12 DEF DeployConf
  <2>2. DoesIt(n, 12)
    <3>1. play.step = 12 /\ n \in play.todo
      BY <2>1, Places, DoesAt
    <3>2. play'.step = 12 /\ play'.todo = play.todo \ {n} /\ play'.failed = play.failed
      BY <2>1, DonePlay, <3>1
    <3> QED BY <2>1, <3>1, <3>2 DEF DoesIt, Does, Running, Ended
  <2>3. /\ disk'[n] = [disk[n] EXCEPT !.conf = play.facts] /\ loaded' = loaded /\ control' = control
        /\ Nothing \notin {play.facts[m] : m \in Nodes}
    BY <1>12, <1>t DEF DeployConf, Write, Disks, Daemons
  <2>4. \A m \in Nodes \ {n} : disk'[m] = disk[m] /\ loaded'[m] = loaded[m]
    BY <1>12, <1>t DEF DeployConf, Write
  <2>5. play'.facts = play.facts /\ play'.swapping = play.swapping
    BY <2>1, DonePlay
  <2>6. /\ \A m \in Nodes \ {n} : Good(m)'
        /\ OwnTodo'
        /\ 12 \in Own => n = Controller
    <3>1. \/ n # Controller \/ disk'[n].key = disk[n].key \/ 12 < At_copy
          \/ 12 = At_copy /\ disk'[n].key = control
      BY <2>3, <1>t DEF Disks
    <3>2. 12 \in 1 .. 15 /\ (control' = control \/ 12 = At_fetch)
      BY <2>3
    <3>3. play.swapping \subseteq play'.swapping
      BY <2>5
    <3>4. \A m \in Nodes \ {n} : play'.facts[m] = play.facts[m]
      BY <2>5
    <3> QED BY <2>2, <2>4, <3>1, <3>2, <3>3, <3>4, OnOthers
  <2>7. /\ \A i \in 1 .. 15 : (Past(n, i)' <=> i <= 12) /\ (Past(n, i) <=> i < 12)
        /\ \A m \in Nodes, i \in 1 .. 15 : i < 12 /\ m \notin play.failed => Past(m, i)
    BY <2>2, Doer
  <2>8. play.facts = addr
    BY <2>3, <1>t DEF NInv, Good, Known, TInv, Addresses
  <2>9. Good(n)'
    <3>1. Known(n)'
      BY <2>2, <2>5, <1>a DEF Good, Known, DoesIt
    <3>2. Prepared(n)'
      BY <2>2, <2>3, <2>5, <2>7, <1>a, <1>t, <2>8 DEF Good, Prepared, Disks, Daemons, Nothing, DoesIt
    <3>3. Configured(n)'
      BY <2>2, <2>3, <2>6, <2>7, <1>a, <1>t, <2>8 DEF Good, Configured, Disks, Daemons, DoesIt, Own
    <3>4. Keyed(n)'
      <4>1. /\ disk'[n].key = disk[n].key /\ loaded'[n].munge = loaded[n].munge
            /\ n # Controller => disk'[Controller].key = disk[Controller].key
            /\ play'.failed = play.failed /\ control' = control /\ n \notin play.failed
        BY <2>1, <2>2, <2>3, <2>4, <1>t, DoesAt DEF Disks, DoesIt
      <4> QED BY <2>2, <4>1, <2>7, <1>a DEF Good, Keyed, Nothing, DoesIt
    <3> QED BY <3>1, <3>2, <3>3, <3>4 DEF Good
  <2>10. Source'
    <3>1. \A m \in Nodes : disk'[m].key = disk[m].key
      BY <2>3, <2>4, <1>t DEF Disks
    <3> QED BY <2>3, <3>1 DEF Source
  <2> QED BY <2>6, <2>9, <2>10, <1>b
<1>13. CASE RestartSlurmctld(n)
  <2>1. Does(n, "slurmctld") /\ Done(n)
    BY <1>13 DEF RestartSlurmctld
  <2>2. DoesIt(n, 13)
    <3>1. play.step = 13 /\ n \in play.todo
      BY <2>1, Places, DoesAt
    <3>2. play'.step = 13 /\ play'.todo = play.todo \ {n} /\ play'.failed = play.failed
      BY <2>1, DonePlay, <3>1
    <3> QED BY <2>1, <3>1, <3>2 DEF DoesIt, Does, Running, Ended
  <2>3. disk' = disk /\ loaded'[n] = [loaded[n] EXCEPT !.slurmctld = disk[n].conf] /\ control' = control
    BY <1>13, <1>t DEF RestartSlurmctld, Write, Disks, Daemons
  <2>4. \A m \in Nodes \ {n} : disk'[m] = disk[m] /\ loaded'[m] = loaded[m]
    BY <1>13, <1>t DEF RestartSlurmctld, Write
  <2>5. play'.facts = play.facts /\ play'.swapping = play.swapping
    BY <2>1, DonePlay
  <2>6. /\ \A m \in Nodes \ {n} : Good(m)'
        /\ OwnTodo'
        /\ 13 \in Own => n = Controller
    <3>1. \/ n # Controller \/ disk'[n].key = disk[n].key \/ 13 < At_copy
          \/ 13 = At_copy /\ disk'[n].key = control
      BY <2>3, <1>t DEF Disks
    <3>2. 13 \in 1 .. 15 /\ (control' = control \/ 13 = At_fetch)
      BY <2>3
    <3>3. play.swapping \subseteq play'.swapping
      BY <2>5
    <3>4. \A m \in Nodes \ {n} : play'.facts[m] = play.facts[m]
      BY <2>5
    <3> QED BY <2>2, <2>4, <3>1, <3>2, <3>3, <3>4, OnOthers
  <2>7. /\ \A i \in 1 .. 15 : (Past(n, i)' <=> i <= 13) /\ (Past(n, i) <=> i < 13)
        /\ \A m \in Nodes, i \in 1 .. 15 : i < 13 /\ m \notin play.failed => Past(m, i)
    BY <2>2, Doer
  <2>9. Good(n)'
    <3>1. Known(n)'
      BY <2>2, <2>5, <1>a DEF Good, Known, DoesIt
    <3>2. Prepared(n)'
      BY <2>2, <2>3, <2>5, <2>7, <1>a, <1>t DEF Good, Prepared, Disks, Daemons, Nothing, DoesIt
    <3>3. Configured(n)'
      BY <2>2, <2>3, <2>6, <2>7, <1>a, <1>t DEF Good, Configured, Disks, Daemons, DoesIt, Own
    <3>4. Keyed(n)'
      BY <2>2, <2>3, <2>4, <2>6, <2>7, <1>a, <1>t
         DEF Good, Keyed, Disks, Daemons, Own, Nothing, DoesIt
    <3> QED BY <3>1, <3>2, <3>3, <3>4 DEF Good
  <2>10. Source'
    BY <2>3, <2>4, <2>6, <1>t DEF Source, Disks, Own, Nothing
  <2> QED BY <2>6, <2>9, <2>10, <1>b
<1>14. CASE RestartSlurmd(n)
  <2>1. Does(n, "slurmd") /\ Done(n)
    BY <1>14 DEF RestartSlurmd
  <2>2. DoesIt(n, 14)
    <3>1. play.step = 14 /\ n \in play.todo
      BY <2>1, Places, DoesAt
    <3>2. play'.step = 14 /\ play'.todo = play.todo \ {n} /\ play'.failed = play.failed
      BY <2>1, DonePlay, <3>1
    <3> QED BY <2>1, <3>1, <3>2 DEF DoesIt, Does, Running, Ended
  <2>3. disk' = disk /\ loaded'[n] = [loaded[n] EXCEPT !.slurmd = disk[n].conf] /\ control' = control
    BY <1>14, <1>t DEF RestartSlurmd, Write, Disks, Daemons
  <2>4. \A m \in Nodes \ {n} : disk'[m] = disk[m] /\ loaded'[m] = loaded[m]
    BY <1>14, <1>t DEF RestartSlurmd, Write
  <2>5. play'.facts = play.facts /\ play'.swapping = play.swapping
    BY <2>1, DonePlay
  <2>6. /\ \A m \in Nodes \ {n} : Good(m)'
        /\ OwnTodo'
        /\ 14 \in Own => n = Controller
    <3>1. \/ n # Controller \/ disk'[n].key = disk[n].key \/ 14 < At_copy
          \/ 14 = At_copy /\ disk'[n].key = control
      BY <2>3, <1>t DEF Disks
    <3>2. 14 \in 1 .. 15 /\ (control' = control \/ 14 = At_fetch)
      BY <2>3
    <3>3. play.swapping \subseteq play'.swapping
      BY <2>5
    <3>4. \A m \in Nodes \ {n} : play'.facts[m] = play.facts[m]
      BY <2>5
    <3> QED BY <2>2, <2>4, <3>1, <3>2, <3>3, <3>4, OnOthers
  <2>7. /\ \A i \in 1 .. 15 : (Past(n, i)' <=> i <= 14) /\ (Past(n, i) <=> i < 14)
        /\ \A m \in Nodes, i \in 1 .. 15 : i < 14 /\ m \notin play.failed => Past(m, i)
    BY <2>2, Doer
  <2>9. Good(n)'
    <3>1. Known(n)'
      BY <2>2, <2>5, <1>a DEF Good, Known, DoesIt
    <3>2. Prepared(n)'
      BY <2>2, <2>3, <2>5, <2>7, <1>a, <1>t DEF Good, Prepared, Disks, Daemons, Nothing, DoesIt
    <3>3. Configured(n)'
      BY <2>2, <2>3, <2>6, <2>7, <1>a, <1>t DEF Good, Configured, Disks, Daemons, DoesIt, Own
    <3>4. Keyed(n)'
      BY <2>2, <2>3, <2>4, <2>6, <2>7, <1>a, <1>t
         DEF Good, Keyed, Disks, Daemons, Own, Nothing, DoesIt
    <3> QED BY <3>1, <3>2, <3>3, <3>4 DEF Good
  <2>10. Source'
    BY <2>3, <2>4, <2>6, <1>t DEF Source, Disks, Own, Nothing
  <2> QED BY <2>6, <2>9, <2>10, <1>b
<1>15. CASE CheckDevices(n)
  <2>1. Does(n, "check") /\ Done(n)
    BY <1>15 DEF CheckDevices
  <2>2. DoesIt(n, 15)
    <3>1. play.step = 15 /\ n \in play.todo
      BY <2>1, Places, DoesAt
    <3>2. play'.step = 15 /\ play'.todo = play.todo \ {n} /\ play'.failed = play.failed
      BY <2>1, DonePlay, <3>1
    <3> QED BY <2>1, <3>1, <3>2 DEF DoesIt, Does, Running, Ended
  <2>3. disk' = disk /\ loaded' = loaded /\ control' = control
    BY <1>15, <1>t DEF CheckDevices, Write, Disks, Daemons
  <2>4. \A m \in Nodes \ {n} : disk'[m] = disk[m] /\ loaded'[m] = loaded[m]
    BY <1>15, <1>t DEF CheckDevices, Write
  <2>5. play'.facts = play.facts /\ play'.swapping = play.swapping
    BY <2>1, DonePlay
  <2>6. /\ \A m \in Nodes \ {n} : Good(m)'
        /\ OwnTodo'
        /\ 15 \in Own => n = Controller
    <3>1. \/ n # Controller \/ disk'[n].key = disk[n].key \/ 15 < At_copy
          \/ 15 = At_copy /\ disk'[n].key = control
      BY <2>3, <1>t DEF Disks
    <3>2. 15 \in 1 .. 15 /\ (control' = control \/ 15 = At_fetch)
      BY <2>3
    <3>3. play.swapping \subseteq play'.swapping
      BY <2>5
    <3>4. \A m \in Nodes \ {n} : play'.facts[m] = play.facts[m]
      BY <2>5
    <3> QED BY <2>2, <2>4, <3>1, <3>2, <3>3, <3>4, OnOthers
  <2>7. /\ \A i \in 1 .. 15 : (Past(n, i)' <=> i <= 15) /\ (Past(n, i) <=> i < 15)
        /\ \A m \in Nodes, i \in 1 .. 15 : i < 15 /\ m \notin play.failed => Past(m, i)
    BY <2>2, Doer
  <2>9. Good(n)'
    <3>1. Known(n)'
      BY <2>2, <2>5, <1>a DEF Good, Known, DoesIt
    <3>2. Prepared(n)'
      BY <2>2, <2>3, <2>5, <2>7, <1>a, <1>t DEF Good, Prepared, Disks, Daemons, Nothing, DoesIt
    <3>3. Configured(n)'
      BY <2>2, <2>3, <2>6, <2>7, <1>a, <1>t DEF Good, Configured, Disks, Daemons, DoesIt, Own
    <3>4. Keyed(n)'
      BY <2>2, <2>3, <2>4, <2>6, <2>7, <1>a, <1>t
         DEF Good, Keyed, Disks, Daemons, Own, Nothing, DoesIt
    <3> QED BY <3>1, <3>2, <3>3, <3>4 DEF Good
  <2>10. Source'
    BY <2>3, <2>4, <2>6, <1>t DEF Source, Disks, Own, Nothing
  <2> QED BY <2>6, <2>9, <2>10, <1>b
<1> QED BY <1>1, <1>2, <1>3, <1>4, <1>5, <1>6, <1>7, <1>8, <1>9, <1>10, <1>11, <1>12, <1>13,
           <1>14, <1>15 DEF Host

-----------------------------------------------------------------------------
(* The invariant.                                                          *)

IInv == TInv /\ NInv /\ OwnTodo /\ Source

LEMMA RunInv ==
  ASSUME TInv, NInv, OwnTodo, Source, Start \/ NextTask \/ \E n \in Nodes : FailedTask(n)
  PROVE  NInv' /\ OwnTodo' /\ Source'
<1>2. CASE Start
  <2>0. addr' = addr /\ disk' = disk /\ loaded' = loaded /\ control' = control
    BY <1>2 DEF Start
  <2>s. Source'
    BY <2>0 DEF Source
  <2>1. \A m \in Nodes, i \in 1 .. 15 : ~Past(m, i)'
    BY <1>2, PastStart
  <2>2. \A m \in Nodes : play'.facts[m] = Nothing
    BY <1>2 DEF Start, NoRun, Unknown
  <2>3. ASSUME NEW m \in Nodes PROVE Good(m)'
    BY <2>0, <2>1, <2>2 DEF NInv, Good, Known, Prepared, Configured, Keyed, Unknown
  <2>4. OwnTodo'
    BY <1>2 DEF Start, NoRun, OwnTodo, Own
  <2> QED BY <2>s, <2>3, <2>4 DEF NInv, Good
<1>3. CASE NextTask
  <2>0. addr' = addr /\ disk' = disk /\ loaded' = loaded /\ control' = control
    BY <1>3 DEF NextTask
  <2>s. Source'
    BY <2>0 DEF Source
  <2>1. /\ play'.facts = play.facts /\ play'.swapping = play.swapping /\ play'.failed = play.failed
        /\ play'.step = play.step + 1 /\ play'.todo = Todo(play.step + 1) /\ Running
    BY <1>3 DEF NextTask, TInv, Plays
  <2>2. \A m \in Nodes, i \in 1 .. 15 : i \notin Own \/ m = Controller => (Past(m, i)' <=> Past(m, i))
    BY <1>3, PastNext
  <2>3. ASSUME NEW m \in Nodes PROVE Good(m)'
    BY <2>0, <2>1, <2>2, Bystander
  <2>4. OwnTodo'
    <3> SUFFICES ASSUME play.step + 1 \in Own PROVE Todo(play.step + 1) \subseteq {Controller}
      BY <2>1 DEF OwnTodo
    <3>1. Tasks[play.step + 1] \in OnlyOnController
      BY Places DEF Own, OnlyOnController
    <3> QED BY <3>1 DEF Todo
  <2> QED BY <2>s, <2>3, <2>4 DEF NInv, Good
<1>4. ASSUME NEW n \in Nodes, FailedTask(n) PROVE NInv' /\ OwnTodo' /\ Source'
  <2>0. /\ addr' = addr /\ loaded' = loaded /\ control' = control /\ Running
        /\ \A m \in Nodes \ {n} : disk'[m] = disk[m]
        /\ disk'[n].key = disk[n].key /\ disk'[n].installed = disk[n].installed
    BY <1>4, FailedTaskWrites DEF TInv, Disks
  <2>1. /\ play'.facts = play.facts /\ play'.swapping = play.swapping
        /\ play'.failed = play.failed \cup {n} /\ play'.step = play.step
        /\ play'.todo = play.todo \ {n}
    BY <1>4, FailedTaskWrites, DropPlay
  <2>2. \A m \in Nodes, i \in 1 .. 15 : (Past(m, i)' => Past(m, i)) /\ ~Past(n, i)'
    BY <1>4, PastFail
  <2>3. ASSUME NEW m \in Nodes \ {n} PROVE Good(m)'
    <3>1. disk'[Controller].key = disk[Controller].key
      BY <2>0, PlaybookAssumption
    <3> QED BY <2>0, <2>1, <2>2, <3>1, Bystander
  <2>4. Good(n)'
    BY <2>0, <2>1, <2>2 DEF NInv, Good, Known, Prepared, Configured, Keyed, Unknown
  <2>5. OwnTodo'
    BY <2>1 DEF OwnTodo
  <2>6. Source'
    BY <2>0, PlaybookAssumption DEF Source
  <2> QED BY <2>3, <2>4, <2>5, <2>6 DEF NInv
<1> QED BY <1>2, <1>3, <1>4

\* When no run is in progress a host that has not failed is past all the tasks
\* or none.
LEMMA BetweenRuns ==
  ASSUME TInv, ~Running, NEW n \in Nodes, NEW i \in 1 .. 15, NEW j \in 1 .. 15
  PROVE  Past(n, i) <=> Past(n, j)
BY Fifteen DEF Running, Ended, Past, TInv, Plays

LEMMA AccidentInv ==
  ASSUME TInv, NInv, OwnTodo, Source,
         NEW n \in Nodes, Reboot(n) \/ Rebuild(n) \/ Replace(n)
  PROVE  NInv' /\ OwnTodo' /\ Source'
<1> USE PlaybookAssumption
<1>t. disk \in [Nodes -> Disks] /\ loaded \in [Nodes -> Daemons]
  BY DEF TInv
<1>1. CASE Reboot(n)
  <2>1. /\ addr' = addr /\ disk' = disk /\ play' = play /\ control' = control /\ ~Running
        /\ loaded'[n] = Boot(n, disk[n])
        /\ \A m \in Nodes \ {n} : loaded'[m] = loaded[m]
    BY <1>1, <1>t DEF Reboot, Accident
  <2>2. \A m \in Nodes, i \in 1 .. 15 : Past(m, i)' <=> Past(m, i)
    BY <2>1 DEF Past
  <2>3. ASSUME NEW m \in Nodes \ {n}
        PROVE  Good(m)'
    <3>1. Running' <=> Running
      BY <2>1 DEF Running, Ended
    <3> QED BY <2>1, <2>2, <3>1, Bystander
  <2>4. \A i, j \in 1 .. 15 : Past(n, i) <=> Past(n, j)
    BY <2>1, BetweenRuns
  <2>5. /\ loaded'[n].swap = disk[n].swap /\ loaded'[n].modules = disk[n].modules
        /\ loaded'[n].munge = disk[n].key /\ loaded'[n].slurmd = disk[n].conf
        /\ loaded'[n].slurmctld = IF n = Controller THEN disk[n].conf ELSE Unknown
    BY <2>1 DEF Boot
  <2>6. Known(n) /\ Prepared(n) /\ Configured(n) /\ Keyed(n)
    BY DEF NInv, Good
  <2>7. Known(n)' /\ Prepared(n)' /\ Configured(n)'
    BY <2>1, <2>2, <2>4, <2>5, <2>6 DEF Known, Prepared, Configured, Unknown
  <2>8. Keyed(n)'
    BY <2>1, <2>2, <2>5, <2>6 DEF Keyed, Running, Ended
  <2>9. Source' /\ OwnTodo'
    BY <2>1 DEF Source, OwnTodo
  <2> QED BY <2>3, <2>7, <2>8, <2>9 DEF NInv, Good
<1>2. CASE Rebuild(n) \/ Replace(n)
  <2>1. play' = NoRun /\ control' = control
    BY <1>2 DEF Rebuild, Replace, Move, Accident
  <2>2. \A m \in Nodes, i \in 1 .. 15 : ~Past(m, i)'
    BY <2>1, PastMove
  <2>3. \A m \in Nodes : play'.facts[m] = Nothing
    BY <2>1 DEF NoRun, Unknown
  <2>4. \A m \in Nodes \ {n} : disk'[m] = disk[m] /\ loaded'[m] = loaded[m]
    BY <1>2, <1>t DEF Rebuild, Replace, Write
  <2>5. /\ disk'[n] = disk[n] \/ disk'[n].key = Nothing
        /\ n # Controller => loaded'[n].slurmctld = Unknown
    BY <1>2, <1>t DEF Rebuild, Replace, Write, Boot, Blank
  <2>6. ASSUME NEW m \in Nodes PROVE Good(m)'
    <3>1. CASE m = n
      BY <2>2, <2>3, <2>5, <3>1
      DEF NInv, Good, Known, Prepared, Configured, Keyed, Unknown, Foreign, Nothing
    <3>2. CASE m # n
      BY <2>2, <2>3, <2>4, <3>2 DEF NInv, Good, Known, Prepared, Configured, Keyed, Unknown
    <3> QED BY <3>1, <3>2
  <2>7. OwnTodo'
    BY <2>1 DEF OwnTodo, NoRun, Own
  <2>8. Source'
    <3>1. CASE n = Controller
      BY <2>1, <2>4, <2>5, <3>1 DEF Source
    <3>2. CASE n # Controller
      <4>1. disk'[Controller] = disk[Controller]
        BY <2>4, <3>2
      <4> QED BY <2>1, <2>4, <2>5, <4>1 DEF Source
    <3> QED BY <3>1, <3>2
  <2> QED BY <2>6, <2>7, <2>8 DEF NInv, Good
<1> QED BY <1>1, <1>2

LEMMA ControlInv ==
  ASSUME TInv, NInv, OwnTodo, WipeControl \/ ServeAnotherCluster
  PROVE  NInv' /\ OwnTodo' /\ Source'
<1>1. /\ addr' = addr /\ disk' = disk /\ loaded' = loaded /\ play' = play /\ ~Running
      /\ control' \in {Nothing, Foreign}
  BY DEF WipeControl, ServeAnotherCluster
<1>2. (Running' <=> Running) /\ \A m \in Nodes, i \in 1 .. 15 : Past(m, i)' <=> Past(m, i)
  BY <1>1 DEF Past, Running, Ended
<1>3. ASSUME NEW m \in Nodes PROVE Good(m)'
  BY <1>1, <1>2, Bystander
<1> QED BY <1>1, <1>3 DEF NInv, Good, OwnTodo, Source

THEOREM Inductive == Spec => []IInv
<1>1. Init => IInv
  BY InitTypes, InitNInv DEF IInv, OwnTodo, Init, NoRun, Own
<1>2. IInv /\ [Next]_vars => IInv'
  <2> SUFFICES ASSUME TInv, NInv, OwnTodo, Source, [Next]_vars PROVE NInv' /\ OwnTodo' /\ Source'
    BY NextTypes DEF IInv
  <2>1. CASE UNCHANGED vars
    BY <2>1 DEF vars, NInv, Good, OwnTodo, Source, Known, Prepared, Configured,
                Keyed, Past, Running, Ended
  <2>2. CASE Run
    BY <2>2, RunInv, TaskInv DEF Run
  <2>3. CASE WipeControl \/ ServeAnotherCluster
    BY <2>3, ControlInv
  <2>4. CASE \E n \in Nodes : Reboot(n) \/ Rebuild(n) \/ Replace(n)
    BY <2>4, AccidentInv
  <2> QED BY <2>1, <2>2, <2>3, <2>4 DEF Next
<1> QED BY <1>1, <1>2, PTL DEF Spec

-----------------------------------------------------------------------------
(* What a run promises.                                                    *)

LEMMA AllPast == TInv /\ Converged => \A n \in Nodes, i \in 1 .. 15 : Past(n, i)
  BY Fifteen DEF Converged, Ended, Past, TInv, Plays

\* After a run without failures all the nodes have loaded one key.
THEOREM KeyIsShared == Spec => []OneKey
<1>1. IInv => OneKey
  <2> SUFFICES ASSUME IInv, Converged, NEW n \in Nodes, NEW m \in Nodes
               PROVE  /\ loaded[n].munge = disk[n].key /\ disk[n].key = disk[m].key
                      /\ disk[n].key \notin {Nothing, Foreign}
    BY DEF OneKey
  <2>1. Past(n, 10) /\ Past(n, 11) /\ Past(m, 10) /\ Controller \notin play.failed
    BY AllPast DEF IInv, Converged
  <2> QED BY <2>1, PlaybookAssumption DEF IInv, NInv, Good, Keyed
<1> QED BY <1>1, Inductive, PTL

\* After a run without failures all the daemons have loaded the nodes' addresses.
THEOREM ConfigurationIsShared == Spec => []OneConfiguration
<1>1. IInv => OneConfiguration
  <2> SUFFICES ASSUME IInv, Converged PROVE OneConfiguration
    BY DEF OneConfiguration
  <2>1. \A n \in Nodes : Past(n, 12) /\ Past(n, 13) /\ Past(n, 14)
    BY AllPast DEF IInv
  <2> QED BY <2>1, PlaybookAssumption DEF IInv, NInv, Good, Configured, OneConfiguration
<1> QED BY <1>1, Inductive, PTL

\* What a run without failures has achieved outlasts a reboot.
THEOREM RebootsAreSafe == Spec => []SurvivesReboot
<1>1. IInv => SurvivesReboot
  <2> SUFFICES ASSUME IInv, Converged, NEW n \in Nodes
               PROVE  loaded[n] = Boot(n, disk[n]) /\ ~loaded[n].swap /\ loaded[n].modules
    BY DEF SurvivesReboot
  <2>1. \A i \in 1 .. 15 : Past(n, i)
    BY AllPast DEF IInv
  <2>2. /\ loaded[n].swap = FALSE /\ disk[n].swap = FALSE
        /\ loaded[n].modules = TRUE /\ disk[n].modules = TRUE
    BY <2>1 DEF IInv, NInv, Good, Prepared
  <2>3. /\ loaded[n].munge = disk[n].key /\ loaded[n].slurmd = disk[n].conf
        /\ loaded[n].slurmctld = IF n = Controller THEN disk[n].conf ELSE Unknown
    BY <2>1 DEF IInv, NInv, Good, Configured, Keyed
  <2>4. loaded[n] = [swap |-> loaded[n].swap, modules |-> loaded[n].modules,
                     munge |-> loaded[n].munge, slurmctld |-> loaded[n].slurmctld,
                     slurmd |-> loaded[n].slurmd]
    BY DEF IInv, TInv, Daemons
  <2> QED BY <2>2, <2>3, <2>4 DEF Boot
<1> QED BY <1>1, Inductive, PTL

\* The key that is copied is the one the nodes share, although the control
\* machine may hold another cluster's when the run begins.
LEMMA CopiesSharedKey ==
  ASSUME IInv, ~Misled, NEW k \in 1 .. keys, \A m \in Nodes : disk[m].key = k, NEW n \in Nodes, CopyKey(n)
  PROVE  control = k
<1>1. n \in play.todo /\ play.step = 10 /\ control # Nothing /\ k # Nothing
  BY Places, DoesAt DEF CopyKey, IInv, TInv, Nothing
<1>2. CASE n = Controller
  <2>1. Past(n, 9) /\ Running
    BY <1>1 DEF Past, IInv, TInv, CopyKey, Does
  <2> QED BY <1>2, <2>1 DEF IInv, NInv, Good, Keyed
<1>3. CASE Controller \notin play.failed
  <2>1. Past(Controller, 9) /\ Running
    BY <1>1, <1>3 DEF Past, CopyKey, Does
  <2> QED BY <2>1, PlaybookAssumption DEF IInv, NInv, Good, Keyed
<1>4. CASE n # Controller /\ Controller \in play.failed
  BY <1>1, <1>4, PlaybookAssumption DEF IInv, Source, Misled
<1> QED BY <1>2, <1>3, <1>4

\* No run takes away a key that the nodes share, whichever host fails at which task,
\* save that node1 may fail before another cluster's key is replaced.
THEOREM KeyIsKept == Spec => RerunKeepsKey
<1> DEFINE A == Running /\ Shared /\ ~Misled => \A n \in Nodes : disk'[n].key = disk[n].key
<1>1. IInv /\ [Next]_vars => [A]_vars
  <2> SUFFICES ASSUME IInv, Next, Running, Shared, ~Misled, NEW m \in Nodes
               PROVE  disk'[m].key = disk[m].key
    OBVIOUS
  <2>1. PICK k \in 1 .. keys : \A n \in Nodes : disk[n].key = k
    BY DEF Shared
  <2>2. disk \in [Nodes -> Disks] /\ k # Nothing
    BY DEF IInv, TInv, Nothing
  <2>3. CASE disk' = disk
    BY <2>3
  <2>4. ASSUME NEW n \in Nodes, Host(n), disk' # disk PROVE disk'[m].key = disk[m].key
    <3>1. disk[n] \in Disks /\ disk[n].installed = TRUE
      BY <2>1, <2>2 DEF IInv, NInv, Good, Prepared
    <3>w. ASSUME NEW d, Write(n, d), d.key = disk[n].key PROVE disk'[m].key = disk[m].key
      BY <2>2, <3>w DEF Write
    <3>2. CASE RemoveSwap(n) \/ PersistModules(n) \/ AddNodes(n) \/ DeployConf(n)
      <4>1. CASE RemoveSwap(n)
        BY <3>1, <3>w, <4>1 DEF RemoveSwap, Disks
      <4>2. CASE PersistModules(n)
        BY <3>1, <3>w, <4>2 DEF PersistModules, Disks
      <4>3. CASE AddNodes(n)
        BY <3>1, <3>w, <4>3 DEF AddNodes, Disks
      <4>4. CASE DeployConf(n)
        BY <3>1, <3>w, <4>4 DEF DeployConf, Disks
      <4> QED BY <3>2, <4>1, <4>2, <4>3, <4>4
    <3>3. CASE InstallPackages(n)
      <4>1. Write(n, [disk[n] EXCEPT !.installed = TRUE])
        BY <3>1, <3>3 DEF InstallPackages
      <4> QED BY <3>1, <3>w, <4>1 DEF Disks
    <3>4. CASE GenerateKey(n)
      BY <2>1, <2>2, <2>4, <3>4 DEF GenerateKey
    <3>5. CASE CopyKey(n)
      BY <2>1, <2>2, <3>1, <3>5, CopiesSharedKey DEF CopyKey, Write, Disks
    <3> QED BY <2>4, <3>2, <3>3, <3>4, <3>5
         DEF Host, GatherFacts, SwapOff, LoadModules, FetchKey, RestartMunge, RestartSlurmctld,
             RestartSlurmd, CheckDevices
  <2>5. ASSUME NEW n \in Nodes, FailedTask(n) PROVE disk'[m].key = disk[m].key
    <3>1. (m # n => disk'[m] = disk[m]) /\ disk'[n].key = disk[n].key
      BY <2>2, <2>5, FailedTaskWrites DEF IInv, Disks
    <3> QED BY <3>1
  <2>6. (\E n \in Nodes : Host(n) \/ FailedTask(n)) \/ disk' = disk
    BY DEF Next, Run, Start, NextTask, WipeControl, ServeAnotherCluster, Reboot, Rebuild, Replace,
           Accident
  <2> QED BY <2>3, <2>4, <2>5, <2>6
<1> QED BY <1>1, Inductive, PTL DEF RerunKeepsKey, Spec

-----------------------------------------------------------------------------
(* A cluster that works.                                                   *)

\* A host that has added the nodes finds every address in force.
Listed == \A n \in Nodes :
             Past(n, At_nodes) => \A m \in Nodes : Contains(disk[n].hosts[m], addr[m])

\* A task moves the run one host further and leaves the addresses alone.
LEMMA TaskPlay ==
  ASSUME TInv, NEW n \in Nodes, Host(n)
  PROVE  /\ addr' = addr /\ n \in play.todo
         /\ play'.step = play.step /\ play'.todo = play.todo \ {n} /\ play'.failed = play.failed
<1>1. CASE GatherFacts(n)
  BY <1>1, FactsPlay DEF GatherFacts, Does
<1>2. CASE ~GatherFacts(n)
  <2>1. Done(n) /\ \E task : Does(n, task)
    BY <1>2 DEF Host, SwapOff, RemoveSwap, InstallPackages, LoadModules, PersistModules, AddNodes,
                GenerateKey, FetchKey, CopyKey, RestartMunge, DeployConf, RestartSlurmctld,
                RestartSlurmd, CheckDevices
  <2> QED BY <2>1, DonePlay DEF Does
<1> QED BY <1>1, <1>2

\* The facts that slurm.conf and the hosts file are written from are the addresses.
LEMMA FactsAreCurrent ==
  ASSUME TInv, NInv, Nothing \notin {play.facts[m] : m \in Nodes}
  PROVE  play.facts = addr
<1>1. play.facts \in Addresses /\ addr \in [Nodes -> 1 .. MaxMoves + 1]
  BY DEF TInv, Plays
<1>2. \A m \in Nodes : play.facts[m] = addr[m]
  BY DEF NInv, Good, Known
<1> QED BY <1>1, <1>2 DEF Addresses

\* lineinfile leaves a file that has the line.
LEMMA LineIsThere ==
  ASSUME TInv, NEW n \in Nodes, NEW m \in Nodes
  PROVE  LET lines == disk[n].hosts[m]
             line == play.facts[m]
         IN Contains(IF Contains(lines, line) THEN lines ELSE Append(lines, line), line)
<1>1. disk[n].hosts[m] \in Seq(Nat) /\ play.facts[m] \in Nat
  BY PlaybookAssumption DEF TInv, Disks, Plays, Addresses
<1> DEFINE lines == disk[n].hosts[m]
           line == play.facts[m]
<1>2. Len(lines) \in Nat
  BY <1>1
<1>3. Len(Append(lines, line)) = Len(lines) + 1 /\ Append(lines, line)[Len(lines) + 1] = line
  BY <1>1
<1> HIDE DEF lines, line
<1>4. Contains(Append(lines, line), line)
  BY <1>2, <1>3 DEF Contains
<1>5. Contains(IF Contains(lines, line) THEN lines ELSE Append(lines, line), line)
  BY <1>4
<1> QED BY <1>5 DEF lines, line

\* Only one task writes to the hosts file.
LEMMA HostsKept ==
  ASSUME TInv, NEW n \in Nodes, Host(n), ~AddNodes(n), NEW m \in Nodes
  PROVE  disk'[m].hosts = disk[m].hosts /\ play.step # At_nodes
<1>1. disk \in [Nodes -> Disks]
  BY DEF TInv
<1>w. ASSUME NEW d, Write(n, d), d.hosts = disk[n].hosts PROVE disk'[m].hosts = disk[m].hosts
  BY <1>1, <1>w DEF Write
<1>2. play.step # At_nodes
  <2>1. \A task : Does(n, task) /\ task # "nodes" => play.step # 7
    BY DoesAt, Places
  <2> QED BY <2>1 DEF Host, GatherFacts, SwapOff, RemoveSwap, InstallPackages, LoadModules,
                PersistModules, GenerateKey, FetchKey, CopyKey, RestartMunge, DeployConf,
                RestartSlurmctld, RestartSlurmd, CheckDevices
<1>3. CASE disk' = disk
  BY <1>2, <1>3
<1>4. CASE RemoveSwap(n) \/ PersistModules(n) \/ CopyKey(n) \/ DeployConf(n)
  <2>1. CASE RemoveSwap(n)
    BY <1>1, <1>2, <1>w, <2>1 DEF RemoveSwap, Disks
  <2>2. CASE PersistModules(n)
    BY <1>1, <1>2, <1>w, <2>2 DEF PersistModules, Disks
  <2>3. CASE CopyKey(n)
    BY <1>1, <1>2, <1>w, <2>3 DEF CopyKey, Disks
  <2>4. CASE DeployConf(n)
    BY <1>1, <1>2, <1>w, <2>4 DEF DeployConf, Disks
  <2> QED BY <1>2, <1>4, <2>1, <2>2, <2>3, <2>4
<1>5. CASE InstallPackages(n)
  BY <1>1, <1>2, <1>5, <1>w DEF InstallPackages, Disks
<1>6. CASE GenerateKey(n)
  BY <1>1, <1>2, <1>6, <1>w DEF GenerateKey, Disks
<1> QED BY <1>2, <1>3, <1>4, <1>5, <1>6
     DEF Host, GatherFacts, SwapOff, LoadModules, FetchKey, RestartMunge, RestartSlurmctld,
         RestartSlurmd, CheckDevices

LEMMA ListedStep == IInv /\ Listed /\ [Next]_vars => Listed'
<1> SUFFICES ASSUME IInv, Listed, [Next]_vars, NEW n \in Nodes, Past(n, At_nodes)', NEW m \in Nodes
             PROVE  Contains(disk'[n].hosts[m], addr'[m])
  BY DEF Listed
<1>t. TInv /\ disk \in [Nodes -> Disks]
  BY DEF IInv, TInv
<1>0. ASSUME Past(n, At_nodes), addr' = addr, disk'[n].hosts = disk[n].hosts
      PROVE  Contains(disk'[n].hosts[m], addr'[m])
  BY <1>0 DEF Listed
<1>1. CASE play' = play /\ disk' = disk /\ addr' = addr
  BY <1>0, <1>1 DEF Past
<1>2. CASE Start
  BY <1>2, PastStart
<1>3. CASE NextTask
  BY <1>0, <1>3, <1>t, PastNext DEF NextTask, Own
<1>4. ASSUME NEW h \in Nodes, FailedTask(h) PROVE Contains(disk'[n].hosts[m], addr'[m])
  <2>1. Past(n, At_nodes) /\ n # h
    BY <1>4, <1>t, PastFail
  <2>2. addr' = addr /\ disk'[n] = disk[n]
    BY <1>4, <1>t, <2>1, FailedTaskWrites
  <2> QED BY <1>0, <2>1, <2>2
<1>5. CASE play' = NoRun
  BY <1>5, PastMove
<1>6. ASSUME NEW h \in Nodes, Host(h) PROVE Contains(disk'[n].hosts[m], addr'[m])
  <2>1. /\ addr' = addr
        /\ Past(n, At_nodes) \/ (n = h /\ play.step = At_nodes)
    BY <1>6, <1>t, TaskPlay, PastDone
  <2>2. CASE ~AddNodes(h)
    BY <1>0, <1>6, <1>t, <2>1, <2>2, HostsKept
  <2>3. CASE AddNodes(h)
    <3>1. CASE n = h
      <4>1. play.facts = addr
        BY <2>3, FactsAreCurrent DEF AddNodes, IInv
      <4>2. disk'[n].hosts = [x \in Nodes |-> IF Contains(disk[n].hosts[x], play.facts[x])
                                               THEN disk[n].hosts[x]
                                               ELSE Append(disk[n].hosts[x], play.facts[x])]
        BY <1>t, <2>3, <3>1 DEF AddNodes, Write, Disks
      <4> QED BY <1>t, <2>1, <4>1, <4>2, LineIsThere
    <3>2. CASE n # h
      <4>1. disk'[n] = disk[n]
        BY <1>t, <2>3, <3>2 DEF AddNodes, Write
      <4> QED BY <1>0, <2>1, <3>2, <4>1
    <3> QED BY <3>1, <3>2
  <2> QED BY <2>2, <2>3
<1>7. CASE \E h \in Nodes : Reboot(h) \/ Rebuild(h) \/ Replace(h)
  BY <1>1, <1>5, <1>7 DEF Reboot, Rebuild, Replace, Move
<1>8. CASE UNCHANGED vars \/ WipeControl \/ ServeAnotherCluster
  BY <1>1, <1>8 DEF vars, WipeControl, ServeAnotherCluster
<1> QED BY <1>2, <1>3, <1>4, <1>6, <1>7, <1>8 DEF Next, Run

LEMMA AllListed == Spec => []Listed
<1>1. Init => Listed
  BY DEF Init, NoRun, Past, Listed
<1> QED BY <1>1, ListedStep, Inductive, PTL DEF Spec

\* A run without failures leaves a cluster that works.
THEOREM ClusterWorks == Spec => []RunProvisions
<1>1. IInv /\ Listed /\ OneKey /\ OneConfiguration /\ SurvivesReboot => RunProvisions
  <2> SUFFICES ASSUME IInv, Listed, OneKey, OneConfiguration, SurvivesReboot, Converged
               PROVE  Working
    BY DEF RunProvisions
  <2>1. \A n \in Nodes, i \in 1 .. 15 : Past(n, i)
    BY AllPast DEF IInv
  <2>2. Controller \in Nodes /\ disk[Controller].key \in Foreign .. keys /\ keys \in Nat
    BY PlaybookAssumption DEF IInv, TInv, Disks, Keys
  <2>3. Shared
    BY <2>2 DEF OneKey, Shared, Nothing
  <2>4. ASSUME NEW n \in Nodes PROVE Provisioned(n)
    <3>1. Good(n) /\ \A i \in 1 .. 15 : Past(n, i)
      BY <2>1 DEF IInv, NInv
    <3>2. disk[n].installed = TRUE /\ disk[n].modules = TRUE /\ disk[n].swap = FALSE
      BY <3>1 DEF Good, Prepared
    <3>3. disk[n].conf = addr
      BY <3>1 DEF Good, Configured
    <3>4. \A m \in Nodes : Contains(disk[n].hosts[m], addr[m])
      BY <3>1 DEF Listed
    <3> QED BY <3>2, <3>3, <3>4 DEF Provisioned, SurvivesReboot
  <2> QED BY <2>3, <2>4 DEF Working
<1> QED BY <1>1, Inductive, AllListed, KeyIsShared, ConfigurationIsShared, RebootsAreSafe, PTL

\* A task that writes or loads what is there changes nothing.
LEMMA WritesTheSame ==
  ASSUME TInv, NEW n \in Nodes, Write(n, disk[n])
  PROVE  disk' = disk
BY DEF TInv, Write

LEMMA LoadsTheSame ==
  ASSUME TInv, NEW n \in Nodes, loaded' = [loaded EXCEPT ![n] = loaded[n]]
  PROVE  loaded' = loaded
BY DEF TInv

LEMMA WorkingTask ==
  ASSUME IInv, Working, ~Misled, NEW n \in Nodes, Host(n)
  PROVE  UNCHANGED <<disk, loaded, keys>>
<1> DEFINE D == disk[n]
           L == loaded[n]
<1>t. TInv /\ NInv /\ D \in Disks /\ L \in Daemons /\ disk \in [Nodes -> Disks]
  BY DEF IInv, TInv
<1>p. Provisioned(n)
  BY DEF Working
<1>d. /\ D.installed = TRUE /\ D.modules = TRUE /\ D.swap = FALSE
      /\ D.conf = addr /\ \A m \in Nodes : Contains(D.hosts[m], addr[m])
  BY <1>p, <1>t DEF Provisioned, Disks
<1>l. /\ L.swap = FALSE /\ L.modules = TRUE /\ L.munge = D.key /\ L.slurmd = D.conf
      /\ n = Controller => L.slurmctld = D.conf
  BY <1>p, <1>d DEF Provisioned, Boot
<1>k. PICK k \in 1 .. keys : \A m \in Nodes : disk[m].key = k
  BY DEF Working, Shared
<1>0. D.key = k /\ k # Nothing
  BY <1>k, <1>t DEF TInv, Nothing
<1>1. CASE GatherFacts(n) \/ FetchKey(n) \/ CheckDevices(n)
  BY <1>1 DEF GatherFacts, FetchKey, CheckDevices
<1>2. CASE SwapOff(n)
  <2>1. [L EXCEPT !.swap = @ /\ n \notin play.swapping] = L
    BY <1>t, <1>l DEF Daemons
  <2>2. loaded' = [loaded EXCEPT ![n] = L]
    BY <1>2, <2>1 DEF SwapOff
  <2> QED BY <1>2, <1>t, <2>2, LoadsTheSame DEF SwapOff
<1>3. CASE RemoveSwap(n)
  <2>1. [D EXCEPT !.swap = FALSE] = D
    BY <1>t, <1>d DEF Disks
  <2> QED BY <1>3, <1>t, <2>1, WritesTheSame DEF RemoveSwap
<1>4. CASE InstallPackages(n)
  <2>1. [D EXCEPT !.installed = TRUE] = D
    BY <1>t, <1>d DEF Disks
  <2>2. UNCHANGED <<loaded, keys>> /\ Write(n, [D EXCEPT !.installed = TRUE])
    BY <1>4, <1>d DEF InstallPackages
  <2> QED BY <1>t, <2>1, <2>2, WritesTheSame
<1>5. CASE LoadModules(n)
  <2>1. [L EXCEPT !.modules = TRUE] = L
    BY <1>t, <1>l DEF Daemons
  <2>2. loaded' = [loaded EXCEPT ![n] = L]
    BY <1>5, <2>1 DEF LoadModules
  <2> QED BY <1>5, <1>t, <2>2, LoadsTheSame DEF LoadModules
<1>6. CASE PersistModules(n)
  <2>1. [D EXCEPT !.modules = TRUE] = D
    BY <1>t, <1>d DEF Disks
  <2> QED BY <1>6, <1>t, <2>1, WritesTheSame DEF PersistModules
<1>7. CASE AddNodes(n)
  <2> DEFINE H == [m \in Nodes |-> IF Contains(D.hosts[m], play.facts[m]) THEN D.hosts[m]
                                   ELSE Append(D.hosts[m], play.facts[m])]
  <2>1. play.facts = addr
    BY <1>7, <1>t, FactsAreCurrent DEF AddNodes
  <2>2. H = D.hosts
    <3>1. D.hosts \in [Nodes -> Seq(Nat)]
      BY <1>t DEF Disks
    <3> QED BY <1>d, <2>1, <3>1
  <2>3. Write(n, [D EXCEPT !.hosts = H])
    BY <1>7 DEF AddNodes
  <2> HIDE DEF H
  <2>4. [D EXCEPT !.hosts = H] = D
    BY <1>t, <2>2 DEF Disks
  <2> QED BY <1>7, <1>t, <2>3, <2>4, WritesTheSame DEF AddNodes
<1>8. CASE GenerateKey(n)
  BY <1>8, <1>0 DEF GenerateKey
<1>9. CASE CopyKey(n)
  <2>1. control = k
    BY <1>9, <1>k, CopiesSharedKey
  <2>2. [D EXCEPT !.key = control] = D
    BY <1>t, <1>0, <2>1 DEF Disks
  <2> QED BY <1>9, <1>t, <2>2, WritesTheSame DEF CopyKey
<1>10. CASE RestartMunge(n)
  <2>1. [L EXCEPT !.munge = D.key] = L
    BY <1>t, <1>l DEF Daemons
  <2>2. loaded' = [loaded EXCEPT ![n] = L]
    BY <1>10, <2>1 DEF RestartMunge
  <2> QED BY <1>10, <1>t, <2>2, LoadsTheSame DEF RestartMunge
<1>11. CASE DeployConf(n)
  <2>1. play.facts = addr
    BY <1>11, <1>t, FactsAreCurrent DEF DeployConf
  <2>2. [D EXCEPT !.conf = play.facts] = D
    BY <1>t, <1>d, <2>1 DEF Disks
  <2> QED BY <1>11, <1>t, <2>2, WritesTheSame DEF DeployConf
<1>12. CASE RestartSlurmctld(n)
  <2>1. play.step = At_slurmctld /\ n \in play.todo
    BY <1>12, <1>t, DoesAt, Places DEF RestartSlurmctld
  <2>2. n = Controller
    BY <2>1 DEF IInv, OwnTodo, Own
  <2>3. [L EXCEPT !.slurmctld = D.conf] = L
    BY <1>t, <1>l, <2>2 DEF Daemons
  <2>4. loaded' = [loaded EXCEPT ![n] = L]
    BY <1>12, <2>3 DEF RestartSlurmctld
  <2> QED BY <1>12, <1>t, <2>4, LoadsTheSame DEF RestartSlurmctld
<1>13. CASE RestartSlurmd(n)
  <2>1. [L EXCEPT !.slurmd = D.conf] = L
    BY <1>t, <1>l DEF Daemons
  <2>2. loaded' = [loaded EXCEPT ![n] = L]
    BY <1>13, <2>1 DEF RestartSlurmd
  <2> QED BY <1>13, <1>t, <2>2, LoadsTheSame DEF RestartSlurmd
<1> QED BY <1>1, <1>2, <1>3, <1>4, <1>5, <1>6, <1>7, <1>8, <1>9, <1>10, <1>11, <1>12, <1>13 DEF Host

\* The lines that a host adds before it fails are there as well.
LEMMA WorkingFailure ==
  ASSUME IInv, Working, NEW n \in Nodes, FailedTask(n)
  PROVE  UNCHANGED <<disk, loaded, keys>>
<1> DEFINE D == disk[n]
<1>t. TInv /\ NInv /\ D \in Disks /\ disk \in [Nodes -> Disks]
  BY DEF IInv, TInv
<1>1. loaded' = loaded /\ keys' = keys
  BY <1>t, FailedTaskWrites
<1>2. CASE AddKnownNodes(n)
  <2> DEFINE H == [m \in Nodes |-> IF play.facts[m] = Nothing \/ Contains(D.hosts[m], play.facts[m])
                                   THEN D.hosts[m] ELSE Append(D.hosts[m], play.facts[m])]
  <2>1. \A m \in Nodes : play.facts[m] = Nothing \/ Contains(D.hosts[m], play.facts[m])
    BY <1>t DEF NInv, Good, Known, Working, Provisioned
  <2>2. H = D.hosts
    <3>1. D.hosts \in [Nodes -> Seq(Nat)]
      BY <1>t DEF Disks
    <3> QED BY <2>1, <3>1
  <2>3. Write(n, [D EXCEPT !.hosts = H])
    BY <1>2 DEF AddKnownNodes
  <2> HIDE DEF H
  <2>4. [D EXCEPT !.hosts = H] = D
    BY <1>t, <2>2 DEF Disks
  <2> QED BY <1>1, <1>t, <2>3, <2>4, WritesTheSame
<1> QED BY <1>1, <1>2 DEF FailedTask, Fail, MissKey

\* On a cluster that works a later run changes nothing, whichever host fails at which
\* task and whatever key is on the control machine, unless node1 fails before its
\* fetch while that is another cluster's.
THEOREM RerunsAreIdle == Spec => RerunChangesNothing
<1> DEFINE A == Running /\ Working /\ ~Misled => UNCHANGED <<disk, loaded, keys>>
<1>1. IInv /\ [Next]_vars => [A]_vars
  <2> SUFFICES ASSUME IInv, Next, Running, Working, ~Misled PROVE UNCHANGED <<disk, loaded, keys>>
    OBVIOUS
  <2>1. (\E n \in Nodes : Host(n) \/ FailedTask(n)) \/ UNCHANGED <<disk, loaded, keys>>
    BY DEF Next, Run, Start, NextTask, WipeControl, ServeAnotherCluster, Reboot, Rebuild, Replace,
           Accident
  <2> QED BY <2>1, WorkingTask, WorkingFailure
<1> QED BY <1>1, Inductive, PTL DEF RerunChangesNothing, Spec

=============================================================================
