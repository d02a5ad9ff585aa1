------------------------------ MODULE Containers ------------------------------
(***************************************************************************)
(* The machines that run containers: DockerManager and run() of            *)
(* crs/common/docker.py, ProcessScope of crs/common/process.py.            *)
(*                                                                         *)
(* A client asks a group for a number of cores, waits on the manager's     *)
(* condition until a host fits, starts a container in its scope and gives  *)
(* everything back, wherever it is cancelled or timed out: first the       *)
(* container, then the slot, then the processes of the scope.  A launch    *)
(* that shows no container within CONTAINER_SPAWN_TIMEOUT is given up;     *)
(* docker run lives on until its scope ends, and its container with it.    *)
(***************************************************************************)
EXTENDS Integers, FiniteSets

CONSTANTS
  Clients,
  Requests,  \* what a client may ask for: [group, cores]
  Hosts,     \* hosts of the groups: [group, cores, id]
  Timeouts,  \* bound: cancellations and timeouts
  None

VARIABLES
  client,    \* [request, phase, host, stop]; stop: cancelled while shielded
  slots,     \* slots of each host: client -> cores
  containers, \* containers that run, by client
  processes, \* clients with processes in their ProcessScope
  stray,     \* clients whose launch was given up: nobody knows its container
  timeouts

containerVars == <<client, slots, containers, processes, stray, timeouts>>

\* A group without hosts runs here, without a limit.
LocalHost == [group |-> "local", cores |-> 0, id |-> 0]
AllHosts == Hosts \union {LocalHost}

ContainersAssumption ==
  /\ IsFiniteSet(Clients)
  /\ \A r \in Requests : r.cores \in Nat
  /\ \A h \in Hosts : h.cores \in Nat
  /\ LocalHost \notin Hosts /\ None \notin AllHosts

Init ==
  /\ \E r \in [Clients -> Requests] :
       client = [c \in Clients |-> [request |-> r[c], phase |-> "idle", host |-> None, stop |-> FALSE]]
  /\ slots = [h \in AllHosts |-> [c \in {} |-> 0]]
  /\ containers = {} /\ processes = {} /\ stray = {}
  /\ timeouts = 0

(***************************************************************************)
(* has_slots, alloc and free.                                              *)
(***************************************************************************)
Group(c) == {h \in Hosts : h.group = client[c].request.group}
\* sum(self.slots.values()), as the cores that each client has.
CoresOf(h) == UNION {{c} \X (1..slots[h][c]) : c \in DOMAIN slots[h]}
InUse(h) == Cardinality(CoresOf(h))

HasSlots(h, cores) ==
  IF h.cores = 0 \/ h.group = "build" THEN DOMAIN slots[h] = {} ELSE InUse(h) + cores <= h.cores

Grant(c, h) ==
  /\ slots' = [slots EXCEPT ![h] = [x \in DOMAIN @ \union {c} |-> IF x = c THEN client[c].request.cores ELSE @[x]]]
  /\ client' = [client EXCEPT ![c].phase = "scoped", ![c].host = h]

Ask(c) ==
  /\ client[c].phase = "idle"
  /\ \A h \in Group(c) : client[c].request.cores <= h.cores  \* asserted
  /\ IF Group(c) = {} THEN Grant(c, LocalHost)
     ELSE client' = [client EXCEPT ![c].phase = "asking"] /\ UNCHANGED slots
  /\ UNCHANGED <<containers, processes, stray, timeouts>>

Alloc(c) == \* the hosts are looked at in random order
  /\ client[c].phase = "asking"
  /\ LET fitting == {h \in Group(c) : HasSlots(h, client[c].request.cores)}
     IN IF fitting # {} THEN \E h \in fitting : Grant(c, h)
        ELSE client' = [client EXCEPT ![c].phase = "waiting"] /\ UNCHANGED slots
  /\ UNCHANGED <<containers, processes, stray, timeouts>>

\* Mutant: only one waiter is told.
OneTold(c) ==
  LET waiting == {x \in Clients : client[x].phase = "waiting"}
  IN IF waiting = {} THEN {} ELSE {CHOOSE x \in waiting : TRUE}
Told(c) == {x \in Clients : client[x].phase = "waiting"}
Free(c) == \* the slot goes first: others may have it while the processes still run
  /\ client[c].phase = "leaving"
  /\ slots' = [slots EXCEPT ![client[c].host] = [x \in DOMAIN @ \ {c} |-> @[x]]]
  /\ client' = [x \in Clients |->
       IF x = c THEN [client[c] EXCEPT !.phase = "ending", !.host = None, !.stop = FALSE]
       ELSE IF x \in Told(c) THEN [client[x] EXCEPT !.phase = "asking"] ELSE client[x]]
  /\ UNCHANGED <<containers, processes, stray, timeouts>>

\* ProcessScope._exit terminates, waits and kills.  docker run hands its SIGTERM on to the
\* container it is attached to; if it must be killed the container stays.
EndProcesses(c) ==
  /\ client[c].phase = "ending"
  /\ processes' = processes \ {c}
  /\ containers' \in {containers, containers \ {c}}
  /\ client' = [client EXCEPT ![c].phase = "done"]
  /\ UNCHANGED <<slots, stray, timeouts>>

(***************************************************************************)
(* run(): the launch is shielded, so that a container that started has its *)
(* id known and is killed.                                                 *)
(***************************************************************************)
Launch(c) == \* docker run
  /\ client[c].phase = "scoped"
  /\ client' = [client EXCEPT ![c].phase = "launching"] /\ processes' = processes \union {c}
  /\ UNCHANGED <<slots, containers, stray, timeouts>>

Up(c) == \* it comes up: the container's id is in its file
  /\ client[c].phase = "launching" /\ c \notin containers
  /\ containers' = containers \union {c}
  /\ UNCHANGED <<client, slots, processes, stray, timeouts>>

Launched(c) == IF client[c].stop THEN "killing" ELSE "running"
ReadId(c) ==
  /\ client[c].phase = "launching" /\ c \in containers
  /\ client' = [client EXCEPT ![c].phase = Launched(c)]
  /\ UNCHANGED <<slots, containers, processes, stray, timeouts>>

LaunchFails(c) == \* docker run exited without an id
  /\ client[c].phase = "launching" /\ c \notin containers
  /\ client' = [client EXCEPT ![c].phase = "leaving"]
  /\ UNCHANGED <<slots, containers, processes, stray, timeouts>>

\* No id within CONTAINER_SPAWN_TIMEOUT (with an id in its file it is ReadId that happens):
\* run() raises and its scope ends, with docker run still under way.
SpawnTimeout(c) ==
  /\ timeouts < Timeouts
  /\ client[c].phase = "launching" /\ c \notin containers
  /\ timeouts' = timeouts + 1
  /\ stray' = stray \union {c}
  /\ client' = [client EXCEPT ![c].phase = "leaving"]
  /\ UNCHANGED <<slots, containers, processes>>

UpLate(c) == \* its container comes up after all
  /\ c \in stray \cap processes /\ c \notin containers
  /\ containers' = containers \union {c}
  /\ UNCHANGED <<client, slots, processes, stray, timeouts>>

Finish(c) == \* the body is done
  /\ client[c].phase = "running"
  /\ client' = [client EXCEPT ![c].phase = "killing"]
  /\ UNCHANGED <<slots, containers, processes, stray, timeouts>>

Kill(c) == \* cleanup(): docker kill
  /\ client[c].phase = "killing"
  /\ containers' = containers \ {c}
  /\ client' = [client EXCEPT ![c].phase = "leaving"]
  /\ UNCHANGED <<slots, processes, stray, timeouts>>

Stop(c) == \* cancelled, or the timeout of alloc or of the scope
  /\ timeouts < Timeouts /\ ~client[c].stop
  /\ client[c].phase \in {"asking", "waiting", "scoped", "launching", "running"}
  /\ timeouts' = timeouts + 1
  /\ client' = [client EXCEPT ![c].phase = CASE @ \in {"asking", "waiting"} -> "done"
                                             [] @ = "scoped" -> "leaving"
                                             [] @ = "launching" -> "launching"
                                             [] OTHER -> "killing",
                              ![c].stop = client[c].phase = "launching"]
  /\ UNCHANGED <<slots, containers, processes, stray>>

Next == \E c \in Clients :
  \/ Ask(c) \/ Alloc(c) \/ Free(c) \/ EndProcesses(c) \/ Launch(c) \/ Up(c) \/ ReadId(c)
  \/ LaunchFails(c) \/ SpawnTimeout(c) \/ UpLate(c) \/ Finish(c) \/ Kill(c) \/ Stop(c)
ContainersSpec == Init /\ [][Next]_containerVars

(***************************************************************************)
(* Properties.                                                             *)
(***************************************************************************)
\* A host never has more cores booked than it has, a builder never two clients at once.
NoOvercommit ==
  \A h \in Hosts : IF h.group = "build" THEN Cardinality(DOMAIN slots[h]) <= 1 ELSE InUse(h) <= h.cores

\* Whoever waits has nothing to wait for that is free: freeing wakes everybody it could suit.
NoSlotMissed ==
  \A c \in Clients : client[c].phase = "waiting" =>
    \A h \in Group(c) : ~HasSlots(h, client[c].request.cores)

\* A container and a slot belong to a client that is in its scope and will give them back,
\* wherever it was cancelled: "invariant: not cid <=> the container is not started".  The one
\* container that nobody kills is that of a launch given up before its id was there.  A process
\* belongs to a client in its scope, or to one that gave its slot back and ends its processes.
NothingLeaks ==
  /\ \A c \in containers :
       client[c].phase \in {"launching", "running", "killing"} \/ c \in stray
  /\ \A h \in AllHosts : DOMAIN slots[h] = {c \in Clients : client[c].host = h}
  /\ processes \subseteq {c \in Clients : client[c].host # None \/ client[c].phase = "ending"}
ContainersAccounted == NoOvercommit /\ NoSlotMissed /\ NothingLeaks
=============================================================================
