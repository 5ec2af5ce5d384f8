----------------------------- MODULE Container ------------------------------
(***************************************************************************)
(* The life of containers, as qsrdocker commands run it.                   *)
(*                                                                         *)
(* There is no daemon.  Every command (run, stop, start, rm, ps, inspect)  *)
(* is a process that reads containernames.json and a container's           *)
(* config.json, acts on the host (processes, veth links, mounts, the IP    *)
(* address manager) and writes the files back, without any lock on them.   *)
(* A step below is what a command does between two accesses to shared      *)
(* state; what it carries from one to the next is in its record in "term". *)
(*                                                                         *)
(* All containers use one bridge network, Net, or the host's network.  A   *)
(* call of the IP address manager is one step (see Ipam and IpamFile), and *)
(* so is a write of one file.                                              *)
(***************************************************************************)
EXTENDS IpamBitmap, FiniteSets

CONSTANTS
  Terminals,  \* where commands are typed; each runs one at a time
  Ids,        \* container ids
  Names,      \* names a user may give to a container
  Pids,       \* process ids, positive numbers
  Net,        \* the subnet of the bridge network
  Commands,   \* bound: the commands that are used
  Faults      \* bound: what may go wrong, see FaultKinds

FaultKinds ==
  { "die",         \* a container may exit while a command is running
    "ignore_term", \* a container may survive SIGTERM
    "attach",      \* setting up the veth pair may fail before its address
    "workspace",   \* mounting the overlay may fail
    "log",         \* "logs" may make a log for a terminal's container
    "network",     \* the network may be deleted and created again
    "crash",       \* a command may be killed between two steps
    "reboot" }     \* the host may restart, and reuses process ids

CommandKinds == {"run", "stop", "start", "rm", "ps", "inspect"}

ASSUME ContainerAssumptions ==
  /\ Pids \subseteq Nat \ {0}
  /\ Net \in Subnets /\ Net.size <= Octet
  /\ Commands \subseteq CommandKinds
  /\ Faults \subseteq FaultKinds
  /\ Ids \cap Names = {}

VARIABLES
  names,    \* containernames.json: name or id -> id
  info,     \* the config.json files: id -> container info
  mounted,  \* the containers whose overlay is mounted
  procs,    \* the live container processes: pid -> whose, and its address
  subnets,  \* subnet.json
  network,  \* whether the network's own file exists
  term      \* the command each terminal is running

vars == <<names, info, mounted, procs, subnets, network, term>>

-----------------------------------------------------------------------------
(* Data. *)

\* An absent name, id or info, and the nil address.
None == NilIP

\* A file that is not there, or holds an empty map.
NoFile == [x \in {} |-> None]

\* "pid = -1", as stop records it.
NoPid == -1

Statuses == {"", "Running", "Paused", "Dead"}

\* NetWorks is nil, an endpoint of a driver without addresses, or an endpoint
\* of the bridge.
EndpointKinds == {"nil", "host", "bridge"}

InfoType ==
  [status : Statuses, pid : Pids \cup {NoPid}, kind : EndpointKinds,
   ip : Block(Net) \cup {NilIP}, name : Names \cup Ids, tty : BOOLEAN]

NoInfo(i) ==
  [status |-> "", pid |-> NoPid, kind |-> "nil", ip |-> NilIP,
   name |-> i, tty |-> FALSE]

\* A terminal that waits for input.  "own" is the id the command was given,
\* "id" the one it looks at: rm calls stopContainer with the name, which is
\* looked up again.
Rest ==
  [cmd |-> "none", pc |-> "rest", phase |-> "self", key |-> None,
   id |-> None, own |-> None, net |-> "host", force |-> FALSE,
   info |-> None, copy |-> NoFile]

Invocation(cmd, pc, key, i) ==
  [Rest EXCEPT !.cmd = cmd, !.pc = pc, !.key = key, !.id = i, !.own = i]

\* The function f with one more, or one fewer, argument.
With(f, x, y) == [z \in DOMAIN f \cup {x} |-> IF z = x THEN y ELSE f[z]]
Without(f, S) == [z \in DOMAIN f \ S |-> f[z]]

Live == DOMAIN procs

\* A terminal whose command only waits for the container to exit is quiet.
Quiet(t) == term[t].pc \in {"rest", "wait"}
AllQuiet == \A t \in Terminals : Quiet(t)

\* Process ids that no record and no command mentions; a reboot starts the
\* numbering again.
FreshPids ==
  IF "reboot" \in Faults
    THEN Pids \ Live
    ELSE Pids \ ( Live \cup {info[i].pid : i \in DOMAIN info}
                  \cup {term[t].info.pid : t \in {u \in Terminals : term[u].info # None}} )

\* randStringContainerID: an id nothing refers to.
FreshIds ==
  {i \in Ids :
     /\ i \notin DOMAIN info \cup mounted \cup DOMAIN names
     /\ \A p \in Live : procs[p].owner # i
     /\ \A t \in Terminals : term[t].id # i /\ term[t].own # i}

Goto(t, pc) == term' = [term EXCEPT ![t].pc = pc]
Become(t, c) == term' = [term EXCEPT ![t] = c]
Return(t) == Become(t, Rest)

Init ==
  /\ names = NoFile
  /\ info = NoFile
  /\ mounted = {}
  /\ procs = NoFile
  /\ subnets = WithBit(WithSubnet(NoSubnets, Net), Net, GatewayBit)
  /\ network = TRUE
  /\ term = [t \in Terminals |-> Rest]

-----------------------------------------------------------------------------
(* A command is typed. *)

Run(t) ==
  \E i \in FreshIds, nt \in {"host", "bridge"}, tty \in BOOLEAN :
    \E n \in Names \cup {i} :
      Become(t, [Invocation("run", "name", n, i) EXCEPT
                   !.net = nt, !.info = [NoInfo(i) EXCEPT !.name = n, !.tty = tty]])

\* stop, start, rm and inspect take a name or an id.
OnContainer(t, cmd) ==
  \E key \in DOMAIN names : Become(t, Invocation(cmd, "lookup", key, None))

RemoveForced(t) ==
  \E key \in DOMAIN names :
    Become(t, [Invocation("rm", "lookup", key, None) EXCEPT !.force = TRUE])

\* ps lists the directories, and looks at one after the other.
List(t) ==
  \E i \in DOMAIN info : Become(t, Invocation("ps", "read", i, i))

Type(t) ==
  /\ term[t].pc = "rest"
  /\ \/ "run" \in Commands /\ Run(t)
     \/ \E cmd \in Commands \cap {"stop", "start", "rm", "inspect"} : OnContainer(t, cmd)
     \/ "rm" \in Commands /\ RemoveForced(t)
     \/ "ps" \in Commands /\ List(t)
  /\ UNCHANGED <<names, info, mounted, procs, subnets, network>>

-----------------------------------------------------------------------------
(* Reading and checking a container's info (GetContainerIDByName,           *)
(* GetContainerInfoByNameID, GetContainerInfo, GetContainerStatusByName).   *)

\* rm goes on with RemoveContainerNameInfo.
Unregister(c) == [c EXCEPT !.phase = "unname", !.pc = "read", !.id = c.own]

\* stopContainer returns, to its command or to rm.
StopReturned(c) == IF c.cmd = "stop" THEN Rest ELSE Unregister(c)

\* The container or its info is not found.
NotFound(c) ==
  CASE c.phase = "self"   -> Rest
    [] c.phase = "stop"   -> Unregister(c)
    [] c.phase = "unname" -> [c EXCEPT !.pc = "delete"]

Lookup(t) ==
  LET c == term[t] IN
  /\ c.pc = "lookup"
  /\ Become(t, IF c.key \in DOMAIN names
                 THEN [c EXCEPT !.id = names[c.key], !.pc = "read",
                                !.own = IF c.phase = "self" THEN names[c.key] ELSE @]
                 ELSE NotFound(c))
  /\ UNCHANGED <<names, info, mounted, procs, subnets, network>>

\* stop, start and rm look the id up once more; then config.json is read.
Read(t) ==
  LET c == term[t] IN
  /\ c.pc = "read"
  /\ Become(t, IF (c.cmd \in {"ps", "inspect"} \/ c.id \in DOMAIN names) /\ c.id \in DOMAIN info
                 THEN [c EXCEPT !.info = info[c.id], !.pc = "check"]
                 ELSE NotFound(c))
  /\ UNCHANGED <<names, info, mounted, procs, subnets, network>>

\* StatusCheck: whether the pid exists decides between Running and Dead, but
\* Paused stays as long as the pid does not exist.
StatusCheck(r) ==
  IF r.pid \in Live THEN [r EXCEPT !.status = "Running"]
  ELSE IF r.status = "Paused" THEN r
  ELSE [r EXCEPT !.status = "Dead"]

\* A bug: stop only refuses what is not alive by accident, or rm leaves the
\* address of a dead container alone.
Checked_Hasty(c, r) ==
  LET d == [c EXCEPT !.info = r]
      at(pc) == [d EXCEPT !.pc = pc]
  IN
  CASE c.phase = "unname" -> at("nameread")
    [] c.phase = "stop" \/ c.cmd = "stop" ->
         IF r.status # "Dead" THEN at("disconnect") ELSE StopReturned(d)
    [] c.cmd = "rm" /\ c.phase = "self" ->
         IF r.status = "Running" THEN Rest ELSE Unregister(d)
    [] OTHER -> Rest

\* What a command does once it knows the container's status.
Checked(c, r) ==
  LET d == [c EXCEPT !.info = r]
      at(pc) == [d EXCEPT !.pc = pc]
  IN
  CASE c.phase = "unname" -> at("nameread")
    [] c.phase = "stop" \/ (c.phase = "self" /\ c.cmd = "stop") ->
         IF r.status = "Running" THEN at("disconnect") ELSE StopReturned(d)
    [] c.phase = "self" /\ c.cmd = "rm" ->
         (CASE r.status = "Running" /\ c.force -> [at("lookup") EXCEPT !.phase = "stop"]
            [] r.status = "Running" /\ ~c.force -> Rest
            [] r.status = "Dead" -> at("disconnect")
            [] OTHER -> Unregister(d))
    [] c.phase = "self" /\ c.cmd = "start" ->
         (CASE r.status = "Running" -> Rest
            [] r.status = "Dead" -> at("disconnect")
            [] OTHER -> at("health"))
    [] OTHER -> Rest

\* The checked info is written back, over whatever is there by now; the
\* directory is made again if it is gone.
Check(t) ==
  LET c == term[t]
      r == StatusCheck(c.info)
  IN
  /\ c.pc = "check"
  /\ info' = With(info, c.id, r)
  /\ Become(t, Checked(c, r))
  /\ UNCHANGED <<names, mounted, procs, subnets, network>>

-----------------------------------------------------------------------------
(* Disconnect: the veth pair is deleted, then the address is released.      *)

\* The processes without the link of this info's endpoint.
Unlinked(i, r) ==
  [p \in Live |-> IF p = r.pid /\ procs[p].owner = i
                    THEN [procs[p] EXCEPT !.ip = NilIP] ELSE procs[p]]

Disconnected(c) ==
  CASE c.cmd = "stop" \/ c.phase = "stop" -> [c EXCEPT !.pc = "kill"]
    [] c.cmd = "start" -> [c EXCEPT !.pc = "health"]
    [] OTHER -> Unregister(c)

\* A bug: the early return for other drivers ends the command.
DisconnectHost_Returns(t) ==
  /\ term[t].pc = "disconnect" /\ term[t].info.kind = "host"
  /\ Return(t)
  /\ UNCHANGED <<names, info, mounted, procs, subnets, network>>

DisconnectHost(t) ==
  LET c == term[t] IN
  /\ c.pc = "disconnect" /\ c.info.kind = "host"
  /\ Become(t, Disconnected(c))
  /\ UNCHANGED <<names, info, mounted, procs, subnets, network>>

DisconnectBridge(t) ==
  LET c == term[t] IN
  /\ c.pc = "disconnect" /\ c.info.kind = "bridge"
  /\ procs' = Unlinked(c.id, c.info)
  /\ IF ReleasePanics(subnets, Net, c.info.ip)
       THEN Return(t) /\ UNCHANGED subnets
       ELSE /\ subnets' = Released(subnets, Net, c.info.ip)
            /\ Become(t, Disconnected(c))
  /\ UNCHANGED <<names, info, mounted, network>>

\* NetWorks is nil: the command panics.
DisconnectNil(t) ==
  /\ term[t].pc = "disconnect" /\ term[t].info.kind = "nil"
  /\ Return(t)
  /\ UNCHANGED <<names, info, mounted, procs, subnets, network>>

-----------------------------------------------------------------------------
(* stopContainer, after Disconnect. *)

\* syscall.Kill(pid, SIGTERM): an error ends stopContainer.
Kill(t) ==
  LET c == term[t] IN
  /\ c.pc = "kill"
  /\ IF c.info.pid \in Live
       THEN /\ \/ procs' = Without(procs, {c.info.pid})
               \/ "ignore_term" \in Faults /\ UNCHANGED procs
            /\ Goto(t, "paused")
       ELSE /\ Become(t, StopReturned(c))
            /\ UNCHANGED procs
  /\ UNCHANGED <<names, info, mounted, subnets, network>>

\* A bug: the pid stays in the record.
RecordPaused_KeepsPid(t) ==
  LET c == term[t] IN
  /\ c.pc = "paused"
  /\ info' = With(info, c.id, [c.info EXCEPT !.status = "Paused"])
  /\ Become(t, StopReturned(c))
  /\ UNCHANGED <<names, mounted, procs, subnets, network>>

RecordPaused(t) ==
  LET c == term[t] IN
  /\ c.pc = "paused"
  /\ info' = With(info, c.id, [c.info EXCEPT !.status = "Paused", !.pid = NoPid])
  /\ Become(t, StopReturned(c))
  /\ UNCHANGED <<names, mounted, procs, subnets, network>>

-----------------------------------------------------------------------------
(* run and start: the container's process. *)

\* run: the name must not be in use.
CheckName(t) ==
  LET c == term[t] IN
  /\ c.pc = "name"
  /\ IF c.key \in DOMAIN names THEN Return(t) ELSE Goto(t, "workspace")
  /\ UNCHANGED <<names, info, mounted, procs, subnets, network>>

\* run: NewParentProcess, NewWorkSpace.
MakeWorkSpace(t) ==
  LET c == term[t] IN
  /\ c.pc = "workspace"
  /\ \/ mounted' = mounted \cup {c.id} /\ Goto(t, "spawn")
     \/ "workspace" \in Faults /\ Return(t) /\ UNCHANGED mounted
  /\ UNCHANGED <<names, info, procs, subnets, network>>

\* start: the mount, the endpoint and the log file must be there.  A detached
\* container has a log, a terminal's only after "logs" was asked for it.
Health(t) ==
  LET c == term[t]
      healthy == c.id \in mounted /\ c.id \in DOMAIN info /\ c.info.kind # "nil"
  IN
  /\ c.pc = "health"
  /\ \/ healthy /\ (~c.info.tty \/ "log" \in Faults) /\ Goto(t, "spawn")
     \/ (~healthy \/ c.info.tty) /\ Return(t)
  /\ UNCHANGED <<names, info, mounted, procs, subnets, network>>

AfterConnect(c) == IF c.cmd = "run" THEN "nameread" ELSE "record"

\* The process is started and waits for its command on the pipe.  A network
\* without addresses gives a container its endpoint at once.
Spawn(t) ==
  LET c      == term[t]
      bridge == IF c.cmd = "run" THEN c.net = "bridge" ELSE c.info.kind = "bridge"
  IN
  /\ c.pc = "spawn"
  /\ \E p \in FreshPids :
       LET up == [c.info EXCEPT !.status = "Running", !.pid = p] IN
       /\ \A q \in FreshPids : p <= q
       /\ procs' = With(procs, p, [owner |-> c.id, ip |-> NilIP])
       /\ Become(t, IF bridge
                      THEN [c EXCEPT !.info = up, !.pc = "allocate"]
                      ELSE [c EXCEPT !.info = [up EXCEPT !.kind = "host"],
                                     !.pc = AfterConnect(c)])
  /\ UNCHANGED <<names, info, mounted, subnets, network>>

\* Connect: without the network's file or its subnet there is an error, and
\* the endpoint stays what it was; run goes on without one.
AllocateFails(t) ==
  LET c == term[t] IN
  /\ c.pc = "allocate"
  /\ ~network \/ Net \notin DOMAIN subnets
  /\ Goto(t, AfterConnect(c))
  /\ UNCHANGED <<names, info, mounted, procs, subnets, network>>

\* Connect: an exhausted network gives the nil address and no error.
AllocateAddress(t) ==
  LET c == term[t] IN
  /\ c.pc = "allocate"
  /\ network /\ Net \in DOMAIN subnets
  /\ IF FreeBits(subnets, Net) = {}
       THEN /\ Become(t, [c EXCEPT !.info.kind = "bridge", !.info.ip = NilIP,
                                   !.pc = "attach"])
            /\ UNCHANGED subnets
       ELSE LET o == FirstFree(subnets, Net) IN
            /\ Become(t, [c EXCEPT !.info.kind = "bridge",
                                   !.info.ip = AddrOf(Net, o), !.pc = "attach"])
            /\ subnets' = WithBit(subnets, Net, o)
  /\ UNCHANGED <<names, info, mounted, procs, network>>

\* The veth pair is made and configured in the network namespace of the
\* process, if it still has one; errors are only logged.  One before the address
\* is set leaves the process without it, one after that leaves it there, as if
\* nothing had failed.
Attach(t) ==
  LET c == term[t] IN
  /\ c.pc = "attach"
  /\ \/ /\ c.info.pid \in Live
        /\ procs' = [procs EXCEPT ![c.info.pid].ip = c.info.ip]
     \/ /\ c.info.pid \notin Live \/ "attach" \in Faults
        /\ UNCHANGED procs
  /\ Goto(t, AfterConnect(c))
  /\ UNCHANGED <<names, info, mounted, subnets, network>>

\* RecordContainerInfo at the end of run and start; a tty run then waits.
Record(t) ==
  LET c == term[t] IN
  /\ c.pc = "record"
  /\ info' = With(info, c.id, c.info)
  /\ IF c.cmd = "run" /\ c.info.tty THEN Goto(t, "wait") ELSE Return(t)
  /\ UNCHANGED <<names, mounted, procs, subnets, network>>

\* containerProcess.Wait() returns, and run cleans up after the container.
Waited(t) ==
  /\ term[t].pc = "wait"
  /\ term[t].info.pid \notin Live
  /\ Goto(t, "disconnect")
  /\ UNCHANGED <<names, info, mounted, procs, subnets, network>>

-----------------------------------------------------------------------------
(* containernames.json is read, changed and written as a whole              *)
(* (recordContainerNameInfo, RemoveContainerNameInfo).                      *)

ReadNames(t) ==
  /\ term[t].pc = "nameread"
  /\ term' = [term EXCEPT ![t].copy = names, ![t].pc = "namewrite"]
  /\ UNCHANGED <<names, info, mounted, procs, subnets, network>>

RecordName(t) ==
  LET c == term[t] IN
  /\ c.pc = "namewrite" /\ c.phase = "self"
  /\ names' = With(With(c.copy, c.info.name, c.id), c.id, c.id)
  /\ Become(t, [c EXCEPT !.copy = NoFile, !.pc = "record"])
  /\ UNCHANGED <<info, mounted, procs, subnets, network>>

\* A bug: the entry of the id is forgotten.
RemoveName_KeepsId(t) ==
  LET c == term[t] IN
  /\ c.pc = "namewrite" /\ c.phase = "unname"
  /\ names' = Without(c.copy, {c.info.name})
  /\ Become(t, [c EXCEPT !.copy = NoFile, !.pc = "delete"])
  /\ UNCHANGED <<info, mounted, procs, subnets, network>>

RemoveName(t) ==
  LET c == term[t] IN
  /\ c.pc = "namewrite" /\ c.phase = "unname"
  /\ names' = Without(c.copy, {c.info.name, c.id})
  /\ Become(t, [c EXCEPT !.copy = NoFile, !.pc = "delete"])
  /\ UNCHANGED <<info, mounted, procs, subnets, network>>

\* DeleteWorkSpace, and the end of rm and of a tty run.
DeleteWorkSpace(t) ==
  LET c == term[t] IN
  /\ c.pc = "delete"
  /\ mounted' = mounted \ {c.id}
  /\ info' = Without(info, {c.id})
  /\ Return(t)
  /\ UNCHANGED <<names, procs, subnets, network>>

-----------------------------------------------------------------------------
(* What happens around the commands. *)

\* A container's process exits, and its network namespace goes with it.
Exit(p) ==
  /\ "die" \in Faults \/ AllQuiet
  /\ procs' = Without(procs, {p})
  /\ UNCHANGED <<names, info, mounted, subnets, network, term>>

\* A command is killed: its effects stay, what it had yet to do is not done.
Crash(t) ==
  /\ "crash" \in Faults
  /\ term[t].pc # "rest"
  /\ Return(t)
  /\ UNCHANGED <<names, info, mounted, procs, subnets, network>>

\* The files survive a reboot; processes, links and mounts do not.
Reboot ==
  /\ "reboot" \in Faults
  /\ procs' = NoFile
  /\ mounted' = {}
  /\ term' = [t \in Terminals |-> Rest]
  /\ UNCHANGED <<names, info, subnets, network>>

\* DeleteNetwork asks nobody whether the network is in use.
DeleteNetwork ==
  /\ "network" \in Faults
  /\ network
  /\ network' = FALSE
  /\ subnets' = Released(subnets, Net, Gateway(Net))
  /\ UNCHANGED <<names, info, mounted, procs, term>>

\* A bug: the gateway's address is not taken.
CreateNetwork_NoGateway ==
  /\ "network" \in Faults
  /\ ~network /\ CanCreate(subnets, Net)
  /\ network' = TRUE
  /\ subnets' = WithSubnet(subnets, Net)
  /\ UNCHANGED <<names, info, mounted, procs, term>>

CreateNetwork ==
  /\ "network" \in Faults
  /\ ~network /\ CanCreate(subnets, Net)
  /\ network' = TRUE
  /\ subnets' = WithBit(WithSubnet(subnets, Net), Net, GatewayBit)
  /\ UNCHANGED <<names, info, mounted, procs, term>>

-----------------------------------------------------------------------------
Step(t) ==
  \/ Lookup(t) \/ Read(t) \/ Check(t)
  \/ DisconnectHost(t) \/ DisconnectBridge(t) \/ DisconnectNil(t)
  \/ Kill(t) \/ RecordPaused(t)
  \/ CheckName(t) \/ MakeWorkSpace(t) \/ Health(t) \/ Spawn(t)
  \/ AllocateFails(t) \/ AllocateAddress(t) \/ Attach(t) \/ Record(t) \/ Waited(t)
  \/ ReadNames(t) \/ RecordName(t) \/ RemoveName(t) \/ DeleteWorkSpace(t)

Environment ==
  \/ \E p \in Live : Exit(p)
  \/ Reboot \/ DeleteNetwork \/ CreateNetwork

Next ==
  \/ \E t \in Terminals : Type(t) \/ Step(t) \/ Crash(t)
  \/ Environment

Spec == Init /\ [][Next]_vars

\* The operating system schedules every command; users need not type any.
FairSpec == Spec /\ \A t \in Terminals : WF_vars(Step(t))
-----------------------------------------------------------------------------
(* Types. *)

ControlPoints ==
  { "rest", "lookup", "read", "check", "disconnect", "kill", "paused", "name",
    "workspace", "health", "spawn", "allocate", "attach", "nameread",
    "namewrite", "record", "wait", "delete" }

\* "stop" while rm is in stopContainer, "unname" from RemoveContainerNameInfo on.
Phases == {"self", "stop", "unname"}

IsFile(f, Keys, Values) ==
  /\ DOMAIN f \subseteq Keys
  /\ f = [x \in DOMAIN f |-> f[x]]
  /\ \A x \in DOMAIN f : f[x] \in Values

ProcType == [owner : Ids, ip : Block(Net) \cup {NilIP}]

\* The points at which a command holds a container's info.
HoldsInfo == ControlPoints \ {"rest", "lookup", "read", "delete"}

NameFiles == UNION {[S -> Ids] : S \in SUBSET (Names \cup Ids)}

CommandType ==
  [cmd : CommandKinds \cup {"none"}, pc : ControlPoints, phase : Phases,
   key : Names \cup Ids \cup {None}, id : Ids \cup {None}, own : Ids \cup {None},
   net : {"host", "bridge"}, force : BOOLEAN,
   info : InfoType \cup {None}, copy : NameFiles]

IsCommand(c) ==
  /\ c \in CommandType
  /\ c.pc \in {"rest", "lookup"} \/ c.id \in Ids
  /\ c.pc = "rest" \/ (c.pc = "lookup" /\ c.phase = "self") \/ c.own \in Ids
  /\ c.pc \in HoldsInfo => c.info \in InfoType

\* The files hold what their Go types say, and a command that uses a
\* container's id or info has one.
TypeOK ==
  /\ names \in NameFiles
  /\ IsFile(info, Ids, InfoType)
  /\ mounted \subseteq Ids
  /\ IsFile(procs, Pids, ProcType)
  /\ IsMap(subnets) /\ DOMAIN subnets \subseteq {Net}
  /\ network \in BOOLEAN
  /\ term = [t \in Terminals |-> term[t]]
  /\ \A t \in Terminals : IsCommand(term[t])

-----------------------------------------------------------------------------
(* Properties of any use, however commands overlap and whatever fails. *)

\* kill(-1, SIGTERM) would signal every process of the host: stopContainer
\* never gets to its Kill with the pid -1 that an earlier stop recorded.
NeverSignalsEveryone ==
  \A t \in Terminals : term[t].pc = "kill" => term[t].info.pid # NoPid

\* Releasing the gateway's address drops the whole subnet (ipam.go), so no
\* container may ever come to hold it: not in a record, not on a link, not in
\* the memory of a command, though addresses are released twice, subnets are
\* created anew under running containers and commands die half way.
GatewayUntouched ==
  /\ Net \in DOMAIN subnets => GatewayBit \in subnets[Net]
  /\ \A i \in DOMAIN info : info[i].ip # Gateway(Net)
  /\ \A p \in Live : procs[p].ip # Gateway(Net)
  /\ \A t \in Terminals : term[t].info # None => term[t].info.ip # Gateway(Net)

(* Properties of commands that do not overlap (one terminal). *)

\* A container the user stopped stays stopped until start records that it runs
\* again: no status check takes it for one that died ("Dead", container.go) or
\* for a running one, whatever processes and process ids come and go, reboots
\* and a process that survived SIGTERM included.
PausedSticky ==
  [][\A i \in DOMAIN info \cap DOMAIN info' :
       info[i].status = "Paused" /\ info'[i].status # "Paused"
         => \E t \in Terminals :
              term[t].cmd = "start" /\ term[t].pc = "record" /\ term[t].id = i]_vars

\* The containers whose record says that they hold an address.
Holders ==
  {i \in DOMAIN info : /\ info[i].status # "Paused"
                       /\ info[i].kind = "bridge"
                       /\ info[i].ip # NilIP}

\* Between commands the bitmap and the containers' records tell the same
\* story: the addresses in use are the gateway's and those of the containers
\* that were not stopped, and no two of these containers have the same.
LeaseAccounting ==
  AllQuiet =>
    /\ LeasedIn(subnets) = {Gateway(Net)} \cup {info[i].ip : i \in Holders}
    /\ \A i, j \in Holders : info[i].ip = info[j].ip => i = j

\* Between commands every container can be named, seen, stopped and removed:
\* the name file, the records and the mounts are about the same containers,
\* each under its own id and name, and every live process is the one its
\* container's record points to.
Reachable ==
  AllQuiet =>
    /\ DOMAIN names = DOMAIN info \cup {info[i].name : i \in DOMAIN info}
    /\ \A i \in DOMAIN info : names[i] = i /\ names[info[i].name] = i
    /\ mounted = DOMAIN info
    /\ \A p \in Live : procs[p].owner \in DOMAIN info /\ info[procs[p].owner].pid = p

(* Liveness. *)

\* The tty run that waits for container i, which has not the nil address of an
\* exhausted network, and whose process has exited.
TtyOver(t, i) ==
  /\ term[t].pc = "wait" /\ term[t].id = i
  /\ term[t].info.pid \notin Live
  /\ term[t].info.kind = "host" \/ term[t].info.ip # NilIP

\* A container that was run on a terminal is cleaned up when its process
\* exits: its record and its mount go away, whatever other commands do to it or
\* to the name file in the meantime, short of deleting its network.  (Its name
\* may stay: a run that overlaps can write back a name file it read before.)
TtyCleanup ==
  \A t \in Terminals, i \in Ids :
    TtyOver(t, i) /\ network ~> i \notin DOMAIN info \cup mounted \/ ~network

(* What a comment says, and a container that exits at the wrong moment      *)
(* refutes.                                                                 *)

\* An address is allocated to one container at a time (ipam.go: a bit is 1
\* while its address is in use).
AddressExclusive ==
  \A p, q \in Live : procs[p].ip = procs[q].ip /\ procs[p].ip # NilIP => p = q

=============================================================================
