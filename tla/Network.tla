------------------------------ MODULE Network -------------------------------
(***************************************************************************)
(* Networks: "network create", "network remove", and the part of run that  *)
(* comes first (IPtablesInit and InitNetwork, which makes the default      *)
(* network and restores every other after a reboot).                       *)
(*                                                                         *)
(* A network is a file, a subnet of the IP address manager, a bridge with  *)
(* an address and six iptables rules; nothing keeps these together but the *)
(* order in which a command makes them.  Files and subnets survive a       *)
(* reboot, bridges, chains and rules do not.  A step is one access to any  *)
(* of these.                                                               *)
(***************************************************************************)
EXTENDS IpamBitmap, FiniteSets

CONSTANTS
  Users,          \* where commands are typed; each runs one at a time
  NetIds,         \* names of networks, which are names of bridges too
  Default,        \* the default network, and its subnet
  DefaultSubnet,
  MaxMishaps      \* bound: kinds of things that go wrong in one behaviour

ASSUME NetworkAssumptions ==
  /\ Default \in NetIds
  /\ DefaultSubnet \in Subnets /\ DefaultSubnet.size <= Octet

VARIABLES
  subnets,  \* subnet.json
  files,    \* the network files: id -> subnet and gateway, or Torn
  links,    \* the bridges: id -> addresses, and whether it is up
  chains,   \* what IPtablesInit has made
  rules,    \* how often each rule is in the kernel's tables
  proc,     \* the command each user is running
  seen      \* what has gone wrong so far

vars == <<subnets, files, links, chains, rules, proc, seen>>

-----------------------------------------------------------------------------
(* Data. *)

\* A file that was truncated and not yet written.
Torn == [subnet |-> NilIP, gw |-> NilIP]

NoNetworks == [n \in {} |-> Torn]

\* The rules of setIPTables, in its order.  Only the fifth, the masquerading
\* of what leaves the bridge, mentions the subnet.
RuleNumbers == 1 .. 6
Rule(k, s) == <<k, IF k = 5 THEN s ELSE NilIP>>
Rules == {Rule(k, s) : k \in RuleNumbers, s \in Subnets}

\* The chain a rule needs, which IPtablesInit makes.
ChainOf(k) == CASE k = 1 -> {"filter"} [] k = 6 -> {"nat"} [] OTHER -> {}

\* The steps of IPtablesInit: two chains, and the jumps to the second.
ChainSteps == <<"filter", "nat", "prerouting", "output">>

\* "none", "host" and "container" are in NetworkDriverMap, and nil.
Drivers == {"bridge", "nil"}

Idle ==
  [pc |-> "idle", phase |-> "none", id |-> Default, subnet |-> NilIP,
   gw |-> NilIP, driver |-> "bridge", k |-> 1, todo |-> NoNetworks]

\* What a network's file holds.
Config(c) == [subnet |-> c.subnet, gw |-> c.gw]

Busy == {u \in Users : proc[u].pc # "idle"}

Continue(u, c) == proc' = [proc EXCEPT ![u] = c]
Goto(u, pc) == Continue(u, [proc[u] EXCEPT !.pc = pc])

Init ==
  /\ subnets = NoSubnets
  /\ files = NoNetworks
  /\ links = NoNetworks
  /\ chains = {}
  /\ rules = [n \in NetIds |-> [r \in Rules |-> 0]]
  /\ proc = [u \in Users |-> Idle]
  /\ seen = {}

-----------------------------------------------------------------------------
(* What goes wrong.  "kernel" stands for a bridge or rules that were left   *)
(* half made, which a reboot takes away with all others.                    *)

Mishaps == {"overlap", "create", "delete", "reboot"}

Room == Cardinality(seen \ {"kernel"}) < MaxMishaps

\* The tags of a command that ends where it is.  A creation that has taken
\* nothing yet, and a removal that has released nothing, leave no trace.
CutShort(c) ==
  CASE c.pc \in {"unlink", "unrule", "dellink", "rmfile"} -> {"delete", "kernel"}
    [] c.pc \in {"gateway", "link", "address", "up", "rules", "truncate", "write"}
         -> {"create", "kernel"}
    [] c.pc = "chains" /\ c.k > 1 -> {"create", "kernel"}
    [] OTHER -> {}

\* An error ends the command, but run only logs that the default network
\* cannot be made, and panics when another cannot be restored.
Failed(u) ==
  /\ seen' = seen \cup CutShort(proc[u])
  /\ Continue(u, IF proc[u].phase = "default"
                   THEN [Idle EXCEPT !.phase = "start", !.pc = "walk"]
                   ELSE Idle)

Panicked(u) ==
  /\ seen' = seen \cup CutShort(proc[u])
  /\ Continue(u, Idle)

-----------------------------------------------------------------------------
(* A command is typed. *)

Type(u) ==
  /\ proc[u] = Idle
  /\ Busy # {} => "overlap" \notin seen /\ Room
  /\ seen' = IF Busy = {} THEN seen ELSE seen \cup {"overlap", "kernel"}
  /\ \/ \E n \in NetIds, s \in Subnets, d \in Drivers :
          Continue(u, [Idle EXCEPT !.pc = "chains", !.phase = "create", !.id = n,
                                   !.subnet = s, !.driver = d])
     \/ \E n \in NetIds :
          Continue(u, [Idle EXCEPT !.pc = "load", !.phase = "remove", !.id = n])
     \/ Continue(u, [Idle EXCEPT !.pc = "chains", !.phase = "start"])
  /\ UNCHANGED <<subnets, files, links, chains, rules>>

-----------------------------------------------------------------------------
(* IPtablesInit, in CreateNetwork and at the start of run. *)

ChainsDone(c) ==
  [c EXCEPT !.k = 1, !.pc = IF c.phase = "start" THEN "default" ELSE "exists"]

\* A chain that exists ends the function; the jumps are appended blindly.
MakeChain(u) ==
  LET c == proc[u] IN
  /\ c.pc = "chains"
  /\ chains' = chains \cup {ChainSteps[c.k]}
  /\ Continue(u, IF (c.k <= 2 /\ ChainSteps[c.k] \in chains) \/ c.k = 4
                   THEN ChainsDone(c) ELSE [c EXCEPT !.k = @ + 1])
  /\ UNCHANGED <<subnets, files, links, rules, seen>>

-----------------------------------------------------------------------------
(* CreateNetwork, after IPtablesInit. *)

Exists(u) ==
  /\ proc[u].pc = "exists"
  /\ IF proc[u].id \in DOMAIN files
       THEN Failed(u)
       ELSE Goto(u, "subnet") /\ UNCHANGED seen
  /\ UNCHANGED <<subnets, files, links, chains, rules>>

TakeSubnet(u) ==
  LET c == proc[u] IN
  /\ c.pc = "subnet"
  /\ IF CanCreate(subnets, c.subnet)
       THEN /\ subnets' = WithSubnet(subnets, c.subnet)
            /\ Goto(u, "gateway")
            /\ UNCHANGED seen
       ELSE Failed(u) /\ UNCHANGED subnets
  /\ UNCHANGED <<files, links, chains, rules>>

\* A subnet that is gone by now gives an error, a full one a nil address,
\* which no driver can parse.
NoGateway(u) ==
  LET c == proc[u] IN
  /\ c.pc = "gateway"
  /\ IF c.subnet \notin DOMAIN subnets
       THEN Failed(u)
       ELSE FreeBits(subnets, c.subnet) = {} /\ Panicked(u)
  /\ UNCHANGED <<subnets, files, links, chains, rules>>

\* A bug: the address is the gateway's by name, and its bit is not taken.
TakeGateway_Assumed(u) ==
  LET c == proc[u] IN
  /\ c.pc = "gateway"
  /\ c.subnet \in DOMAIN subnets /\ FreeBits(subnets, c.subnet) # {}
  /\ IF c.driver = "nil"
       THEN Panicked(u)
       ELSE /\ Continue(u, [c EXCEPT !.pc = "link", !.gw = Gateway(c.subnet)])
            /\ UNCHANGED seen
  /\ UNCHANGED <<subnets, files, links, chains, rules>>

\* The first address goes to the bridge, and the driver's Create is called,
\* which panics when the driver is nil.
TakeGateway(u) ==
  LET c == proc[u]
      o == FirstFree(subnets, c.subnet)
  IN
  /\ c.pc = "gateway"
  /\ c.subnet \in DOMAIN subnets /\ FreeBits(subnets, c.subnet) # {}
  /\ subnets' = WithBit(subnets, c.subnet, o)
  /\ IF c.driver = "nil"
       THEN Panicked(u)
       ELSE /\ Continue(u, [c EXCEPT !.pc = "link", !.gw = AddrOf(c.subnet, o)])
            /\ UNCHANGED seen
  /\ UNCHANGED <<files, links, chains, rules>>

-----------------------------------------------------------------------------
(* BridgeNetworkDriver.Create, for a new network and for one to restore. *)

\* An existing interface is taken as it is.
AddLink(u) ==
  LET c == proc[u] IN
  /\ c.pc = "link"
  /\ links' = IF c.id \in DOMAIN links THEN links
              ELSE [n \in DOMAIN links \cup {c.id} |->
                      IF n = c.id THEN [addrs |-> {}, up |-> FALSE] ELSE links[n]]
  /\ Goto(u, "address")
  /\ UNCHANGED <<subnets, files, chains, rules, seen>>

\* The kernel refuses an address that the interface has.
AddAddress(u) ==
  LET c == proc[u] IN
  /\ c.pc = "address"
  /\ IF c.id \notin DOMAIN links \/ Config(c) \in links[c.id].addrs
       THEN Failed(u) /\ UNCHANGED links
       ELSE /\ links' = [links EXCEPT ![c.id].addrs = @ \cup {Config(c)}]
            /\ Goto(u, "up")
            /\ UNCHANGED seen
  /\ UNCHANGED <<subnets, files, chains, rules>>

\* setInterfaceUP dereferences the link it did not find.
SetUp(u) ==
  LET c == proc[u] IN
  /\ c.pc = "up"
  /\ IF c.id \notin DOMAIN links
       THEN Panicked(u) /\ UNCHANGED links
       ELSE /\ links' = [links EXCEPT ![c.id].up = TRUE]
            /\ Goto(u, "rules")
            /\ UNCHANGED seen
  /\ UNCHANGED <<subnets, files, chains, rules>>

\* A bug: the last rule is left out.
AddRule_AllButLast(u) ==
  LET c == proc[u] IN
  /\ c.pc = "rules"
  /\ rules' = [rules EXCEPT ![c.id][Rule(c.k, c.subnet)] = @ + 1]
  /\ Continue(u, IF c.k < 5 THEN [c EXCEPT !.k = @ + 1]
                 ELSE [c EXCEPT !.k = 1, !.pc = "truncate"])
  /\ UNCHANGED <<subnets, files, links, chains, seen>>

\* setIPTables: rules are appended one at a time.
AddRule(u) ==
  LET c == proc[u] IN
  /\ c.pc = "rules"
  /\ IF ChainOf(c.k) \subseteq chains
       THEN /\ rules' = [rules EXCEPT ![c.id][Rule(c.k, c.subnet)] = @ + 1]
            /\ Continue(u, IF c.k < 6 THEN [c EXCEPT !.k = @ + 1]
                           ELSE [c EXCEPT !.k = 1, !.pc = "truncate"])
            /\ UNCHANGED seen
       ELSE Failed(u) /\ UNCHANGED rules
  /\ UNCHANGED <<subnets, files, links, chains>>

\* Network.Dump opens the file with O_TRUNC, and writes it.
Truncate(u) ==
  LET n == proc[u].id IN
  /\ proc[u].pc = "truncate"
  /\ files' = [m \in DOMAIN files \cup {n} |-> IF m = n THEN Torn ELSE files[m]]
  /\ Goto(u, "write")
  /\ UNCHANGED <<subnets, links, chains, rules, seen>>

\* Where a command goes on when its network is made.
Made(c) ==
  CASE c.phase = "create"  -> Idle
    [] c.phase = "default" -> [Idle EXCEPT !.phase = "start", !.pc = "walk"]
    [] OTHER               -> [Idle EXCEPT !.phase = "start", !.pc = "restore",
                                           !.todo = c.todo]

\* A file that was removed meanwhile stays removed.
Write(u) ==
  LET c == proc[u] IN
  /\ c.pc = "write"
  /\ files' = IF c.id \in DOMAIN files THEN [files EXCEPT ![c.id] = Config(c)] ELSE files
  /\ Continue(u, Made(c))
  /\ UNCHANGED <<subnets, links, chains, rules, seen>>

-----------------------------------------------------------------------------
(* InitNetwork. *)

CheckDefault(u) ==
  /\ proc[u].pc = "default"
  /\ Continue(u, IF Default \in DOMAIN files
                   THEN [proc[u] EXCEPT !.pc = "walk"]
                   ELSE [Idle EXCEPT !.pc = "chains", !.phase = "default",
                                     !.id = Default, !.subnet = DefaultSubnet])
  /\ UNCHANGED <<subnets, files, links, chains, rules, seen>>

\* Every file is loaded; one that does not parse is kept, without a driver.
Walk(u) ==
  /\ proc[u].pc = "walk"
  /\ Continue(u, [proc[u] EXCEPT !.pc = "restore", !.todo = files])
  /\ UNCHANGED <<subnets, files, links, chains, rules, seen>>

\* A bug: the networks are taken for whole if the first of them is.
Restore_Hasty(u) ==
  LET c == proc[u] IN
  /\ c.pc = "restore"
  /\ \E n \in DOMAIN c.todo :
       LET rest == [m \in DOMAIN c.todo \ {n} |-> c.todo[m]] IN
       IF n \in DOMAIN links
         THEN Continue(u, [c EXCEPT !.todo = NoNetworks])
         ELSE /\ c.todo[n] # Torn
              /\ Continue(u, [c EXCEPT !.phase = "restore", !.pc = "link", !.id = n,
                                       !.subnet = c.todo[n].subnet, !.gw = c.todo[n].gw,
                                       !.todo = rest])
  /\ UNCHANGED <<subnets, files, links, chains, rules, seen>>

\* A network whose bridge exists is passed over; the others are made again,
\* which panics for a file that did not parse.
Restore(u) ==
  LET c == proc[u] IN
  /\ c.pc = "restore"
  /\ \E n \in DOMAIN c.todo :
       LET rest == [m \in DOMAIN c.todo \ {n} |-> c.todo[m]] IN
       Continue(u,
         CASE n \in DOMAIN links -> [c EXCEPT !.todo = rest]
           [] n \notin DOMAIN links /\ c.todo[n] = Torn -> Idle
           [] OTHER -> [c EXCEPT !.phase = "restore", !.pc = "link", !.id = n,
                                 !.subnet = c.todo[n].subnet, !.gw = c.todo[n].gw,
                                 !.todo = rest])
  /\ UNCHANGED <<subnets, files, links, chains, rules, seen>>

\* InitNetwork returns, and run goes on (module Container).
Initialised(u) ==
  /\ proc[u].pc = "restore" /\ DOMAIN proc[u].todo = {}
  /\ Continue(u, Idle)
  /\ UNCHANGED <<subnets, files, links, chains, rules, seen>>

-----------------------------------------------------------------------------
(* DeleteNetwork. *)

Load(u) ==
  LET n == proc[u].id IN
  /\ proc[u].pc = "load"
  /\ Continue(u, IF n \in DOMAIN files /\ files[n] # Torn
                   THEN [proc[u] EXCEPT !.pc = "release", !.subnet = files[n].subnet,
                                        !.gw = files[n].gw]
                   ELSE Idle)
  /\ UNCHANGED <<subnets, files, links, chains, rules, seen>>

\* The gateway's address is released, and with it the subnet.
ReleaseSubnet(u) ==
  LET c == proc[u] IN
  /\ c.pc = "release"
  /\ IF ReleasePanics(subnets, c.subnet, c.gw)
       THEN Panicked(u) /\ UNCHANGED subnets
       ELSE /\ subnets' = Released(subnets, c.subnet, c.gw)
            /\ Goto(u, "unlink")
            /\ UNCHANGED seen
  /\ UNCHANGED <<files, links, chains, rules>>

\* LinkByName: without the bridge there is an error, and the file stays.
FindLink(u) ==
  /\ proc[u].pc = "unlink"
  /\ IF proc[u].id \in DOMAIN links
       THEN Goto(u, "unrule") /\ UNCHANGED seen
       ELSE Failed(u)
  /\ UNCHANGED <<subnets, files, links, chains, rules>>

\* A bug: rules that are not there are deleted too.
DeleteRule_Unchecked(u) ==
  LET c == proc[u] IN
  /\ c.pc = "unrule"
  /\ rules' = [rules EXCEPT ![c.id][Rule(c.k, c.subnet)] = @ - 1]
  /\ Continue(u, IF c.k < 6 THEN [c EXCEPT !.k = @ + 1] ELSE [c EXCEPT !.pc = "dellink"])
  /\ UNCHANGED <<subnets, files, links, chains, seen>>

\* A bug: only the rules of the filter table are deleted.
DeleteRule_FilterOnly(u) ==
  LET c == proc[u] IN
  /\ c.pc = "unrule"
  /\ rules' = [rules EXCEPT ![c.id][Rule(c.k, c.subnet)] = 0]
  /\ Continue(u, IF c.k < 4 THEN [c EXCEPT !.k = @ + 1] ELSE [c EXCEPT !.pc = "dellink"])
  /\ UNCHANGED <<subnets, files, links, chains, seen>>

\* delIPTables stops at the first rule that is not there.
DeleteRule(u) ==
  LET c == proc[u] IN
  /\ c.pc = "unrule"
  /\ IF rules[c.id][Rule(c.k, c.subnet)] > 0
       THEN /\ rules' = [rules EXCEPT ![c.id][Rule(c.k, c.subnet)] = @ - 1]
            /\ Continue(u, IF c.k < 6 THEN [c EXCEPT !.k = @ + 1]
                           ELSE [c EXCEPT !.pc = "dellink"])
            /\ UNCHANGED seen
       ELSE Failed(u) /\ UNCHANGED rules
  /\ UNCHANGED <<subnets, files, links, chains>>

DeleteLink(u) ==
  LET n == proc[u].id IN
  /\ proc[u].pc = "dellink"
  /\ IF n \in DOMAIN links
       THEN /\ links' = [m \in DOMAIN links \ {n} |-> links[m]]
            /\ Goto(u, "rmfile")
            /\ UNCHANGED seen
       ELSE Failed(u) /\ UNCHANGED links
  /\ UNCHANGED <<subnets, files, chains, rules>>

RemoveFile(u) ==
  /\ proc[u].pc = "rmfile"
  /\ files' = [m \in DOMAIN files \ {proc[u].id} |-> files[m]]
  /\ Continue(u, Idle)
  /\ UNCHANGED <<subnets, links, chains, rules, seen>>

-----------------------------------------------------------------------------
\* Bound: a command is killed at most once in a creation, once in a removal.
MayDie(u) == CutShort(proc[u]) = {} \/ (Room /\ ~CutShort(proc[u]) \cap Mishaps \subseteq seen)

\* A command is killed.
Crash(u) ==
  /\ u \in Busy
  /\ MayDie(u)
  /\ Panicked(u)
  /\ UNCHANGED <<subnets, files, links, chains, rules>>

\* The kernel's part of every network is gone, and with it what was half made.
Reboot ==
  /\ "reboot" \notin seen /\ Room
  /\ \A u \in Busy : MayDie(u)
  /\ links' = NoNetworks
  /\ chains' = {}
  /\ rules' = [n \in NetIds |-> [r \in Rules |-> 0]]
  /\ proc' = [u \in Users |-> Idle]
  /\ seen' = (seen \cup {"reboot"} \cup UNION {CutShort(proc[u]) : u \in Busy}) \ {"kernel"}
  /\ UNCHANGED <<subnets, files>>

Step(u) ==
  \/ MakeChain(u) \/ Exists(u) \/ TakeSubnet(u) \/ NoGateway(u) \/ TakeGateway(u)
  \/ AddLink(u) \/ AddAddress(u) \/ SetUp(u) \/ AddRule(u) \/ Truncate(u) \/ Write(u)
  \/ CheckDefault(u) \/ Walk(u) \/ Restore(u) \/ Initialised(u)
  \/ Load(u) \/ ReleaseSubnet(u) \/ FindLink(u) \/ DeleteRule(u) \/ DeleteLink(u)
  \/ RemoveFile(u)

Next ==
  \/ \E u \in Users : Type(u) \/ Step(u) \/ Crash(u)
  \/ Reboot

Spec == Init /\ [][Next]_vars

-----------------------------------------------------------------------------
(* Types. *)

Configs == [subnet : Subnets, gw : Addresses]

NetworkFiles == UNION {[S -> Configs \cup {Torn}] : S \in SUBSET NetIds}

Phases == {"none", "create", "start", "default", "restore", "remove"}

ControlPoints ==
  { "idle", "chains", "exists", "subnet", "gateway", "link", "address", "up",
    "rules", "truncate", "write", "default", "walk", "restore", "load",
    "release", "unlink", "unrule", "dellink", "rmfile" }

\* The points at which a command works on a network with a subnet, and with
\* a gateway.
HasGateway ==
  { "link", "address", "up", "rules", "truncate", "write",
    "release", "unlink", "unrule", "dellink", "rmfile" }
HasSubnet == HasGateway \cup {"exists", "subnet", "gateway"}

CommandType ==
  [pc : ControlPoints, phase : Phases, id : NetIds, subnet : Subnets \cup {NilIP},
   gw : Addresses \cup {NilIP}, driver : Drivers, k : RuleNumbers, todo : NetworkFiles]

IsCommand(c) ==
  /\ c \in CommandType
  /\ c.pc \in HasSubnet \/ (c.pc = "chains" /\ c.phase # "start") => c.subnet \in Subnets
  /\ c.pc \in HasGateway => c.gw \in Addresses
  /\ c.pc = "chains" => c.k <= 4

LinkType == [addrs : SUBSET Configs, up : BOOLEAN]

\* Files, bridges and rules are about networks that exist in the model, and
\* a command that uses a subnet or a gateway has one.
TypeOK ==
  /\ IsMap(subnets)
  /\ files \in NetworkFiles
  /\ links \in [DOMAIN links -> LinkType] /\ DOMAIN links \subseteq NetIds
  /\ chains \subseteq {"filter", "nat", "prerouting", "output"}
  /\ rules \in [NetIds -> [Rules -> Nat]]
  /\ proc = [u \in Users |-> proc[u]]
  /\ \A u \in Users : IsCommand(proc[u])
  /\ seen \subseteq Mishaps \cup {"kernel"}

-----------------------------------------------------------------------------
(* Properties. *)

Quiet == Busy = {}

\* Network n is whole in the kernel: one bridge with the one address that its
\* file names, up, and each of its six rules once.
WholeInKernel(n) ==
  /\ n \in DOMAIN links
  /\ links[n] = [addrs |-> {files[n]}, up |-> TRUE]
  /\ \A r \in Rules :
       rules[n][r] = IF \E k \in RuleNumbers : r = Rule(k, files[n].subnet) THEN 1 ELSE 0

\* While commands are neither cut short nor overlap, every network is in all
\* of its places and there is nothing else: files, subnets with the gateway's
\* bit, bridges, and rules with the chains they need, in any order of
\* creations, refusals and removals.
NetworksAgree ==
  Quiet /\ seen = {} =>
    /\ \A n \in DOMAIN files : files[n] # Torn /\ WholeInKernel(n)
    /\ DOMAIN links = DOMAIN files
    /\ \A n \in NetIds \ DOMAIN files : \A r \in Rules : rules[n][r] = 0
    /\ DOMAIN subnets = {files[n].subnet : n \in DOMAIN files}
    /\ \A s \in DOMAIN subnets : subnets[s] = {GatewayBit}
    /\ DOMAIN files # {} => Cardinality(chains) = 4

\* The networks whose files say that they hold a subnet, but for one that is
\* being removed.
Held ==
  {n \in DOMAIN files :
     /\ files[n] # Torn
     /\ ~\E u \in Users : /\ proc[u].id = n
                          /\ proc[u].pc \in {"unlink", "unrule", "dellink", "rmfile"}}

\* Reboots and creations that are cut short never take a network's subnet from
\* it, nor give it to another: only a removal that ended half way, which has
\* released the subnet and left the file (network.go 108-121), can.
NetworkHoldsSubnet ==
  seen \cap {"delete", "overlap"} = {} =>
    /\ \A n \in Held : /\ files[n].subnet \in DOMAIN subnets
                       /\ GatewayBit \in subnets[files[n].subnet]
                       /\ files[n].gw = Gateway(files[n].subnet)
    /\ \A m, n \in Held : files[m].subnet = files[n].subnet => m = n

\* Only a creation that is cut short leaves a subnet, a bridge or rules behind
\* that no command can take away, because no file names them: no refusal, no
\* removal that ends half way and no reboot does.
NothingWithoutFile ==
  Quiet /\ seen \cap {"create", "overlap"} = {} =>
    /\ DOMAIN links \subseteq DOMAIN files
    /\ DOMAIN subnets \subseteq {files[n].subnet : n \in DOMAIN files}
    /\ \A n \in NetIds \ DOMAIN files : \A r \in Rules : rules[n][r] = 0

\* A run that gets past InitNetwork after a reboot has made every network
\* whole again, though creations and removals were cut short or overlapped
\* before the reboot (network.go 419-449).
KernelRestored ==
  [][ \A u \in Users :
        Initialised(u) /\ "kernel" \notin seen =>
          /\ \A n \in DOMAIN files : WholeInKernel(n)
          /\ DOMAIN files # {} => Cardinality(chains) = 4 ]_vars

=============================================================================
