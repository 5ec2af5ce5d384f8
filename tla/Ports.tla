------------------------------- MODULE Ports ---------------------------------
(***************************************************************************)
(* Container with the iptables rules of its port mappings: Connect appends *)
(* them when it has configured the link (configPortMapping), Disconnect    *)
(* deletes them when it has released the address (delPortMapping), one     *)
(* call of iptables after the other.                                       *)
(*                                                                         *)
(* Every container publishes host ports for the same port of its own, so   *)
(* that rules differ in the address, and one of them in the host port; the *)
(* first two are there once for each host port.                            *)
(***************************************************************************)
EXTENDS Container, Sequences

CONSTANTS
  HostPorts,  \* what may be published
  Publishes,  \* the host ports of each container, in the order of -p
  Refusals    \* bound: whether iptables may refuse to append a rule

ASSUME PortsAssumptions ==
  /\ HostPorts \cap {"accept", "masquerade"} = {}
  /\ Publishes \in [Ids -> Seq(HostPorts)]
  /\ Refusals \in BOOLEAN

VARIABLES
  rules,      \* how often each rule is there, for each address
  refused,    \* the containers that iptables has refused a rule
  todo        \* the rules that each terminal's command is at

portVars == <<vars, rules, refused, todo>>

-----------------------------------------------------------------------------
(* Rules. *)

RuleKinds == {"accept", "masquerade"} \cup HostPorts

\* The rules of one mapping, in the order in which they are appended, and
\* deleted; the last one sends what comes to the host port to the address.
RulesOf(h) == <<"accept", "masquerade", h>>

\* Mapping and rule: all that a container has, and how often each kind is
\* among some of them.
Positions(i) == (DOMAIN Publishes[i]) \X (1 .. 3)
KindAt(i, x) == RulesOf(Publishes[i][x[1]])[x[2]]
Counted(i, S) == [k \in RuleKinds |-> Cardinality({x \in S : KindAt(i, x) = k})]

\* What the rules of a container are when none was refused.
Complete(i) == Counted(i, Positions(i))

\* A command that is not at any rule, and one that is at a mapping's first.
Done == [job |-> "none", at |-> <<1, 1>>]
Begin(job, i) == IF Publishes[i] = <<>> THEN Done ELSE [job |-> job, at |-> <<1, 1>>]

\* The loop of both functions: a rule that fails ends its mapping.
NextMapping(i, w) ==
  IF w.at[1] < Len(Publishes[i]) THEN [w EXCEPT !.at = <<w.at[1] + 1, 1>>] ELSE Done
NextRule(i, w) ==
  IF w.at[2] < 3 THEN [w EXCEPT !.at = <<w.at[1], w.at[2] + 1>>] ELSE NextMapping(i, w)

\* A container with several mappings loses track of its rules when one is
\* refused: a rule of one mapping is then deleted in the place of another's.
LosesTrack(i) == i \in refused /\ Len(Publishes[i]) > 1

PortsInit ==
  /\ Init
  /\ rules = [a \in Block(Net) |-> [k \in RuleKinds |-> 0]]
  /\ refused = {}
  /\ todo = [t \in Terminals |-> Done]

-----------------------------------------------------------------------------
(* Connect. *)

\* The link is configured, and the rules follow.  (Bound: what fails about a
\* link fails before it has its address; later it would have no rules.)
MapPorts(t) ==
  /\ Attach(t) /\ procs' # procs
  /\ todo' = [todo EXCEPT ![t] = Begin("append", term[t].id)]
  /\ UNCHANGED <<rules, refused>>

\* An error of the link ends Connect, and iptables knows no nil address.
MapNothing(t) ==
  /\ Attach(t) /\ procs' = procs
  /\ UNCHANGED <<rules, refused, todo>>

\* Bound: once a container has lost track of its rules, only rules of its own
\* later mappings are refused, or they would pile up.
AppendRule(t) ==
  LET c == term[t]
      w == todo[t]
      k == KindAt(c.id, w.at)
  IN
  /\ w.job = "append"
  /\ \/ /\ rules' = [rules EXCEPT ![c.info.ip][k] = @ + 1]
        /\ todo' = [todo EXCEPT ![t] = NextRule(c.id, w)]
        /\ UNCHANGED refused
     \/ /\ Refusals
        /\ \A i \in Ids : LosesTrack(i) => i = c.id /\ w.at[1] > 1
        /\ refused' = refused \cup {c.id}
        /\ todo' = [todo EXCEPT ![t] = NextMapping(c.id, w)]
        /\ UNCHANGED rules
  /\ UNCHANGED vars

-----------------------------------------------------------------------------
(* Disconnect. *)

\* Release panics before the rules are come to.
UnmapPorts(t) ==
  LET c == term[t] IN
  /\ DisconnectBridge(t)
  /\ todo' = IF ReleasePanics(subnets, Net, c.info.ip) THEN todo
             ELSE [todo EXCEPT ![t] = Begin("delete", c.id)]
  /\ UNCHANGED <<rules, refused>>

\* A bug: the rules are deleted in the opposite order.
DeleteRule_Reversed(t) ==
  LET c == term[t]
      w == todo[t]
      k == KindAt(c.id, <<w.at[1], 4 - w.at[2]>>)
  IN
  /\ w.job = "delete"
  /\ IF rules[c.info.ip][k] > 0
       THEN /\ rules' = [rules EXCEPT ![c.info.ip][k] = @ - 1]
            /\ todo' = [todo EXCEPT ![t] = NextRule(c.id, w)]
       ELSE /\ todo' = [todo EXCEPT ![t] = NextMapping(c.id, w)]
            /\ UNCHANGED rules
  /\ UNCHANGED <<vars, refused>>

\* A rule that is not there is an error, like one that is refused.
DeleteRule(t) ==
  LET c == term[t]
      w == todo[t]
      k == KindAt(c.id, w.at)
  IN
  /\ w.job = "delete"
  /\ IF rules[c.info.ip][k] > 0
       THEN /\ rules' = [rules EXCEPT ![c.info.ip][k] = @ - 1]
            /\ todo' = [todo EXCEPT ![t] = NextRule(c.id, w)]
       ELSE /\ todo' = [todo EXCEPT ![t] = NextMapping(c.id, w)]
            /\ UNCHANGED rules
  /\ UNCHANGED <<vars, refused>>

-----------------------------------------------------------------------------
\* What has no part in the rules.  A command goes on when it is done with them;
\* one that is killed leaves them.  Bound: a reboot, which takes the rules with
\* it, is left to Container.
Elsewhere ==
  /\ \/ \E t \in Terminals :
          \/ Type(t) \/ Crash(t)
          \/ todo[t] = Done /\ Step(t) /\ ~Attach(t) /\ ~DisconnectBridge(t)
     \/ \E p \in Live : Exit(p)
     \/ DeleteNetwork \/ CreateNetwork
  /\ todo' = [t \in Terminals |-> IF term'[t] = Rest THEN Done ELSE todo[t]]
  /\ UNCHANGED <<rules, refused>>

PortsNext ==
  \/ \E t \in Terminals :
       MapPorts(t) \/ MapNothing(t) \/ AppendRule(t) \/ UnmapPorts(t) \/ DeleteRule(t)
  \/ Elsewhere

PortsSpec == PortsInit /\ [][PortsNext]_portVars

-----------------------------------------------------------------------------
(* Properties of commands that do not overlap. *)

\* Between commands the rules of an address are those of the container that
\* holds it, though deleting them stops at the first that is missing: rules are
\* only left behind, for a later container to inherit with the address, by a
\* container with several mappings one of which was refused.  A container whose
\* link is configured is reachable through all its ports, if none was refused.
PortsFollowAddress ==
  AllQuiet =>
    /\ (\A i \in Ids : ~LosesTrack(i)) =>
         \A a \in Block(Net) \ {info[i].ip : i \in Holders}, k \in RuleKinds : rules[a][k] = 0
    /\ \A p \in Live : procs[p].ip # NilIP /\ procs[p].owner \notin refused =>
         \A k \in RuleKinds :
           /\ rules[procs[p].ip][k] >= Complete(procs[p].owner)[k]
           /\ refused = {} => rules[procs[p].ip][k] = Complete(procs[p].owner)[k]

=============================================================================
