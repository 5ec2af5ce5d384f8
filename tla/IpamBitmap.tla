----------------------------- MODULE IpamBitmap -----------------------------
(***************************************************************************)
(* The data of the IP address manager (network/ipam.go): a map from        *)
(* subnets to bitmaps, the arithmetic that turns a bit into an address and *)
(* back, and the updates that Create, Allocate and Release make to the map.*)
(*                                                                         *)
(* Create refuses masks wider than /24, so all addresses of a subnet share *)
(* their first three octets.  They are one value, "net"; the last octet is *)
(* a number and its arithmetic is uint8 arithmetic, as in the code.  A     *)
(* bitmap is the set of the offsets whose character is '1'.                *)
(***************************************************************************)
EXTENDS Integers

CONSTANTS
  Nets,      \* the /24 prefixes that subnets are taken from
  Subnets,   \* the subnets a user may ask for
  NilIP      \* Go's nil net.IP

Octet == 256

\* A subnet is its prefix, the last octet of its network address and its
\* number of addresses.  One wider than /24 has more than 256 addresses.
SubnetsAssumption ==
  \A s \in Subnets :
    /\ s \in [net : Nets, base : 0 .. Octet - 1, size : Nat \ {0}]
    /\ s.size <= Octet => s.base + s.size <= Octet

Addresses == [net : Nets, last : 0 .. Octet - 1]

NilAssumption == NilIP \notin Addresses

ASSUME IpamAssumptions == SubnetsAssumption /\ NilAssumption

Offsets(s) == 0 .. s.size - 1

NoSubnets == [s \in {} |-> {}]

-----------------------------------------------------------------------------
(* Addresses and offsets. *)

\* The address that bit o of subnet s stands for: "ip[3] += offset; ip[3]++".
AddrOf(s, o) == [net |-> s.net, last |-> (s.base + o + 1) % Octet]

\* A bug: Release forgets that addresses start at host number 1.
OffsetOf_NoShift(s, a) == (a.last - s.base) % Octet

\* The bit that Release computes for an address, in uint8 arithmetic.
OffsetOf(s, a) == (a.last - 1 - s.base) % Octet

\* Every address that Allocate can return for subnet s.
Block(s) == {AddrOf(s, o) : o \in Offsets(s)}

\* The bit of the address that CreateNetwork takes for the bridge.
GatewayBit == 0
Gateway(s) == AddrOf(s, GatewayBit)

\* net.IPNet.Contains: the address with last octet x belongs to subnet s.
Covers(s, x) == s.base <= x /\ x < s.base + s.size

\* A bug: only the new subnet is searched for the network addresses.
Conflicts_OneSided(s, t) == s.net = t.net /\ Covers(s, t.base)

\* The overlap test of Create: each of the two network addresses is looked
\* for in the other subnet.
Conflicts(s, t) ==
  /\ s.net = t.net
  /\ Covers(s, t.base) \/ Covers(t, s.base)

-----------------------------------------------------------------------------
(* The map of subnets, and what the three operations do to it. *)

CanCreate(m, s) ==
  /\ s \notin DOMAIN m
  /\ \A t \in DOMAIN m : ~Conflicts(s, t)
  /\ s.size <= Octet

WithSubnet(m, s) ==
  [t \in DOMAIN m \cup {s} |-> IF t = s THEN {} ELSE m[t]]

\* A bug: the loop runs one bit too far.
FreeBits_PastEnd(m, s) == (0 .. s.size) \ m[s]

FreeBits(m, s) == Offsets(s) \ m[s]

\* A bug: the loop does not stop, and the last '0' wins.
FirstFree_Last(m, s) ==
  CHOOSE o \in FreeBits(m, s) : \A q \in FreeBits(m, s) : o >= q

\* The loop over the bitmap stops at the first '0'.
FirstFree(m, s) ==
  CHOOSE o \in FreeBits(m, s) : \A q \in FreeBits(m, s) : o <= q

WithBit(m, s, o) == [m EXCEPT ![s] = @ \cup {o}]

WithoutBit(m, s, o) == [m EXCEPT ![s] = @ \ {o}]

WithoutSubnet(m, s) == [t \in DOMAIN m \ {s} |-> m[t]]

\* Release panics on a nil address (index 3 of a nil slice) and on a subnet
\* that is not in the map (an index into an empty bitmap), unless the bit is
\* the gateway's: delete() accepts a missing key.
ReleasePanics(m, s, a) ==
  \/ a = NilIP
  \/ /\ a # NilIP
     /\ s \notin DOMAIN m
     /\ OffsetOf(s, a) # GatewayBit

\* A bug: the gateway's bit is cleared like any other.
Released_KeepsSubnet(m, s, a) ==
  [t \in DOMAIN m |-> IF t = s THEN m[t] \ {OffsetOf(s, a)} ELSE m[t]]

\* The map that Release dumps when it does not panic.
Released(m, s, a) ==
  IF OffsetOf(s, a) = GatewayBit
    THEN WithoutSubnet(m, s)
    ELSE WithoutBit(m, s, OffsetOf(s, a))

-----------------------------------------------------------------------------
(* Requests and their answers. *)

Request(kind, s, a) == [kind |-> kind, subnet |-> s, ip |-> a]

\* Callers release what Allocate gave them, once or more than once, possibly
\* after the subnet is gone: the gateway (DeleteNetwork), a container's
\* address or the nil address of an exhausted subnet (Disconnect).
Requests ==
  {Request(k, s, NilIP) : k \in {"create", "allocate"}, s \in Subnets}
  \cup UNION {{Request("release", s, a) : a \in Block(s) \cup {NilIP}} :
                s \in {t \in Subnets : t.size <= Octet}}

NoRequest == Request("none", NilIP, NilIP)

Outcomes == {"ok", "error", "panic"}

Answer(request, outcome, ip) ==
  [request |-> request, outcome |-> outcome, ip |-> ip]

Answers ==
  [request : Requests \cup {NoRequest}, outcome : Outcomes,
   ip : Addresses \cup {NilIP}]

-----------------------------------------------------------------------------
(* What a map must satisfy. *)

IsMap(m) ==
  /\ DOMAIN m \subseteq Subnets
  /\ m = [s \in DOMAIN m |-> m[s]]
  /\ \A s \in DOMAIN m : m[s] \subseteq Offsets(s)

\* The addresses the map says are in use.
LeasedIn(m) == UNION {{AddrOf(s, o) : o \in m[s]} : s \in DOMAIN m}

\* Two subnets of a map have no address in common, neither of their own nor
\* of those Allocate returns for them, which are shifted by one: the overlap
\* test of Create compares network addresses only.
DisjointIn(m) ==
  \A s, t \in DOMAIN m :
    s # t => /\ ~\E x \in 0 .. Octet - 1 :
                    s.net = t.net /\ Covers(s, x) /\ Covers(t, x)
             /\ Block(s) \cap Block(t) = {}

\* A bitmap with any bit set has the gateway's bit set.
GatewayMarkedIn(m) ==
  \A s \in DOMAIN m : m[s] # {} => GatewayBit \in m[s]

=============================================================================
