-------------------------------- MODULE Ipam --------------------------------
(***************************************************************************)
(* The IP address manager of network/ipam.go, one whole call at a time.    *)
(*                                                                         *)
(* This is the manager as its callers see it when calls do not overlap:    *)
(* IpamFile models the lock file and the steps on subnet.json, and shows   *)
(* that calls one at a time implement this module.                         *)
(***************************************************************************)
EXTENDS IpamBitmap

VARIABLES
  subnets,   \* the contents of subnet.json: subnet -> set of '1' offsets
  reply      \* the last call, its outcome and the address it returned

vars == <<subnets, reply>>

TypeOK ==
  /\ IsMap(subnets)
  /\ reply \in Answers

Init ==
  /\ subnets = NoSubnets
  /\ reply = Answer(NoRequest, "ok", NilIP)

-----------------------------------------------------------------------------
Create(s) ==
  /\ CanCreate(subnets, s)
  /\ subnets' = WithSubnet(subnets, s)
  /\ reply' = Answer(Request("create", s, NilIP), "ok", NilIP)

CreateRefused(s) ==
  /\ ~CanCreate(subnets, s)
  /\ reply' = Answer(Request("create", s, NilIP), "error", NilIP)
  /\ UNCHANGED subnets

\* A bug: the address is returned and the bitmap is not dumped.
Allocate_NotDumped(s) ==
  /\ s \in DOMAIN subnets
  /\ FreeBits(subnets, s) # {}
  /\ reply' = Answer(Request("allocate", s, NilIP),
                     "ok", AddrOf(s, FirstFree(subnets, s)))
  /\ UNCHANGED subnets

Allocate(s) ==
  /\ s \in DOMAIN subnets
  /\ FreeBits(subnets, s) # {}
  /\ subnets' = WithBit(subnets, s, FirstFree(subnets, s))
  /\ reply' = Answer(Request("allocate", s, NilIP),
                     "ok", AddrOf(s, FirstFree(subnets, s)))

\* No bit is free: the loop ends, and the nil address comes with a nil error.
AllocateExhausted(s) ==
  /\ s \in DOMAIN subnets
  /\ FreeBits(subnets, s) = {}
  /\ reply' = Answer(Request("allocate", s, NilIP), "ok", NilIP)
  /\ UNCHANGED subnets

AllocateRefused(s) ==
  /\ s \notin DOMAIN subnets
  /\ reply' = Answer(Request("allocate", s, NilIP), "error", NilIP)
  /\ UNCHANGED subnets

Release(s, a) ==
  /\ ~ReleasePanics(subnets, s, a)
  /\ subnets' = Released(subnets, s, a)
  /\ reply' = Answer(Request("release", s, a), "ok", NilIP)

ReleaseRefused(s, a) ==
  /\ ReleasePanics(subnets, s, a)
  /\ reply' = Answer(Request("release", s, a), "panic", NilIP)
  /\ UNCHANGED subnets

CallOn(s) ==
  \/ Create(s) \/ CreateRefused(s)
  \/ Allocate(s) \/ AllocateExhausted(s) \/ AllocateRefused(s)
  \/ /\ s.size <= Octet
     /\ \E a \in Block(s) \cup {NilIP} : Release(s, a) \/ ReleaseRefused(s, a)

Next == \E s \in Subnets : CallOn(s)

Spec == Init /\ [][Next]_vars

-----------------------------------------------------------------------------
(* Properties. *)

\* Create never lets two subnets of the map have an address in common, so a
\* lease of one can never be taken or freed through another.
Disjoint == DisjointIn(subnets)

\* No container of a network ever gets the address of its bridge, because
\* only dropping the whole subnet can free the gateway's bit.
GatewayKept == GatewayMarkedIn(subnets)

\* The manager implements an address pool: what its bitmaps say is leased is
\* leased to one client at a time.
Leased == LeasedIn(subnets)

Pool == INSTANCE AddressPool
          WITH Blocks <- Subnets, Members <- Block, None <- NilIP,
               open <- DOMAIN subnets, leased <- Leased, answer <- reply.ip

ImplementsPool == Pool!Spec

\* Release inverts the arithmetic of Allocate, wrapped octets included: it
\* frees the address it is given and no other, and the gateway's address
\* stands for the whole subnet, so exactly the subnet's leases end with it.
FreesWhatItIsGiven ==
  [][ \A s \in DOMAIN subnets : \A a \in Block(s) :
        Release(s, a) =>
          Leased' = Leased \ (IF a = Gateway(s) THEN Block(s) ELSE {a}) ]_vars

\* The address of the last bit is one past the end of its subnet, or wraps to
\* the prefix's first, though Allocate's comment promises an address "in the
\* subnet": it is handed out only when no other address of the subnet is left.
OutsideOnlyWhenFull ==
  [][ \A s \in Subnets :
        Allocate(s) /\ ~Covers(s, reply'.ip.last) => FreeBits(subnets', s) = {} ]_vars

=============================================================================
