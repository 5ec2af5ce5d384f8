-------------------------- MODULE IpamBitmapProofs --------------------------
(***************************************************************************)
(* Lemmas about the arithmetic of IpamBitmap and about what its updates    *)
(* preserve, for any set of subnets.                                       *)
(***************************************************************************)
EXTENDS IpamBitmap, TLAPS, WellFoundedInduction

-----------------------------------------------------------------------------
(* Arithmetic of the bitmap. *)

\* The subnets Create accepts: those whose addresses differ in one octet.
Small == {s \in Subnets : s.size <= Octet}

\* The fields of a subnet, and what the assumption says about them.
LEMMA SmallFields ==
  ASSUME NEW s \in Small
  PROVE  /\ s \in Subnets
         /\ s.net \in Nets
         /\ s.base \in 0 .. Octet - 1
         /\ s.size \in Nat \ {0}
         /\ s.size <= Octet
         /\ s.base + s.size <= Octet
  BY IpamAssumptions DEF Small, SubnetsAssumption

\* Adding one to an octet that does not exceed 255 wraps at most once, and
\* subtracting it again undoes the wrap.
LEMMA WrapInverse ==
  ASSUME NEW b \in Int, NEW o \in Int, 0 <= b, 0 <= o, b + o <= 255
  PROVE  /\ (b + o + 1) % 256 \in 0 .. 255
         /\ (((b + o + 1) % 256) - 1 - b) % 256 = o
<1>1. CASE b + o = 255
  <2>1. (b + o + 1) % 256 = 0
    BY <1>1
  <2>2. (0 - 1 - b) % 256 = o
    BY <1>1
  <2> QED
    BY <2>1, <2>2
<1>2. CASE b + o < 255
  <2>1. (b + o + 1) % 256 = b + o + 1
    BY <1>2
  <2>2. (b + o + 1) - 1 - b = o /\ o % 256 = o
    BY <1>2
  <2> QED
    BY <2>1, <2>2, <1>2
<1> QED
  BY <1>1, <1>2

\* The increment of an octet is injective.
LEMMA WrapInjective ==
  ASSUME NEW x \in Int, NEW y \in Int, 0 <= x, x <= 255, 0 <= y, y <= 255,
         (x + 1) % 256 = (y + 1) % 256
  PROVE  x = y
<1>1. /\ x < 255 => (x + 1) % 256 = x + 1
      /\ x = 255 => (x + 1) % 256 = 0
  OBVIOUS
<1>2. /\ y < 255 => (y + 1) % 256 = y + 1
      /\ y = 255 => (y + 1) % 256 = 0
  OBVIOUS
<1> QED
  BY <1>1, <1>2

\* Two ranges without a common start point have no common point.
LEMMA RangesApart ==
  ASSUME NEW b \in Int, NEW m \in Int, NEW c \in Int, NEW n \in Int, NEW x \in Int,
         b <= x, x < b + m, c <= x, x < c + n
  PROVE  (b <= c /\ c < b + m) \/ (c <= b /\ b < c + n)
  OBVIOUS

\* An offset of a small subnet names an address, and the uint8 arithmetic of
\* Release gives the offset back.
LEMMA OffsetOfAddrOf ==
  ASSUME NEW s \in Small, NEW o \in Offsets(s)
  PROVE  /\ AddrOf(s, o) \in Addresses
         /\ AddrOf(s, o) # NilIP
         /\ OffsetOf(s, AddrOf(s, o)) = o
<1>1. /\ s.net \in Nets
      /\ s.base \in Int /\ 0 <= s.base
      /\ o \in Int /\ 0 <= o /\ s.base + o <= 255
  BY SmallFields DEF Offsets, Octet
<1>2. /\ (s.base + o + 1) % 256 \in 0 .. 255
      /\ (((s.base + o + 1) % 256) - 1 - s.base) % 256 = o
  BY <1>1, WrapInverse
<1>3. AddrOf(s, o) \in Addresses
  BY <1>1, <1>2 DEF AddrOf, Addresses, Octet
<1>4. OffsetOf(s, AddrOf(s, o)) = o
  BY <1>2 DEF OffsetOf, AddrOf, Octet
<1> QED
  BY <1>3, <1>4, IpamAssumptions DEF NilAssumption

\* Two subnets that pass the overlap test share no address, not even through
\* the wrap-around of the last octet.
LEMMA NoConflictNoOverlap ==
  ASSUME NEW s \in Small, NEW t \in Small, ~Conflicts(s, t)
  PROVE  /\ ~\E x \in 0 .. Octet - 1 :
               s.net = t.net /\ Covers(s, x) /\ Covers(t, x)
         /\ Block(s) \cap Block(t) = {}
<1>1. /\ s.base \in Int /\ 0 <= s.base /\ s.size \in Int /\ s.base + s.size <= 256
      /\ t.base \in Int /\ 0 <= t.base /\ t.size \in Int /\ t.base + t.size <= 256
  BY SmallFields DEF Octet
<1>2. ASSUME NEW x \in Int, s.net = t.net, Covers(s, x), Covers(t, x)
      PROVE  FALSE
  <2>1. \/ s.base <= t.base /\ t.base < s.base + s.size
        \/ t.base <= s.base /\ s.base < t.base + t.size
    BY <1>1, <1>2, RangesApart DEF Covers
  <2> QED
    BY <1>2, <2>1 DEF Conflicts, Covers
<1>3. ~\E x \in 0 .. Octet - 1 :
         s.net = t.net /\ Covers(s, x) /\ Covers(t, x)
  BY <1>2 DEF Octet
<1>4. ASSUME NEW o \in Offsets(s), NEW p \in Offsets(t),
             AddrOf(s, o) = AddrOf(t, p)
      PROVE  FALSE
  <2>1. /\ o \in Int /\ 0 <= o /\ o < s.size
        /\ p \in Int /\ 0 <= p /\ p < t.size
    BY <1>1 DEF Offsets
  <2>2. s.net = t.net
    BY <1>4 DEF AddrOf
  <2>3. (s.base + o + 1) % 256 = (t.base + p + 1) % 256
    BY <1>4 DEF AddrOf, Octet
  <2>4. PICK x \in Int : x = s.base + o
    BY <1>1, <2>1
  <2>5. PICK y \in Int : y = t.base + p
    BY <1>1, <2>1
  <2>6. /\ 0 <= x /\ x <= 255 /\ s.base <= x /\ x < s.base + s.size
        /\ 0 <= y /\ y <= 255 /\ t.base <= y /\ y < t.base + t.size
    BY <1>1, <2>1, <2>4, <2>5
  <2>7. x = y
    BY <2>3, <2>4, <2>5, <2>6, WrapInjective
  <2> QED
    BY <1>2, <2>2, <2>6, <2>7 DEF Covers
<1> QED
  BY <1>3, <1>4 DEF Block

\* What Release may be asked to release for a small subnet.
LEMMA BlockFacts ==
  ASSUME NEW s \in Small, NEW a \in Block(s)
  PROVE  /\ a \in Addresses
         /\ a # NilIP
         /\ OffsetOf(s, a) \in Offsets(s)
         /\ a = AddrOf(s, OffsetOf(s, a))
         /\ a = Gateway(s) <=> OffsetOf(s, a) = GatewayBit
<1>1. PICK o \in Offsets(s) : a = AddrOf(s, o)
  BY DEF Block
<1>2. GatewayBit \in Offsets(s)
  BY SmallFields DEF GatewayBit, Offsets
<1> QED
  BY <1>1, <1>2, OffsetOfAddrOf DEF Gateway

-----------------------------------------------------------------------------
(* Requests and answers. *)

\* What a call asks for is a request, and what it answers an answer.
LEMMA RequestTypes ==
  ASSUME NEW s \in Subnets
  PROVE  /\ Request("create", s, NilIP) \in Requests
         /\ Request("allocate", s, NilIP) \in Requests
         /\ s.size <= Octet => \A a \in Block(s) \cup {NilIP} :
                                 Request("release", s, a) \in Requests
<1>1. /\ Request("create", s, NilIP) \in Requests
      /\ Request("allocate", s, NilIP) \in Requests
  BY DEF Requests
<1>2. ASSUME s.size <= Octet, NEW a \in Block(s) \cup {NilIP}
      PROVE  Request("release", s, a) \in Requests
  <2>1. s \in {t \in Subnets : t.size <= Octet}
    BY <1>2
  <2>2. Request("release", s, a)
          \in {Request("release", s, b) : b \in Block(s) \cup {NilIP}}
    BY <1>2
  <2> QED
    BY <2>1, <2>2 DEF Requests
<1> QED
  BY <1>1, <1>2

\* Any outcome, with an address or nil, answers any request.
LEMMA AnswerTypes ==
  ASSUME NEW r \in Requests \cup {NoRequest},
         NEW a \in Addresses \cup {NilIP}
  PROVE  \A o \in {"ok", "error", "panic"} : Answer(r, o, a) \in Answers
  BY DEF Answers, Answer, Outcomes

\* The parts of a request, by kind.
LEMMA RequestParts ==
  ASSUME NEW r \in Requests \cup {NoRequest}
  PROVE  /\ r.kind \in {"create", "allocate", "release"} => r.subnet \in Subnets
         /\ r.kind = "release" => /\ r.subnet \in Small
                                  /\ r.ip \in Block(r.subnet) \cup {NilIP}
<1>1. CASE r = NoRequest
  BY <1>1 DEF NoRequest, Request
<1>2. CASE r \in {Request(k, s, NilIP) : k \in {"create", "allocate"}, s \in Subnets}
  BY <1>2 DEF Request
<1>3. CASE \E s \in {t \in Subnets : t.size <= Octet} :
             r \in {Request("release", s, a) : a \in Block(s) \cup {NilIP}}
  BY <1>3 DEF Request, Small
<1> QED
  BY <1>1, <1>2, <1>3 DEF Requests

-----------------------------------------------------------------------------
(* The first free bit. *)

\* A non-empty set of naturals has a least element.
LEMMA LeastExists ==
  ASSUME NEW F, F \subseteq Nat, F # {}
  PROVE  \E x \in F : \A y \in F : x <= y
<1> DEFINE R == OpToRel(<, Nat)
<1>1. IsWellFoundedOn(R, Nat)
  BY NatLessThanWellFounded
<1>2. \A x, y \in Nat : x < y => <<x, y>> \in R
  BY DEF OpToRel
<1> HIDE DEF R
<1>3. PICK x \in F : \A y \in F : ~ (<<y, x>> \in R)
  BY WFMin, <1>1
<1>4. ASSUME NEW y \in F PROVE x <= y
  <2>1. x \in Nat /\ y \in Nat
    OBVIOUS
  <2>2. ~ (y < x)
    BY <1>2, <1>3, <2>1, Zenon
  <2> QED
    BY <2>1, <2>2
<1> QED
  BY <1>4

\* The loop of Allocate finds the first free bit when there is one, and finds
\* the gateway's bit in an empty bitmap.
LEMMA FirstFreeIsFree ==
  ASSUME NEW m, NEW s \in Small, FreeBits(m, s) # {}
  PROVE  /\ FirstFree(m, s) \in FreeBits(m, s)
         /\ \A q \in FreeBits(m, s) : FirstFree(m, s) <= q
         /\ m[s] = {} => FirstFree(m, s) = GatewayBit
<1>1. s.size \in Nat \ {0}
  BY SmallFields
<1>2. FreeBits(m, s) \subseteq Nat
  BY <1>1 DEF FreeBits, Offsets
<1>3. \E o \in FreeBits(m, s) : \A q \in FreeBits(m, s) : o <= q
  BY <1>2, LeastExists
<1>4. /\ FirstFree(m, s) \in FreeBits(m, s)
      /\ \A q \in FreeBits(m, s) : FirstFree(m, s) <= q
  BY <1>3 DEF FirstFree
<1>5. ASSUME m[s] = {} PROVE FirstFree(m, s) = GatewayBit
  <2>1. GatewayBit \in FreeBits(m, s)
    BY <1>1, <1>5 DEF GatewayBit, FreeBits, Offsets
  <2>2. FirstFree(m, s) <= 0 /\ FirstFree(m, s) \in Nat
    BY <1>2, <1>4, <2>1 DEF GatewayBit
  <2> QED
    BY <2>2 DEF GatewayBit
<1> QED
  BY <1>4, <1>5

-----------------------------------------------------------------------------
(* What the updates of the map preserve. *)

\* The overlap test holds for every pair of the map.
NoConflicts(m) ==
  \A s, t \in DOMAIN m : s # t => ~Conflicts(s, t)

\* The inductive invariant of the map.
WellFormed(m) ==
  /\ IsMap(m)
  /\ DOMAIN m \subseteq Small
  /\ NoConflicts(m)
  /\ GatewayMarkedIn(m)

\* A well-formed map has disjoint subnets.
LEMMA WellFormedDisjoint ==
  ASSUME NEW m, WellFormed(m)
  PROVE  DisjointIn(m)
  BY NoConflictNoOverlap DEF WellFormed, NoConflicts, DisjointIn

\* The empty map is well-formed.
LEMMA NoSubnetsWellFormed == WellFormed(NoSubnets)
  BY DEF WellFormed, NoSubnets, IsMap, NoConflicts, GatewayMarkedIn

\* Create keeps the map well-formed.
LEMMA CreateWellFormed ==
  ASSUME NEW m, NEW s \in Subnets, WellFormed(m), CanCreate(m, s)
  PROVE  WellFormed(WithSubnet(m, s))
<1> DEFINE n == WithSubnet(m, s)
<1>1. /\ DOMAIN n = DOMAIN m \cup {s}
      /\ n[s] = {}
      /\ \A t \in DOMAIN m : t # s /\ n[t] = m[t]
  BY DEF WithSubnet, CanCreate
<1>2. IsMap(n)
  BY <1>1 DEF WellFormed, IsMap, WithSubnet
<1>3. DOMAIN n \subseteq Small
  BY <1>1 DEF WellFormed, CanCreate, Small
<1>4. NoConflicts(n)
  <2>1. ASSUME NEW t \in DOMAIN m PROVE ~Conflicts(s, t) /\ ~Conflicts(t, s)
    BY <2>1 DEF CanCreate, Conflicts
  <2> QED
    BY <1>1, <2>1 DEF WellFormed, NoConflicts
<1>5. GatewayMarkedIn(n)
  BY <1>1 DEF WellFormed, GatewayMarkedIn
<1> QED
  BY <1>2, <1>3, <1>4, <1>5 DEF WellFormed

\* Allocate keeps the map well-formed.
LEMMA AllocateWellFormed ==
  ASSUME NEW m, NEW s \in DOMAIN m, WellFormed(m), FreeBits(m, s) # {}
  PROVE  WellFormed(WithBit(m, s, FirstFree(m, s)))
<1> DEFINE o == FirstFree(m, s)
           n == WithBit(m, s, o)
<1>1. s \in Small
  BY DEF WellFormed
<1>2. o \in Offsets(s) /\ (m[s] = {} => o = GatewayBit)
  BY <1>1, FirstFreeIsFree DEF FreeBits
<1> HIDE DEF o
<1>3. /\ DOMAIN n = DOMAIN m
      /\ n[s] = m[s] \cup {o}
      /\ \A t \in DOMAIN m : t # s => n[t] = m[t]
  BY DEF WithBit, WellFormed, IsMap
<1>4. IsMap(n)
  BY <1>2, <1>3 DEF WellFormed, IsMap, WithBit
<1>5. DOMAIN n \subseteq Small /\ NoConflicts(n)
  BY <1>3 DEF WellFormed, NoConflicts
<1>6. GatewayMarkedIn(n)
  BY <1>2, <1>3 DEF WellFormed, GatewayMarkedIn
<1> QED
  BY <1>4, <1>5, <1>6 DEF WellFormed, o

\* Release keeps the map well-formed, whatever it is asked to release.
LEMMA ReleaseWellFormed ==
  ASSUME NEW m, NEW s, NEW a, WellFormed(m), ~ReleasePanics(m, s, a)
  PROVE  WellFormed(Released(m, s, a))
<1>1. CASE OffsetOf(s, a) = GatewayBit
  <2> DEFINE n == WithoutSubnet(m, s)
  <2>1. /\ Released(m, s, a) = n
        /\ DOMAIN n = DOMAIN m \ {s}
        /\ \A t \in DOMAIN n : n[t] = m[t]
    BY <1>1 DEF Released, WithoutSubnet
  <2>2. IsMap(n)
    BY <2>1 DEF WellFormed, IsMap, WithoutSubnet
  <2> QED
    BY <2>1, <2>2 DEF WellFormed, NoConflicts, GatewayMarkedIn
<1>2. CASE OffsetOf(s, a) # GatewayBit
  <2> DEFINE o == OffsetOf(s, a)
             n == WithoutBit(m, s, o)
  <2>1. s \in DOMAIN m
    BY <1>2 DEF ReleasePanics
  <2>2. Released(m, s, a) = n
    BY <1>2 DEF Released
  <2> HIDE DEF o
  <2>3. /\ DOMAIN n = DOMAIN m
        /\ n[s] = m[s] \ {o}
        /\ \A t \in DOMAIN m : t # s => n[t] = m[t]
    BY <2>1 DEF WithoutBit, WellFormed, IsMap
  <2>4. IsMap(n)
    BY <2>1, <2>3 DEF WellFormed, IsMap, WithoutBit
  <2>5. GatewayMarkedIn(n)
    BY <1>2, <2>1, <2>3 DEF WellFormed, GatewayMarkedIn, o
  <2> QED
    BY <2>2, <2>3, <2>4, <2>5 DEF WellFormed, NoConflicts
<1> QED
  BY <1>1, <1>2

-----------------------------------------------------------------------------
(* What the updates of the map do to the set of leased addresses. *)

\* Membership in LeasedIn, without the UNION.
LEMMA LeasedMember ==
  ASSUME NEW m, NEW a
  PROVE  a \in LeasedIn(m) <=> \E t \in DOMAIN m : \E o \in m[t] : a = AddrOf(t, o)
  BY DEF LeasedIn

\* In a well-formed map, an address is leased through its own bit only.
LEMMA LeasedThroughOwnBit ==
  ASSUME NEW m, WellFormed(m), NEW s \in DOMAIN m, NEW o \in Offsets(s),
         NEW t \in DOMAIN m, NEW p \in m[t], AddrOf(s, o) = AddrOf(t, p)
  PROVE  t = s /\ p = o
<1>1. s \in Small /\ t \in Small /\ p \in Offsets(t)
  BY DEF WellFormed, IsMap
<1>2. t = s
  <2>1. AddrOf(s, o) \in Block(s) /\ AddrOf(s, o) \in Block(t)
    BY <1>1 DEF Block
  <2>2. s # t => Block(s) \cap Block(t) = {}
    BY WellFormedDisjoint DEF DisjointIn
  <2> QED
    BY <2>1, <2>2
<1>3. p = o
  BY <1>1, <1>2, OffsetOfAddrOf
<1> QED
  BY <1>2, <1>3

\* Create opens a block that meets no open block, and leases nothing.
LEMMA LeasedWithSubnet ==
  ASSUME NEW m, NEW s \in Subnets, WellFormed(m), CanCreate(m, s)
  PROVE  /\ LeasedIn(WithSubnet(m, s)) = LeasedIn(m)
         /\ \A t \in DOMAIN m : Block(s) \cap Block(t) = {}
<1> DEFINE n == WithSubnet(m, s)
<1>1. /\ DOMAIN n = DOMAIN m \cup {s}
      /\ n[s] = {}
      /\ \A t \in DOMAIN m : t # s /\ n[t] = m[t]
  BY DEF WithSubnet, CanCreate
<1> HIDE DEF n
<1>2. ASSUME NEW a PROVE a \in LeasedIn(n) <=> a \in LeasedIn(m)
  BY <1>1, LeasedMember
<1>3. s \in Small
  BY DEF CanCreate, Small
<1>4. \A t \in DOMAIN m : t \in Small /\ ~Conflicts(s, t)
  BY DEF WellFormed, CanCreate
<1>5. \A t \in DOMAIN m : Block(s) \cap Block(t) = {}
  BY <1>3, <1>4, NoConflictNoOverlap
<1> QED
  BY <1>2, <1>5 DEF n

\* Setting a free bit leases its address, which was not leased.
LEMMA LeasedWithBit ==
  ASSUME NEW m, WellFormed(m), NEW s \in DOMAIN m, NEW o \in FreeBits(m, s)
  PROVE  /\ AddrOf(s, o) \notin LeasedIn(m)
         /\ LeasedIn(WithBit(m, s, o)) = LeasedIn(m) \cup {AddrOf(s, o)}
<1> DEFINE n == WithBit(m, s, o)
<1>1. o \in Offsets(s) /\ o \notin m[s]
  BY DEF FreeBits
<1>2. /\ DOMAIN n = DOMAIN m
      /\ n[s] = m[s] \cup {o}
      /\ \A t \in DOMAIN m : t # s => n[t] = m[t]
  BY DEF WithBit, WellFormed, IsMap
<1> HIDE DEF n
<1>3. AddrOf(s, o) \notin LeasedIn(m)
  BY <1>1, LeasedMember, LeasedThroughOwnBit
<1>4. ASSUME NEW a
      PROVE  a \in LeasedIn(n) <=> a \in LeasedIn(m) \/ a = AddrOf(s, o)
  <2>1. ASSUME a \in LeasedIn(n) PROVE a \in LeasedIn(m) \/ a = AddrOf(s, o)
    <3>1. PICK t \in DOMAIN n : \E p \in n[t] : a = AddrOf(t, p)
      BY <2>1, LeasedMember
    <3>2. PICK p \in n[t] : a = AddrOf(t, p)
      BY <3>1
    <3>3. p \in m[t] \/ (t = s /\ p = o)
      BY <1>2, <3>1, <3>2
    <3> QED
      BY <1>2, <3>1, <3>2, <3>3, LeasedMember
  <2>2. ASSUME a \in LeasedIn(m) PROVE a \in LeasedIn(n)
    BY <1>2, <2>2, LeasedMember
  <2>3. AddrOf(s, o) \in LeasedIn(n)
    BY <1>2, LeasedMember
  <2> QED
    BY <2>1, <2>2, <2>3
<1> QED
  BY <1>3, <1>4 DEF n

\* Clearing a bit ends the lease of its address and of no other.
LEMMA LeasedWithoutBit ==
  ASSUME NEW m, WellFormed(m), NEW s \in DOMAIN m, NEW o \in Offsets(s)
  PROVE  LeasedIn(WithoutBit(m, s, o)) = LeasedIn(m) \ {AddrOf(s, o)}
<1> DEFINE n == WithoutBit(m, s, o)
<1>1. /\ DOMAIN n = DOMAIN m
      /\ n[s] = m[s] \ {o}
      /\ \A t \in DOMAIN m : t # s => n[t] = m[t]
  BY DEF WithoutBit, WellFormed, IsMap
<1> HIDE DEF n
<1>2. ASSUME NEW a
      PROVE  a \in LeasedIn(n) <=> a \in LeasedIn(m) /\ a # AddrOf(s, o)
  <2>1. ASSUME a \in LeasedIn(n) PROVE a \in LeasedIn(m) /\ a # AddrOf(s, o)
    <3>1. PICK t \in DOMAIN n : \E p \in n[t] : a = AddrOf(t, p)
      BY <2>1, LeasedMember
    <3>2. PICK p \in n[t] : a = AddrOf(t, p)
      BY <3>1
    <3>3. t \in DOMAIN m /\ p \in m[t] /\ ~(t = s /\ p = o)
      BY <1>1, <3>1, <3>2
    <3>4. a # AddrOf(s, o)
      BY <3>2, <3>3, LeasedThroughOwnBit
    <3> QED
      BY <3>2, <3>3, <3>4, LeasedMember
  <2>2. ASSUME a \in LeasedIn(m), a # AddrOf(s, o) PROVE a \in LeasedIn(n)
    <3>1. PICK t \in DOMAIN m : \E p \in m[t] : a = AddrOf(t, p)
      BY <2>2, LeasedMember
    <3>2. PICK p \in m[t] : a = AddrOf(t, p)
      BY <3>1
    <3>3. t \in DOMAIN n /\ p \in n[t]
      BY <1>1, <2>2, <3>2
    <3> QED
      BY <3>2, <3>3, LeasedMember
  <2> QED
    BY <2>1, <2>2
<1> QED
  BY <1>2 DEF n

\* Dropping a subnet ends the leases of its block and no other.
LEMMA LeasedWithoutSubnet ==
  ASSUME NEW m, WellFormed(m), NEW s \in DOMAIN m
  PROVE  LeasedIn(WithoutSubnet(m, s)) = LeasedIn(m) \ Block(s)
<1> DEFINE n == WithoutSubnet(m, s)
<1>1. /\ DOMAIN n = DOMAIN m \ {s}
      /\ \A t \in DOMAIN n : n[t] = m[t]
  BY DEF WithoutSubnet
<1> HIDE DEF n
<1>2. ASSUME NEW a
      PROVE  a \in LeasedIn(n) <=> a \in LeasedIn(m) /\ a \notin Block(s)
  <2>1. ASSUME a \in LeasedIn(n) PROVE a \in LeasedIn(m) /\ a \notin Block(s)
    <3>1. PICK t \in DOMAIN n : \E p \in n[t] : a = AddrOf(t, p)
      BY <2>1, LeasedMember
    <3>2. PICK p \in n[t] : a = AddrOf(t, p)
      BY <3>1
    <3>3. t \in DOMAIN m /\ t # s /\ p \in m[t]
      BY <1>1, <3>1, <3>2
    <3>4. \A o \in Offsets(s) : a # AddrOf(s, o)
      BY <3>2, <3>3, LeasedThroughOwnBit
    <3> QED
      BY <3>2, <3>3, <3>4, LeasedMember DEF Block
  <2>2. ASSUME a \in LeasedIn(m), a \notin Block(s) PROVE a \in LeasedIn(n)
    <3>1. PICK t \in DOMAIN m : \E p \in m[t] : a = AddrOf(t, p)
      BY <2>2, LeasedMember
    <3>2. PICK p \in m[t] : a = AddrOf(t, p)
      BY <3>1
    <3>3. t # s
      BY <2>2, <3>2 DEF Block, WellFormed, IsMap
    <3>4. t \in DOMAIN n /\ p \in n[t]
      BY <1>1, <3>2, <3>3
    <3> QED
      BY <3>2, <3>4, LeasedMember
  <2> QED
    BY <2>1, <2>2
<1> QED
  BY <1>2 DEF n

=============================================================================
