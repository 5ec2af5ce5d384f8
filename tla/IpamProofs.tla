----------------------------- MODULE IpamProofs -----------------------------
(***************************************************************************)
(* Theorems about Ipam, for any set of subnets: the bitmap invariants and  *)
(* the refinement of AddressPool.  All rest on one inductive invariant,    *)
(* that the map is well-formed.                                            *)
(***************************************************************************)
EXTENDS Ipam, IpamBitmapProofs

IInv == TypeOK /\ WellFormed(subnets)

-----------------------------------------------------------------------------
(* The inductive invariant. *)

\* The manager starts with no subnet.
LEMMA InitInvariant == Init => IInv
  BY NoSubnetsWellFormed, AnswerTypes DEF Init, IInv, TypeOK, WellFormed

\* Every call keeps the map well-formed.
LEMMA StepInvariant == IInv /\ [Next]_vars => IInv'
<1> SUFFICES ASSUME IInv, [Next]_vars PROVE IInv'
  OBVIOUS
<1> USE DEF IInv
<1>1. CASE UNCHANGED vars
  BY <1>1 DEF vars, TypeOK
<1>2. ASSUME NEW s \in Subnets, Create(s) PROVE IInv'
  <2>1. WellFormed(subnets')
    BY <1>2, CreateWellFormed DEF Create
  <2>2. reply' \in Answers
    BY <1>2, RequestTypes, AnswerTypes DEF Create
  <2> QED
    BY <2>1, <2>2 DEF TypeOK, WellFormed
<1>3. ASSUME NEW s \in Subnets, Allocate(s) PROVE IInv'
  <2>1. WellFormed(subnets')
    BY <1>3, AllocateWellFormed DEF Allocate
  <2>2. AddrOf(s, FirstFree(subnets, s)) \in Addresses
    <3>1. s \in Small /\ FirstFree(subnets, s) \in Offsets(s)
      BY <1>3, FirstFreeIsFree DEF Allocate, WellFormed, FreeBits
    <3> QED
      BY <3>1, OffsetOfAddrOf
  <2>3. reply' \in Answers
    BY <1>3, <2>2, RequestTypes, AnswerTypes DEF Allocate
  <2> QED
    BY <2>1, <2>3 DEF TypeOK, WellFormed
<1>4. ASSUME NEW s \in Subnets, s.size <= Octet,
             NEW a \in Block(s) \cup {NilIP}, Release(s, a)
      PROVE  IInv'
  <2>1. WellFormed(subnets')
    BY <1>4, ReleaseWellFormed DEF Release
  <2>2. reply' \in Answers
    BY <1>4, RequestTypes, AnswerTypes DEF Release
  <2> QED
    BY <2>1, <2>2 DEF TypeOK, WellFormed
<1>5. ASSUME NEW s \in Subnets,
             CreateRefused(s) \/ AllocateExhausted(s) \/ AllocateRefused(s)
      PROVE  IInv'
  <2>1. UNCHANGED subnets
    BY <1>5 DEF CreateRefused, AllocateExhausted, AllocateRefused
  <2>2. reply' \in Answers
    BY <1>5, RequestTypes, AnswerTypes
       DEF CreateRefused, AllocateExhausted, AllocateRefused
  <2> QED
    BY <2>1, <2>2 DEF TypeOK
<1>6. ASSUME NEW s \in Subnets, s.size <= Octet,
             NEW a \in Block(s) \cup {NilIP}, ReleaseRefused(s, a)
      PROVE  IInv'
  <2>1. reply' \in Answers
    BY <1>6, RequestTypes, AnswerTypes DEF ReleaseRefused
  <2> QED
    BY <1>6, <2>1 DEF TypeOK, ReleaseRefused
<1> QED
  BY <1>1, <1>2, <1>3, <1>4, <1>5, <1>6 DEF Next, CallOn

\* The map is always well-formed.
LEMMA Invariant == Spec => []IInv
<1>1. Init => IInv
  BY InitInvariant
<1>2. IInv /\ [Next]_vars => IInv'
  BY StepInvariant
<1> QED
  BY <1>1, <1>2, PTL DEF Spec

-----------------------------------------------------------------------------
(* Safety. *)

\* The map and the reply always have their type: no bit outside its bitmap is
\* ever set, and a reply is an address or nil.
THEOREM TypeCorrect == Spec => []TypeOK
<1>1. IInv => TypeOK
  BY DEF IInv
<1> QED
  BY <1>1, Invariant, PTL

\* No two subnets of subnet.json ever have an address in common, whatever
\* subnets are created and dropped, and in whatever order.
THEOREM SubnetsDisjoint == Spec => []Disjoint
<1>1. IInv => Disjoint
  BY WellFormedDisjoint DEF IInv, Disjoint
<1> QED
  BY <1>1, Invariant, PTL

\* The gateway's address is never handed out to a container.
THEOREM GatewayIsKept == Spec => []GatewayKept
<1>1. IInv => GatewayKept
  BY DEF IInv, WellFormed, GatewayKept
<1> QED
  BY <1>1, Invariant, PTL

\* What a release does to the leases, under the invariant.
LEMMA ReleaseEffect ==
  ASSUME IInv, NEW s \in DOMAIN subnets, NEW a \in Block(s), Release(s, a)
  PROVE  /\ Leased' = Leased \ (IF a = Gateway(s) THEN Block(s) ELSE {a})
         /\ DOMAIN subnets' = IF a = Gateway(s) THEN DOMAIN subnets \ {s}
                                                ELSE DOMAIN subnets
<1>1. s \in Small /\ WellFormed(subnets)
  BY DEF IInv, WellFormed
<1>2. CASE a = Gateway(s)
  <2>1. subnets' = WithoutSubnet(subnets, s)
    BY <1>1, <1>2, BlockFacts DEF Release, Released
  <2>2. LeasedIn(subnets') = LeasedIn(subnets) \ Block(s)
    BY <1>1, <2>1, LeasedWithoutSubnet
  <2> QED
    BY <1>2, <2>1, <2>2 DEF Leased, WithoutSubnet
<1>3. CASE a # Gateway(s)
  <2> DEFINE o == OffsetOf(s, a)
  <2>1. o \in Offsets(s) /\ a = AddrOf(s, o)
    BY <1>1, BlockFacts
  <2>2. subnets' = WithoutBit(subnets, s, o)
    BY <1>1, <1>3, BlockFacts DEF Release, Released
  <2> HIDE DEF o
  <2>3. LeasedIn(subnets') = LeasedIn(subnets) \ {a}
    BY <1>1, <2>1, <2>2, LeasedWithoutBit
  <2> QED
    BY <1>3, <2>2, <2>3 DEF Leased, WithoutBit
<1> QED
  BY <1>2, <1>3

\* A release always frees the address it is given, or the whole subnet for
\* the gateway, and never anything else.
THEOREM ReleaseInvertsAllocate == Spec => FreesWhatItIsGiven
<1> DEFINE Frees ==
      \A s \in DOMAIN subnets : \A a \in Block(s) :
        Release(s, a) =>
          Leased' = Leased \ (IF a = Gateway(s) THEN Block(s) ELSE {a})
<1>1. IInv => Frees
  BY ReleaseEffect
<1>2. IInv /\ [Next]_vars => [Frees]_vars
  BY <1>1
<1>3. Spec => [][Frees]_vars
  BY <1>2, Invariant, PTL DEF Spec
<1> QED
  BY <1>3 DEF FreesWhatItIsGiven

\* The address of every bit but the last lies inside the subnet.
LEMMA InnerCovered ==
  ASSUME NEW b \in 0 .. 255, NEW n \in Nat, NEW o \in 0 .. n - 1, b + n <= 256,
         ~(b <= (b + o + 1) % 256 /\ (b + o + 1) % 256 < b + n)
  PROVE  o = n - 1
<1>1. SUFFICES ASSUME o # n - 1 PROVE FALSE
  OBVIOUS
<1>2. b + o + 1 \in 0 .. 255 /\ b <= b + o + 1 /\ b + o + 1 < b + n
  BY <1>1
<1>3. \A x \in 0 .. 255 : x % 256 = x
  OBVIOUS
<1> QED
  BY <1>2, <1>3

\* What an allocation leaves free when its address is outside the subnet.
LEMMA OutsideEffect ==
  ASSUME IInv, NEW s \in Subnets, Allocate(s), ~Covers(s, reply'.ip.last)
  PROVE  FreeBits(subnets', s) = {}
<1> DEFINE o == FirstFree(subnets, s)
<1>1. s \in DOMAIN subnets /\ s \in Small /\ FreeBits(subnets, s) # {}
  BY DEF IInv, WellFormed, Allocate
<1>2. /\ s.base \in 0 .. 255 /\ s.size \in Nat \ {0} /\ s.base + s.size <= 256
  BY <1>1, SmallFields DEF Octet
<1>3. /\ o \in FreeBits(subnets, s)
      /\ \A q \in FreeBits(subnets, s) : o <= q
  BY <1>1, FirstFreeIsFree
<1>4. /\ subnets' = WithBit(subnets, s, o)
      /\ reply'.ip.last = (s.base + o + 1) % 256
  BY DEF Allocate, Answer, AddrOf, Octet
<1> HIDE DEF o
<1>5. o \in 0 .. s.size - 1
  BY <1>3 DEF FreeBits, Offsets
<1>6. o = s.size - 1
  BY <1>2, <1>4, <1>5, InnerCovered DEF Covers
<1>7. \A q \in FreeBits(subnets, s) : q = o
  BY <1>2, <1>3, <1>6 DEF FreeBits, Offsets
<1>8. FreeBits(subnets', s) = FreeBits(subnets, s) \ {o}
  BY <1>1, <1>4 DEF WithBit, FreeBits
<1> QED
  BY <1>7, <1>8

\* Whatever is leased and released, Allocate goes past the end of a subnet
\* only with the subnet's last free address.
THEOREM LeavesSubnetLast == Spec => OutsideOnlyWhenFull
<1> DEFINE Outside ==
      \A s \in Subnets :
        Allocate(s) /\ ~Covers(s, reply'.ip.last) => FreeBits(subnets', s) = {}
<1>1. IInv => Outside
  BY OutsideEffect
<1>2. IInv /\ [Next]_vars => [Outside]_vars
  BY <1>1
<1>3. Spec => [][Outside]_vars
  BY <1>2, Invariant, PTL DEF Spec
<1> QED
  BY <1>3 DEF OutsideOnlyWhenFull

-----------------------------------------------------------------------------
(* Refinement. *)

\* The initial state is the pool's.
LEMMA PoolInit == Init => Pool!Init
  BY DEF Init, Pool!Init, Leased, LeasedIn, NoSubnets, Answer

\* Every call is a request to the pool: Create opens a block, Allocate leases
\* an address, Release returns one or closes a block, and a call that is
\* refused, finds nothing or panics leaves the pool alone.
LEMMA PoolStep == IInv /\ [Next]_vars => [Pool!Next]_(Pool!vars)
<1> SUFFICES ASSUME IInv, [Next]_vars PROVE [Pool!Next]_(Pool!vars)
  OBVIOUS
<1>1. WellFormed(subnets)
  BY DEF IInv
<1>3. CASE UNCHANGED vars
  BY <1>3 DEF vars, Pool!vars, Leased
<1>4. ASSUME NEW s \in Subnets, Create(s) PROVE Pool!Open(s)
  <2>1. DOMAIN subnets' = DOMAIN subnets \cup {s} /\ s \notin DOMAIN subnets
    BY <1>4 DEF Create, WithSubnet, CanCreate
  <2>2. Leased' = Leased /\ \A t \in DOMAIN subnets : Block(s) \cap Block(t) = {}
    BY <1>1, <1>4, LeasedWithSubnet DEF Create, Leased
  <2>3. reply'.ip = NilIP
    BY <1>4 DEF Create, Answer
  <2> QED
    BY <2>1, <2>2, <2>3 DEF Pool!Open
<1>5. ASSUME NEW s \in Subnets, Allocate(s) PROVE Pool!Lease(s)
  <2> DEFINE o == FirstFree(subnets, s)
  <2>1. s \in DOMAIN subnets /\ s \in Small /\ o \in FreeBits(subnets, s)
    BY <1>1, <1>5, FirstFreeIsFree DEF Allocate, WellFormed
  <2>2. AddrOf(s, o) \in Block(s)
    BY <2>1 DEF FreeBits, Block
  <2>3. subnets' = WithBit(subnets, s, o) /\ reply'.ip = AddrOf(s, o)
    BY <1>5 DEF Allocate, Answer
  <2> HIDE DEF o
  <2>4. /\ AddrOf(s, o) \notin Leased
        /\ Leased' = Leased \cup {AddrOf(s, o)}
    BY <1>1, <2>1, <2>3, LeasedWithBit DEF Leased
  <2>5. DOMAIN subnets' = DOMAIN subnets
    BY <2>3 DEF WithBit
  <2> QED
    BY <2>1, <2>2, <2>3, <2>4, <2>5 DEF Pool!Lease
<1>6. ASSUME NEW s \in Subnets, s.size <= Octet,
             NEW a \in Block(s) \cup {NilIP}, Release(s, a)
      PROVE  Pool!Return(s) \/ Pool!Close(s)
  <2>1. s \in Small /\ a \in Block(s)
    BY <1>6 DEF Release, ReleasePanics, Small
  <2>2. reply'.ip = NilIP
    BY <1>6 DEF Release, Answer
  <2>3. CASE s \in DOMAIN subnets
    BY <1>6, <2>1, <2>2, <2>3, ReleaseEffect DEF Pool!Return, Pool!Close
  <2>4. CASE s \notin DOMAIN subnets
    <3>1. subnets' = WithoutSubnet(subnets, s)
      BY <1>6, <2>4 DEF Release, ReleasePanics, Released
    <3>2. subnets' = subnets
      BY <1>1, <2>4, <3>1 DEF WithoutSubnet, WellFormed, IsMap
    <3> QED
      BY <2>2, <2>4, <3>2 DEF Pool!Close, Leased
  <2> QED
    BY <2>3, <2>4
<1>7. ASSUME NEW s \in Subnets,
             \/ CreateRefused(s) \/ AllocateExhausted(s) \/ AllocateRefused(s)
             \/ \E a \in Block(s) \cup {NilIP} : ReleaseRefused(s, a)
      PROVE  Pool!Refuse
  <2>1. UNCHANGED subnets /\ reply'.ip = NilIP
    BY <1>7
       DEF CreateRefused, AllocateExhausted, AllocateRefused, ReleaseRefused, Answer
  <2> QED
    BY <2>1 DEF Pool!Refuse, Leased
<1> QED
  BY <1>3, <1>4, <1>5, <1>6, <1>7 DEF Next, CallOn, Pool!Next

\* The bitmaps of network/ipam.go implement an address pool: an address that
\* is leased is never leased again before it is released.
THEOREM IpamImplementsPool == Spec => ImplementsPool
<1>1. Init => Pool!Init
  BY PoolInit
<1>2. IInv /\ [Next]_vars => [Pool!Next]_(Pool!vars)
  BY PoolStep
<1>3. Spec => Pool!Spec
  BY <1>1, <1>2, Invariant, PTL DEF Spec, Pool!Spec
<1> QED
  BY <1>3 DEF ImplementsPool

=============================================================================
