----------------------------- MODULE AddressPool ----------------------------
(***************************************************************************)
(* What an IP address manager promises, without bitmaps: blocks of         *)
(* addresses are opened and closed; an address of an open block is leased  *)
(* to at most one client at a time, stays leased until it is returned or   *)
(* its block is closed, and two open blocks have no address in common.     *)
(***************************************************************************)
CONSTANTS
  Blocks,      \* the blocks of addresses clients may ask for
  Members(_),  \* the addresses of a block
  None         \* the answer when a block has no address left

VARIABLES
  open,        \* the blocks that are open
  leased,      \* the addresses in use
  answer       \* what the last request returned

vars == <<open, leased, answer>>

Init ==
  /\ open = {}
  /\ leased = {}
  /\ answer = None

Open(b) ==
  /\ b \in Blocks \ open
  /\ \A c \in open : Members(b) \cap Members(c) = {}
  /\ open' = open \cup {b}
  /\ answer' = None
  /\ UNCHANGED leased

Lease(b) ==
  /\ b \in open
  /\ \E a \in Members(b) \ leased :
       /\ leased' = leased \cup {a}
       /\ answer' = a
  /\ UNCHANGED open

Return(b) ==
  /\ b \in open
  /\ \E a \in Members(b) : leased' = leased \ {a}
  /\ answer' = None
  /\ UNCHANGED open

Close(b) ==
  /\ open' = open \ {b}
  /\ leased' = IF b \in open THEN leased \ Members(b) ELSE leased
  /\ answer' = None

\* A request that is refused, or that finds no address, changes nothing.
Refuse ==
  /\ answer' = None
  /\ UNCHANGED <<open, leased>>

Next ==
  \/ \E b \in Blocks : Open(b) \/ Lease(b) \/ Return(b) \/ Close(b)
  \/ Refuse

Spec == Init /\ [][Next]_vars

=============================================================================
