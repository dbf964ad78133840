-------------------------------- MODULE PathMtu --------------------------------
(***************************************************************************)
(* path_mtu (src/ipscout/mtu.py): the largest packet that reaches a target *)
(* unfragmented.                                                           *)
(*                                                                         *)
(* Linux is asked for the number.  Windows and the BSDs are asked size by  *)
(* size, by bisection, while the path may change; and the two misjudge a   *)
(* size in opposite directions, since Windows takes silence for a fit and  *)
(* the BSDs take any error of a send for a refusal.  Sizes are those of    *)
(* whole packets; the code bisects the payload, which differs by the       *)
(* headers it adds at the end.                                             *)
(***************************************************************************)
EXTENDS Naturals, Sequences, SequencesExt

CONSTANTS
  Smallest, Largest,  \* _MIN_MTU and _MAX_MTU
  MaxChanges          \* bound: how often the path changes during one call

ASSUME MtuAssumption ==
  /\ Smallest \in Nat \ {0} /\ Largest \in Nat /\ Smallest <= Largest
  /\ MaxChanges \in Nat

VARIABLES
  mtu,        \* the call: platform and resolved family
  mtuStep,    \* where it is
  limit,      \* the largest packet the path takes now
  limits,     \* every limit it had during the call
  low, high,  \* the sizes between which the answer lies
  tried,      \* the sizes asked, with what the code made of each
  changes,    \* how often the path changed
  mtuAnswer

mtuVars == <<mtu, mtuStep, limit, limits, low, high, tried, changes, mtuAnswer>>

MtuCalls == [platform : {"linux", "windows", "bsd"}, family : {"ipv4", "ipv6"}]
\* Below the smallest size asked about to above the largest.
Limits == 0..(Largest + 1)
NoSize == [kind |-> "none", size |-> 0]
Unavailable == [kind |-> "unavailable", size |-> 0]
Size(bytes) == [kind |-> "size", size |-> bytes]

MtuFresh ==
  /\ low = Smallest /\ high = Largest
  /\ tried = <<>> /\ changes = 0 /\ mtuAnswer = NoSize

MtuInit ==
  /\ mtu \in MtuCalls /\ mtuStep = "start"
  /\ limit \in Limits /\ limits = {limit}
  /\ MtuFresh

MtuEnds(answer) == mtuStep' = "done" /\ mtuAnswer' = answer

\* A router's MTU, another route, a new entry in the kernel's table.
PathChanges ==
  /\ mtuStep \in {"start", "floor", "search"} /\ changes < MaxChanges
  /\ limit' \in Limits /\ limits' = limits \cup {limit'}
  /\ changes' = changes + 1
  /\ UNCHANGED <<mtu, mtuStep, low, high, tried, mtuAnswer>>

\* resolve_one refuses; or the BSD socket cannot be opened.
MtuRefused ==
  /\ mtuStep = "start"
  /\ MtuEnds([NoSize EXCEPT !.kind = "raised"])
  /\ UNCHANGED <<mtu, limit, limits, low, high, tried, changes>>

\* _linux_mtu: IP_MTU of a connected socket, or any error on the way there.
AskKernel ==
  /\ mtuStep = "start" /\ mtu.platform = "linux"
  /\ \E known \in BOOLEAN : MtuEnds(IF known /\ limit > 0 THEN Size(limit) ELSE Unavailable)
  /\ UNCHANGED <<mtu, limit, limits, low, high, tried, changes>>

\* No don't-fragment option for IPv6; no library or handle, no IP_DONTFRAG, no
\* route to connect to.
CannotProbe ==
  /\ mtuStep = "start" /\ mtu.platform # "linux"
  /\ MtuEnds(Unavailable)
  /\ UNCHANGED <<mtu, limit, limits, low, high, tried, changes>>

StartProbing ==
  /\ mtuStep = "start" /\ mtu.platform # "linux" /\ mtu.family = "ipv4"
  /\ mtuStep' = "floor"
  /\ UNCHANGED <<mtu, limit, limits, low, high, tried, changes, mtuAnswer>>

\* fits: can a packet of that size be taken for one that fits, or for one that
\* does not?
Fits(size, fitting) ==
  IF mtu.platform = "windows" THEN fitting \/ size > limit ELSE fitting => size <= limit

Try(size, fitting) ==
  /\ Fits(size, fitting)
  /\ tried' = Append(tried, [size |-> size, fits |-> fitting])

TryFloor ==
  /\ mtuStep = "floor"
  /\ \E fitting \in BOOLEAN :
       /\ Try(low, fitting)
       /\ IF fitting THEN mtuStep' = "search" /\ UNCHANGED mtuAnswer ELSE MtuEnds(Unavailable)
  /\ UNCHANGED <<mtu, limit, limits, low, high, changes>>

\* Mutated form: rounded down, which never leaves two neighbouring sizes.
MiddleBelow == (low + high) \div 2
Middle == (low + high + 1) \div 2

TryMiddle ==
  /\ mtuStep = "search" /\ low < high
  /\ \E fitting \in BOOLEAN :
       /\ Try(Middle, fitting)
       /\ low' = IF fitting THEN Middle ELSE low
       /\ high' = IF fitting THEN high ELSE Middle - 1
  /\ UNCHANGED <<mtu, mtuStep, limit, limits, changes, mtuAnswer>>

SearchEnds ==
  /\ mtuStep = "search" /\ low >= high
  /\ MtuEnds(Size(low))
  /\ UNCHANGED <<mtu, limit, limits, low, high, tried, changes>>

MtuNext ==
  \/ PathChanges
  \/ MtuRefused \/ AskKernel \/ CannotProbe \/ StartProbing
  \/ TryFloor \/ TryMiddle \/ SearchEnds

MtuSpec == MtuInit /\ [][MtuNext]_mtuVars

-----------------------------------------------------------------------------
\* The search asks no size twice, so it ends however the path changes and
\* whatever is lost; it answers a size that was asked and taken for a fit, next
\* to one that was refused; and it errs to one side only.  At some moment of the
\* call the path took that packet on a BSD, and on Windows took none larger, up
\* to the largest asked; Linux answers a limit the path had (_bsd_mtu,
\* _windows_mtu, _linux_mtu).
MtuIsWhereThePathEnds ==
  /\ \A i, j \in DOMAIN tried : tried[i].size = tried[j].size => i = j
  /\ mtuAnswer.kind = "size" =>
       CASE mtu.platform = "linux" -> mtuAnswer.size \in limits
         [] mtu.platform = "windows" ->
              mtuAnswer.size = Largest \/ \E l \in limits : l <= mtuAnswer.size
         [] mtu.platform = "bsd" -> \E l \in limits : mtuAnswer.size <= l
  /\ mtuAnswer.kind = "size" /\ mtu.platform # "linux" =>
       /\ [size |-> mtuAnswer.size, fits |-> TRUE] \in ToSet(tried)
       /\ mtuAnswer.size = Largest \/ [size |-> mtuAnswer.size + 1, fits |-> FALSE] \in ToSet(tried)

=============================================================================
