--------------------------- MODULE StaticNeighbour ---------------------------
(***************************************************************************)
(* set_neighbour and remove_neighbour (src/ipscout/static_neighbours.py)   *)
(* over the kernel's neighbour table as the Linux, Windows and macOS       *)
(* backends reach it (neighbours_linux.py, neighbours_windows.py,          *)
(* neighbours_macos.py, netlink.py).                                       *)
(*                                                                         *)
(* One target address: rows gives, for each interface, the hardware        *)
(* address the table holds for it.  Each message to the kernel is one      *)
(* step, and the kernel itself or other programs change the table between  *)
(* any two of them.  macOS keys an entry by address alone, so at most one  *)
(* interface has a row there.                                              *)
(***************************************************************************)
EXTENDS Host, Naturals, FiniteSets

CONSTANTS
  Macs,         \* hardware addresses
  NewMac,       \* the one set_neighbour is asked to write
  MaxOthers     \* bound: changes of the table by others

ASSUME StationAssumption ==
  /\ NewMac \in Macs
  /\ {"none", "pending"} \cap Macs = {} /\ MaxOthers \in Nat

VARIABLES
  write,        \* the call: what is asked, of which interface, on which platform
  writeStep,    \* where it is
  rows,         \* the kernel's table, for the target
  aim,          \* the interface the entry is written on
  toDelete,     \* the interfaces remove_neighbour has yet to go through
  removed,      \* what it is going to answer
  deletions,    \* entries this call deleted
  short,        \* a dump this call read was cut short
  bare,         \* interfaces seen without an entry since the call began
  held,         \* the entry stood in the table since the kernel acknowledged it
  others,       \* changes by others so far
  writeAnswer

writeVars == <<write, writeStep, rows, aim, toDelete, removed, deletions, short,
               bare, held, others, writeAnswer>>

\* "pending" is a row whose hardware address is not known: no dump lists it.
Rows == Macs \cup {"none", "pending"}
Listed(table) == {link \in Links : table[link] \in Macs}
Occupied(table) == {link \in Links : table[link] # "none"}
Tables(platform) ==
  {table \in [Links -> Rows] : platform = "macos" => Cardinality(Occupied(table)) <= 1}

Writes ==
  [op : {"set", "remove"}, platform : {"linux", "windows", "macos"},
   interface : Links \cup {"any"}, valid : BOOLEAN]

WriteFresh(table) ==
  /\ rows = table /\ aim = "none" /\ toDelete = {} /\ removed = FALSE /\ deletions = 0
  /\ short = FALSE /\ bare = Links \ Listed(table) /\ held = FALSE /\ others = 0
  /\ writeAnswer = "none"

WriteInit ==
  /\ write \in Writes
  /\ writeStep = "validate"
  /\ \E table \in Tables(write.platform) : WriteFresh(table)

\* The table changes; what the properties remember of it changes with it.
Becomes(table, acknowledged) ==
  /\ rows' = table
  /\ bare' = bare \cup (Links \ Listed(table))
  /\ held' = (held \/ ((acknowledged \/ writeStep = "confirm") /\ table[aim] = NewMac))
Keep == UNCHANGED <<rows, bare, held>>

Answer(answer) == writeStep' = "done" /\ writeAnswer' = answer
GoOn(at) == writeStep' = at /\ UNCHANGED writeAnswer

\* Learning, ageing, and other programs.
OtherWrites ==
  /\ writeStep \notin {"idle", "done"} /\ others < MaxOthers
  /\ \E link \in Links, row \in Rows :
       LET table == IF write.platform = "macos" /\ row # "none"
                      THEN [l \in Links |-> IF l = link THEN row ELSE "none"]
                      ELSE [rows EXCEPT ![link] = row]
       IN table # rows /\ Becomes(table, FALSE)
  /\ others' = others + 1
  /\ UNCHANGED <<write, writeStep, aim, toDelete, removed, deletions, short, writeAnswer>>

\* list_neighbours: a dump that fails half-way answers with what it has.
Dump(entries) ==
  /\ entries \in SUBSET Listed(rows)
  /\ short' = (short \/ entries # Listed(rows))

-----------------------------------------------------------------------------
\* ipv4_station_address, station_mac, interface_index, subnet_interface_index:
\* the one interface whose subnet holds the address, or a refusal.
Validate ==
  /\ writeStep = "validate"
  /\ IF ~write.valid
       THEN Answer("raised") /\ UNCHANGED aim
       ELSE \E holding \in (IF write.interface = "any" THEN SUBSET Links ELSE {{write.interface}}) :
              IF write.op = "remove"
                THEN aim' = write.interface
                     /\ GoOn(IF write.interface = "any" THEN "list" ELSE "delete")
              ELSE IF Cardinality(holding) # 1 THEN Answer("raised") /\ UNCHANGED aim
              ELSE /\ aim' \in holding
                   /\ GoOn(IF write.platform = "macos" THEN "look" ELSE "create")
  /\ toDelete' = IF write.valid /\ write.op = "remove" /\ write.interface # "any"
                   THEN {write.interface} ELSE {}
  /\ Keep /\ UNCHANGED <<write, removed, deletions, short, others>>

\* Every message may be refused: no privilege, or the kernel's own reason.
\* raise_for_ack; raise_for_status; raise_for_route_errno.
RefusedByAck ==
  writeStep \in {"create", "delete"} /\ write.platform = "linux"
RefusedByStatus ==
  writeStep \in {"create", "displace", "again", "delete"} /\ write.platform = "windows"
RefusedByErrno ==
  writeStep \in {"displace", "again", "deleteByAddress"} /\ write.platform = "macos"

KernelRefuses ==
  /\ RefusedByAck \/ RefusedByStatus \/ RefusedByErrno
  /\ writeStep = "delete" => toDelete # {}
  /\ Answer("raised")
  /\ Keep /\ UNCHANGED <<write, aim, toDelete, removed, deletions, short, others>>

\* netlink: the acknowledgement is not read, whether the change was made or not.
Unacknowledged ==
  /\ writeStep \in {"create", "delete"} /\ write.platform = "linux"
  /\ \E link \in (IF writeStep = "create" THEN {aim} ELSE toDelete), done \in BOOLEAN :
       Becomes(IF done THEN [rows EXCEPT ![link] = IF writeStep = "create" THEN NewMac ELSE "none"] ELSE rows,
               FALSE)
  /\ Answer("raised")
  /\ UNCHANGED <<write, aim, toDelete, removed, deletions, short, others>>

\* The kernel acknowledges the entry, and holds it or does not.
Accepted ==
  /\ \E table \in {rows, [rows EXCEPT ![aim] = NewMac]} : Becomes(table, TRUE)
  /\ GoOn("confirm")

\* RTM_NEWNEIGH with CREATE and REPLACE: one message.
Replace ==
  /\ writeStep = "create" /\ write.platform = "linux"
  /\ Accepted
  /\ UNCHANGED <<write, aim, toDelete, removed, deletions, short, others>>

\* CreateIpNetEntry2, and RTM_ADD, which any row for the address blocks.
InTheWay == IF write.platform = "macos" THEN Occupied(rows) # {} ELSE rows[aim] # "none"

Create ==
  /\ writeStep \in {"create", "again"} /\ write.platform # "linux"
  /\ IF ~InTheWay
       THEN Accepted
       ELSE Keep /\ IF writeStep = "create" THEN GoOn("displace") ELSE Answer("raised")
  /\ UNCHANGED <<write, aim, toDelete, removed, deletions, short, others>>

\* macOS: is there an entry on any interface?
Look ==
  /\ writeStep = "look"
  /\ \E entries \in SUBSET Links : Dump(entries) /\ GoOn(IF entries # {} THEN "displace" ELSE "again")
  /\ Keep /\ UNCHANGED <<write, aim, toDelete, removed, deletions, others>>

\* The entry in the way is deleted; that there is none any more is fine.
Displace ==
  /\ writeStep = "displace"
  /\ Becomes(IF write.platform = "macos" THEN [l \in Links |-> "none"]
                                         ELSE [rows EXCEPT ![aim] = "none"], FALSE)
  /\ deletions' = IF InTheWay THEN deletions + 1 ELSE deletions
  /\ GoOn("again")
  /\ UNCHANGED <<write, aim, toDelete, removed, short, others>>

\* Mutated form: an entry of that address on any interface will do.
ConfirmedAnywhere(entries) == \E link \in entries : rows[link] = NewMac
\* _confirmed: address, hardware address and interface are those written.
Confirmed(entries) == aim \in entries /\ rows[aim] = NewMac

\* set_neighbour answers with the entry as a fresh dump lists it.
Confirm ==
  /\ writeStep = "confirm"
  /\ \E entries \in SUBSET Links :
       Dump(entries) /\ Answer(IF Confirmed(entries) THEN "set" ELSE "raised")
  /\ Keep /\ UNCHANGED <<write, aim, toDelete, removed, deletions, others>>

-----------------------------------------------------------------------------
\* remove_neighbour without an interface: every one that has an entry.
List ==
  /\ writeStep = "list"
  /\ \E entries \in SUBSET Links : Dump(entries) /\ toDelete' = entries
  /\ GoOn("delete")
  /\ Keep /\ UNCHANGED <<write, aim, removed, deletions, others>>

\* Mutated form: the last deletion alone decides.
LastOneDecides(gone) == removed' = gone
\* removed = _delete(...) or removed
Reported(gone) == removed' = (removed \/ gone)

\* removed_from_ack, removed_from_status: that there was none is no error.
HasEntry(link) == rows[link] # "none"

\* The kernel deletes the row of one interface, if it has one.
DeleteOn(link) ==
  /\ writeStep = "delete" /\ write.platform # "macos" /\ link \in toDelete
  /\ Becomes([rows EXCEPT ![link] = "none"], FALSE)
  /\ deletions' = IF HasEntry(link) THEN deletions + 1 ELSE deletions
  /\ Reported(HasEntry(link))
  /\ toDelete' = toDelete \ {link}
  /\ UNCHANGED <<write, writeStep, aim, short, others, writeAnswer>>

\* macOS looks for the entry on that interface first.
LookOn(link) ==
  /\ writeStep = "delete" /\ write.platform = "macos" /\ link \in toDelete
  /\ \E entries \in SUBSET Links :
       /\ Dump(entries)
       /\ IF link \in entries
            THEN GoOn("deleteByAddress") /\ UNCHANGED <<toDelete, removed>>
            ELSE toDelete' = toDelete \ {link} /\ Reported(FALSE) /\ UNCHANGED <<writeStep, writeAnswer>>
  /\ aim' = link
  /\ Keep /\ UNCHANGED <<write, deletions, others>>

\* RTM_DELETE names no interface: whichever row there is goes.
DeleteByAddress ==
  /\ writeStep = "deleteByAddress"
  /\ Becomes([l \in Links |-> "none"], FALSE)
  /\ deletions' = IF InTheWay THEN deletions + 1 ELSE deletions
  /\ Reported(InTheWay)
  /\ toDelete' = toDelete \ {aim}
  /\ GoOn("delete")
  /\ UNCHANGED <<write, aim, short, others>>

Removed ==
  /\ writeStep = "delete" /\ toDelete = {}
  /\ Answer(IF removed THEN "removed" ELSE "nothing")
  /\ Keep /\ UNCHANGED <<write, aim, toDelete, removed, deletions, short, others>>

WriteNext ==
  \/ OtherWrites
  \/ Validate \/ KernelRefuses \/ Unacknowledged \/ Replace \/ Create \/ Look \/ Displace \/ Confirm
  \/ List \/ (\E link \in Links : DeleteOn(link) \/ LookOn(link)) \/ DeleteByAddress \/ Removed

WriteSpec == WriteInit /\ [][WriteNext]_writeVars

-----------------------------------------------------------------------------
\* That set_neighbour returned is proof that the kernel held the entry: after
\* it acknowledged the write, and not merely because it did, the address mapped
\* to the hardware address written, on the interface asked for or, without one,
\* the interface chosen, although an acknowledged entry may be missing, others
\* write other links and the dump may be cut short (_confirmed).
SetMeansHeld ==
  writeAnswer = "set" =>
    write.op = "set" /\ held /\ aim \in Links /\ write.interface \in {"any", aim}

\* What remove_neighbour says of the table is true although others change it
\* between its messages: "removed" means that this call deleted an entry and
\* "nothing" that it did not, however many interfaces it went through
\* (removed = _delete(...) or removed); and each interface asked about was
\* without an entry at some moment of the call, unless a dump was cut short.
RemovalIsTruthful ==
  /\ writeAnswer = "removed" => deletions > 0
  /\ writeAnswer = "nothing" => deletions = 0
  /\ writeAnswer \in {"removed", "nothing"} /\ ~short =>
       (IF write.interface = "any" THEN Links ELSE {write.interface}) \subseteq bare

=============================================================================
