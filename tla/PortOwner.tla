------------------------------- MODULE PortOwner -------------------------------
(***************************************************************************)
(* The owner of the serial port: front ends connect and disconnect it, an  *)
(* operation leases it.  Everything the owner does is one section under    *)
(* its lock.  A lease is looked at before it is used, and used outside of  *)
(* any lock.                                                               *)
(***************************************************************************)
EXTENDS Integers

CONSTANTS
  Names,      \* names of serial ports
  Users,      \* those that take a lease, one each
  Ids,        \* operation IDs a lease is taken under; two users may share one
  MaxOpens    \* bound: how often a port is opened

NoPort == [name |-> "none", handle |-> 0]
NoLease == [port |-> NoPort, op |-> 0]
Free == 0      \* the empty ID
Unnamed == -1  \* what a lease is taken under without one

ASSUME OwnerAssumption == MaxOpens \in Nat /\ Ids \subseteq Nat \ {Free} /\ "none" \notin Names

VARIABLES
  port,     \* the open port: its name and which opening of it
  opened,   \* openings so far
  holder,   \* the ID the port is leased under
  lease     \* what each user holds

portVars == <<port, opened, holder, lease>>

Handles == [name : Names \cup {"none"}, handle : 0..MaxOpens]

PortInit ==
  /\ port = NoPort /\ opened = 0 /\ holder = Free
  /\ lease = [u \in Users |-> NoLease]

Connected == port # NoPort

-----------------------------------------------------------------------------
\* The name that is open already is no work, even while it is leased.
SamePort(n) == Connected /\ port.name = n

OpenPort(n) ==
  /\ opened < MaxOpens
  /\ opened' = opened + 1
  /\ port' = [name |-> n, handle |-> opened + 1]
  /\ UNCHANGED <<holder, lease>>

\* Mutant: a port is replaced although it is leased.
ConnectsOver(n) ==
  \/ SamePort(n) /\ UNCHANGED portVars
  \/ ~SamePort(n) /\ OpenPort(n)

Connects(n) ==
  \/ SamePort(n) /\ UNCHANGED portVars
  \/ ~SamePort(n) /\ holder = Free /\ OpenPort(n)

ConnectBusy(n) == ~SamePort(n) /\ holder # Free /\ UNCHANGED portVars
\* open fails: the old port stays.
ConnectFails(n) == ~SamePort(n) /\ holder = Free /\ UNCHANGED portVars

Disconnects ==
  /\ holder = Free /\ port' = NoPort
  /\ UNCHANGED <<opened, holder, lease>>

DisconnectBusy == holder # Free /\ UNCHANGED portVars

LeaseId(id) == IF id = Free THEN Unnamed ELSE id

Acquires(u, id) ==
  /\ Connected /\ holder = Free
  /\ holder' = LeaseId(id)
  /\ lease' = [lease EXCEPT ![u] = [port |-> port, op |-> LeaseId(id)]]
  /\ UNCHANGED <<port, opened>>

AcquireFails(u) == (~Connected \/ holder # Free) /\ UNCHANGED portVars

\* lease.Close: only the first call does anything; release frees the port only under the
\* lease's own ID.
Returns(u) ==
  /\ lease[u] # NoLease
  /\ lease' = [lease EXCEPT ![u] = NoLease]
  /\ holder' = IF holder = lease[u].op THEN Free ELSE holder
  /\ UNCHANGED <<port, opened>>

-----------------------------------------------------------------------------
PortStep ==
  \/ \E n \in Names : Connects(n)
  \/ Disconnects
  \/ \E u \in Users : \E id \in Ids \cup {Free} : lease[u] = NoLease /\ Acquires(u, id)
  \/ \E u \in Users : Returns(u)

PortSpec == PortInit /\ [][PortStep]_portVars

-----------------------------------------------------------------------------
PortTypeOK ==
  /\ port \in Handles /\ opened \in 0..MaxOpens
  /\ holder \in Ids \cup {Free, Unnamed}
  /\ lease \in [Users -> [port : Handles, op : Ids \cup {Free, Unnamed}]]

\* A lease that is not returned is for the port that is open: nobody closes or replaces a port
\* under an operation, and no two operations lease it, whatever IDs they run under.
LeaseIsOpenPort ==
  /\ \A u \in Users : lease[u] # NoLease => lease[u].port = port /\ Connected
  /\ \A u, v \in Users : lease[u] # NoLease /\ lease[v] # NoLease => u = v
=============================================================================
