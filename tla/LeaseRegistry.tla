--------------------------- MODULE LeaseRegistry ---------------------------
(***************************************************************************)
(* What the DHCP server of spo/lab3 promises, without packets or clients:  *)
(* a registry that assigns an address to a machine at most once and to at  *)
(* most one machine, machines that hold only the address they were         *)
(* assigned, and a registry that may forget everything at once.            *)
(***************************************************************************)
EXTENDS Integers

CONSTANTS
  Machine,         \* who may be assigned an address
  Pool,            \* the addresses
  NoAddress        \* the absence of one

VARIABLES
  assigned,        \* Machine -> Pool, or NoAddress
  held             \* pairs <<machine, address>> in use since the last Forget

registry == <<assigned, held>>

Empty == [m \in Machine |-> NoAddress]

Init == assigned = Empty /\ held = {}

\* An assigned address is never taken back, and never given twice.
Assign(m, a) ==
  /\ assigned[m] = NoAddress
  /\ \A other \in Machine : assigned[other] # a
  /\ assigned' = [assigned EXCEPT ![m] = a]
  /\ UNCHANGED held

Hold(m) ==
  /\ assigned[m] # NoAddress
  /\ held' = held \cup {<<m, assigned[m]>>}
  /\ UNCHANGED assigned

Forget == assigned' = Empty /\ held' = {}

Next ==
  \/ \E m \in Machine, a \in Pool : Assign(m, a)
  \/ \E m \in Machine : Hold(m)
  \/ Forget

Spec == Init /\ [][Next]_registry
=============================================================================
