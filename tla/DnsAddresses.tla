----------------------------- MODULE DnsAddresses -----------------------------
(* What the DDNS updates promise about the addresses a name resolves to:     *)
(* an address appears only while an update to it is under way, the others    *)
(* stay or vanish, and an update that reports success has just put its       *)
(* address there.  PollCycle's UpdateDns and EndApply are steps of this kind.*)
CONSTANTS Updaters, Addresses, NoAddress

VARIABLES
    addresses,      \* what the name resolves to
    target,         \* the address each update under way is for, or NoAddress
    succeeded       \* the updaters whose last update reported success

vars == <<addresses, target, succeeded>>

Init ==
    /\ addresses \subseteq Addresses
    /\ target = [u \in Updaters |-> NoAddress]
    /\ succeeded = {}

Start(u, a) ==
    /\ target[u] = NoAddress
    /\ target' = [target EXCEPT ![u] = a]
    /\ succeeded' = succeeded \ {u}
    /\ UNCHANGED addresses

Write(u) ==
    /\ target[u] # NoAddress
    /\ addresses' \subseteq addresses \cup {target[u]}
    /\ target[u] \in addresses'
    /\ \/ UNCHANGED <<target, succeeded>>
       \/ /\ target' = [target EXCEPT ![u] = NoAddress]
          /\ succeeded' \in {succeeded, succeeded \cup {u}}

Fail(u) ==
    /\ target[u] # NoAddress
    /\ target' = [target EXCEPT ![u] = NoAddress]
    /\ UNCHANGED <<addresses, succeeded>>

Vanish ==
    /\ addresses' \subseteq addresses
    /\ UNCHANGED <<target, succeeded>>

Next ==
    \/ \E u \in Updaters : (\E a \in Addresses : Start(u, a)) \/ Write(u) \/ Fail(u)
    \/ Vanish

Spec == Init /\ [][Next]_vars
=============================================================================
