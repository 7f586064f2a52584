---------------------------- MODULE AddressPool ----------------------------
(***************************************************************************)
(* What the address protocol of a topology promises, without rows, commits *)
(* or retries: a workspace takes a free address, goes on the bridge under  *)
(* that address and no other, and is off the bridge when it gives the      *)
(* address back.                                                           *)
(***************************************************************************)
CONSTANTS Workspaces, Addresses, NoIp

VARIABLES
    held,   \* held[w]: the address that is w's, or NoIp
    wired   \* wired[w]: the address w answers on, or NoIp

poolVars == <<held, wired>>

Init ==
    /\ held = [w \in Workspaces |-> NoIp]
    /\ wired = [w \in Workspaces |-> NoIp]

Take(w, a) ==
    /\ held[w] = NoIp
    /\ \A v \in Workspaces : held[v] # a
    /\ held' = [held EXCEPT ![w] = a]
    /\ UNCHANGED wired

Plug(w) ==
    /\ held[w] # NoIp
    /\ wired[w] = NoIp
    /\ wired' = [wired EXCEPT ![w] = held[w]]
    /\ UNCHANGED held

\* The bridge may lose several workspaces at once.
Unplug(W) ==
    /\ wired' = [w \in Workspaces |-> IF w \in W THEN NoIp ELSE wired[w]]
    /\ UNCHANGED held

GiveBack(w) ==
    /\ held' = [held EXCEPT ![w] = NoIp]
    /\ wired' = [wired EXCEPT ![w] = NoIp]

Next ==
    \/ \E w \in Workspaces :
         \/ \E a \in Addresses : Take(w, a)
         \/ Plug(w) \/ GiveBack(w)
    \/ \E W \in SUBSET Workspaces : Unplug(W)

Spec == Init /\ [][Next]_poolVars
=============================================================================
