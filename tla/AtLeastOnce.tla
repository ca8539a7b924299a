------------------------------ MODULE AtLeastOnce ------------------------------
(***************************************************************************)
(* What the gateway owes the commands it is given: each one is executed,   *)
(* perhaps several times, before it lets go of it, unless it is dropped;   *)
(* and a command it has let go of is not executed again.                   *)
(***************************************************************************)
CONSTANT Command

VARIABLES
    issued,       \* the commands given to the gateway
    open,         \* those it has not let go of
    executed,     \* those a device has executed
    dropped       \* those that may have been lost on the way

vars == <<issued, open, executed, dropped>>

Init == issued = {} /\ open = {} /\ executed = {} /\ dropped = {}

Issue(c) ==
    /\ c \notin issued
    /\ issued' = issued \cup {c} /\ open' = open \cup {c}
    /\ UNCHANGED <<executed, dropped>>

(* What the gateway lets go of has been executed or dropped.                 *)
LettingGo ==
    /\ open' \subseteq open
    /\ open \ open' \subseteq executed' \cup dropped'

Execute(c) ==
    /\ c \in open
    /\ executed' = executed \cup {c}
    /\ LettingGo
    /\ UNCHANGED <<issued, dropped>>

(* A command that never got to the gateway is dropped, too.                  *)
Drop ==
    /\ dropped \subseteq dropped' /\ dropped' \subseteq Command
    /\ LettingGo
    /\ UNCHANGED <<issued, executed>>

Next == Drop \/ \E c \in Command : Issue(c) \/ Execute(c)

Spec == Init /\ [][Next]_vars
================================================================================
