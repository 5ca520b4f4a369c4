------------------------------ MODULE Upgrade ------------------------------
(* What a self-updating module promises: the installed binary is replaced  *)
(* in one step by one that may be installed, the process runs a binary     *)
(* that was installed when it started, and once the two differ it goes on  *)
(* to run the installed one.                                               *)
CONSTANTS Original,   \* the binary the operator deployed
          Blessed,    \* the binaries that may replace it
          Down        \* no process is running

VARIABLES installed, running

vars == <<installed, running>>

Init == installed = Original /\ running = Original

Replace == /\ running # Down
           /\ installed' \in Blessed
           /\ UNCHANGED running

Stop == running # Down /\ running' = Down /\ UNCHANGED installed

Start == running = Down /\ running' = installed /\ UNCHANGED installed

Next == Replace \/ Stop \/ Start

(* The process does not go on for ever with a binary that was replaced.    *)
Spec == Init /\ [][Next]_vars /\ WF_vars(running # installed /\ (Stop \/ Start))
=============================================================================
