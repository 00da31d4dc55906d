------------------------------ MODULE MCWatcher ------------------------------
(***************************************************************************)
(* Three subscriptions: two tasks that watch for LinkDown, as the server's *)
(* do, each on its own interface, and one whose mask has two bits.  The    *)
(* operating system's changes have one bit each, as in operStateChange.    *)
(***************************************************************************)
EXTENDS Watcher

MCSubs == {"adv", "mon", "any"}
MCIface == [s \in MCSubs |-> IF s = "mon" THEN "eth1" ELSE "eth0"]
MCMask == [s \in MCSubs |-> IF s = "any" THEN {"up", "down"} ELSE {"down"}]
MCChanges == {{"up"}, {"down"}, {"dormant"}}
=============================================================================
