---------------------------- MODULE MountService ----------------------------
(* What mount_disk_image promises to the disk tools: every call comes to an *)
(* end, and the path of a call that succeeds shows, read-only and at that   *)
(* moment, the image that was asked for.  How long it goes on showing it is *)
(* not promised.                                                            *)
EXTENDS Naturals

CONSTANTS Threads, Images, None

VARIABLES
    asked,      \* the image thread t waits for, or None
    granted,    \* the image whose path thread t works on, or None
    showing     \* images some read-only mount shows

vars == <<asked, granted, showing>>

Init ==
    /\ asked = [t \in Threads |-> None] /\ granted = [t \in Threads |-> None]
    /\ showing \subseteq Images

Ask(t, e) ==
    /\ asked[t] = None /\ granted[t] = None
    /\ asked' = [asked EXCEPT ![t] = e]
    /\ UNCHANGED <<granted, showing>>

Grant(t) ==
    /\ asked[t] \in showing
    /\ granted' = [granted EXCEPT ![t] = asked[t]]
    /\ asked' = [asked EXCEPT ![t] = None]
    /\ UNCHANGED showing

Refuse(t) ==
    /\ asked[t] # None
    /\ asked' = [asked EXCEPT ![t] = None]
    /\ showing' \subseteq Images
    /\ UNCHANGED granted

Done(t) ==
    /\ granted[t] # None
    /\ granted' = [granted EXCEPT ![t] = None]
    /\ UNCHANGED <<asked, showing>>

(* Images appear and vanish, whoever mounts and unmounts them.              *)
Change == showing' \subseteq Images /\ UNCHANGED <<asked, granted>>

(* Some callers die.                                                        *)
Die(dead) ==
    /\ asked'   = [t \in Threads |-> IF t \in dead THEN None ELSE asked[t]]
    /\ granted' = [t \in Threads |-> IF t \in dead THEN None ELSE granted[t]]
    /\ showing' \subseteq Images

Next ==
    \/ \E t \in Threads : Grant(t) \/ Refuse(t) \/ Done(t) \/ \E e \in Images : Ask(t, e)
    \/ Change
    \/ \E dead \in SUBSET Threads : Die(dead)

Safety == Init /\ [][Next]_vars
Spec == Safety /\ \A t \in Threads : asked[t] # None ~> asked[t] = None
=============================================================================
