---------------------------- MODULE LatestValue ----------------------------
(***************************************************************************)
(* What a motor mailbox promises its two ends (README.md, "Latest-value    *)
(* mailboxes"): an atomic register.  A publication overwrites the previous *)
(* one in a single step, a successful read copies the newest publication   *)
(* in a single step, and a failed read changes nothing.                    *)
(* Publications are numbered in the order they are made; 0 is "nothing     *)
(* published yet" and "nothing accepted yet".                              *)
(***************************************************************************)
EXTENDS Naturals

CONSTANT MaxPublishes     \* how many publications are considered

VARIABLES
    latest,               \* the newest publication
    accepted              \* the publication the reader accepted last

vars == <<latest, accepted>>

Init == latest = 0 /\ accepted = 0

\* The writer replaces the value: nothing is queued.
Publish ==
    /\ latest < MaxPublishes
    /\ latest' = latest + 1
    /\ UNCHANGED accepted

\* A read that succeeds returns the newest value, whole.
Read ==
    /\ latest > 0
    /\ accepted' = latest
    /\ UNCHANGED latest

Next == Publish \/ Read

Spec == Init /\ [][Next]_vars
=============================================================================
