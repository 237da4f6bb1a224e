------------------------ MODULE SessionControllers ------------------------
(***************************************************************************)
(* The two controllers behind the motor's sessions.  RuntimeControl says   *)
(* that swing identification and a balance session never own the motor at  *)
(* the same time and neither controller reads the other, so a behaviour    *)
(* follows the sessions of one of them.                                    *)
(***************************************************************************)
EXTENDS SwingId, StandupController

VARIABLE owner          \* whose sessions the behaviour follows

vars == <<owner, swingVars, standupVars>>

Init == owner \in {"swing", "standup"} /\ SwingInit /\ StandupInit

Next ==
    \/ owner = "swing" /\ SwingSession /\ UNCHANGED <<owner, standupVars>>
    \/ owner = "standup" /\ StandupSession /\ UNCHANGED <<owner, swingVars>>

Spec == Init /\ [][Next]_vars

TypeOK == SwingTypeOK /\ StandupTypeOK
===========================================================================
