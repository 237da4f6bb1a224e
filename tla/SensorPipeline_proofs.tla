----------------------- MODULE SensorPipeline_proofs -----------------------
(***************************************************************************)
(* A frame never mixes generations, whatever the sensors, whichever of     *)
(* them are driven by interrupts, and however late, lost or overwritten    *)
(* their results are.                                                      *)
(***************************************************************************)
EXTENDS SensorPipeline, TLAPS

\* A result that answers the newest dispatch was begun after it, wherever it
\* waits; what a frame has received was begun after that frame's dispatch.
CurrentIsBegun ==
    \A s \in Sensors :
        /\ reading[s].current => reading[s].begun
        /\ outbox[s].current => outbox[s].begun

FramesAreBegun ==
    \A s \in Sensors :
        /\ got[s].there => got[s].begun
        /\ frame.got[s].there => frame.got[s].begun
        /\ taken.got[s].there => taken.got[s].begun

PipelineInv == TypeOK /\ CurrentIsBegun /\ FramesAreBegun

-----------------------------------------------------------------------------
\* Results are made and marked as the workers and the dispatch do it.
LEMMA ResultFacts ==
    /\ None \in Results /\ ~None.current /\ ~None.there /\ ~None.ok
    /\ \A c \in BOOLEAN : Begun(c) \in Results /\ Begun(c).begun
    /\ \A r \in Results : Aged(r) \in Results /\ ~Aged(r).current
    /\ \A r \in Results, ok \in BOOLEAN :
         /\ [r EXCEPT !.ok = ok] \in Results
         /\ [r EXCEPT !.ok = ok].current = r.current
         /\ [r EXCEPT !.ok = ok].begun = r.begun
BY DEF None, Begun, Aged, Results

\* A frame's members are those received, each as it was received.
LEMMA MemberFacts ==
    ASSUME NEW g \in [Sensors -> Results]
    PROVE  /\ Members(g) \in [Sensors -> [there : BOOLEAN, begun : BOOLEAN]]
           /\ \A s \in Sensors : Members(g)[s].there = g[s].there /\ Members(g)[s].begun = g[s].begun
BY DEF Members, Results

LEMMA StepFacts ==
    /\ Len(Steps) \in Nat /\ DOMAIN Steps = 1 .. Len(Steps)
    /\ Publishing = Len(Steps) + 1 /\ Publishing \in Nat
<1>1. /\ Len(Steps) = IF "imu" \in Sensors THEN 8 ELSE 4
      /\ DOMAIN Steps = 1 .. Len(Steps)
  <2>1. CASE "imu" \in Sensors BY <2>1 DEF Steps
  <2>2. CASE "imu" \notin Sensors BY <2>2 DEF Steps
  <2> QED BY <2>1, <2>2
<1>2. Len(Steps) \in Nat BY <1>1
<1> QED BY <1>1, <1>2 DEF Publishing

\* Initially nothing has been read, received or published.
LEMMA PipelineInit == Init => PipelineInv
<1> SUFFICES ASSUME Init PROVE PipelineInv OBVIOUS
<1>1. Nothing \in [Sensors -> Results] /\ \A s \in Sensors : ~Nothing[s].there /\ ~Nothing[s].current
  BY ResultFacts DEF Nothing
<1>2. frame \in Frames /\ taken \in Frames
  BY <1>1, MemberFacts DEF Init, WorkersIdle, Frames
<1>3. TypeOK
  <2>1. got \in [Sensors -> Results] /\ reading \in [Sensors -> Results] /\ outbox \in [Sensors -> Results]
    BY <1>1 DEF Init, WorkersIdle
  <2>2. inbox \in [Sensors -> {"empty", "current", "stale"}] /\ edge \in [Sensors -> BOOLEAN]
    BY DEF Init, WorkersIdle
  <2>3. step \in 0 .. Publishing /\ dispatched \in SUBSET Sensors
    BY StepFacts DEF Init, WorkersIdle
  <2> QED BY <1>2, <2>1, <2>2, <2>3 DEF Init, WorkersIdle, TypeOK
<1>4. CurrentIsBegun /\ FramesAreBegun
  BY <1>1, MemberFacts DEF Init, WorkersIdle, CurrentIsBegun, FramesAreBegun
<1> QED BY <1>3, <1>4 DEF PipelineInv

-----------------------------------------------------------------------------
\* Every action of the three tasks preserves the types.
LEMMA PipelineTypes == TypeOK /\ [Next]_vars => TypeOK'
<1> SUFFICES ASSUME TypeOK, [Next]_vars PROVE TypeOK' OBVIOUS
<1> USE StepFacts, ResultFacts DEF TypeOK
<1>1. CASE RequestFrame BY <1>1 DEF RequestFrame
<1>2. CASE ReadLatest BY <1>2 DEF ReadLatest
<1>3. CASE ReceiveRequest
  <2>1. Nothing \in [Sensors -> Results] BY DEF Nothing
  <2>2. step' \in 0 .. Publishing /\ dispatched' \in SUBSET Sensors BY <1>3 DEF ReceiveRequest
  <2>3. got' \in [Sensors -> Results] BY <1>3, <2>1 DEF ReceiveRequest
  <2> QED BY <1>3, <2>2, <2>3 DEF ReceiveRequest
<1>4. 0 \in 0 .. Publishing BY StepFacts
<1>5. CASE PublishFrame
  <2>a. got \in [Sensors -> Results] OBVIOUS
  <2>b. /\ Members(got) \in [Sensors -> [there : BOOLEAN, begun : BOOLEAN]]
        /\ \A s \in Sensors : Members(got)[s].there = got[s].there
    BY <2>a, MemberFacts
  <2> DEFINE whole == \A s \in Sensors : got[s].there /\ got[s].ok
  <2>c. frame' = [got |-> Members(got), complete |-> whole] BY <1>5 DEF PublishFrame
  <2>d. whole \in BOOLEAN /\ (whole => \A s \in Sensors : got[s].there) OBVIOUS
  <2> HIDE DEF whole
  <2>e. frame' \in [got : [Sensors -> [there : BOOLEAN, begun : BOOLEAN]], complete : BOOLEAN]
    BY <2>b, <2>c, <2>d
  <2>f. frame'.complete => \A s \in Sensors : frame'.got[s].there
    BY <2>b, <2>c, <2>d
  <2>1. frame' \in Frames BY <2>e, <2>f DEF Frames
  <2> QED BY <1>5, <2>1 DEF PublishFrame
<1>6. ASSUME NEW s \in Sensors, Dispatch(s) PROVE TypeOK'
  <2>1. inbox' \in [Sensors -> {"empty", "current", "stale"}] BY <1>6 DEF Dispatch
  <2>2. reading' \in [Sensors -> Results] /\ outbox' \in [Sensors -> Results]
    BY <1>6 DEF Dispatch
  <2>3. dispatched' \in SUBSET Sensors BY <1>6 DEF Dispatch
  <2> QED BY <1>6, <2>1, <2>2, <2>3 DEF Dispatch, At
<1>7. ASSUME NEW s \in Sensors, Collect(s) PROVE TypeOK' BY <1>7 DEF Collect, At
<1>8. ASSUME NEW s \in Sensors, DropStale(s) PROVE TypeOK' BY <1>8 DEF DropStale
<1>9. ASSUME NEW s \in Sensors, FindNothing(s) PROVE TypeOK' BY <1>9 DEF FindNothing, At
<1>10. ASSUME NEW s \in Sensors, GiveUp(s) PROVE TypeOK' BY <1>10 DEF GiveUp, At
<1>11. ASSUME NEW s \in Sensors, DataReady(s) PROVE TypeOK' BY <1>11 DEF DataReady
<1>12. ASSUME NEW s \in Sensors, BeginRequested(s) PROVE TypeOK'
  <2>1. Begun(inbox[s] = "current") \in Results OBVIOUS
  <2> QED BY <1>12, <2>1 DEF BeginRequested
<1>13. ASSUME NEW s \in Sensors, BeginInterrupted(s) PROVE TypeOK'
  BY <1>13 DEF BeginInterrupted
<1>14. ASSUME NEW s \in Sensors, FinishRead(s) PROVE TypeOK'
  <2>1. PICK ok \in BOOLEAN : outbox' = [outbox EXCEPT ![s] = [Finished(s) EXCEPT !.ok = ok]]
    BY <1>14 DEF FinishRead
  <2>2. [Finished(s) EXCEPT !.ok = ok] \in Results BY DEF Finished
  <2> QED BY <1>14, <2>1, <2>2 DEF FinishRead
<1>15. CASE BusRecovers BY <1>15 DEF BusRecovers
<1>16. CASE UNCHANGED vars BY <1>16 DEF vars
<1> QED
  BY <1>1, <1>2, <1>3, <1>4, <1>5, <1>6, <1>7, <1>8, <1>9, <1>10, <1>11, <1>12, <1>13,
     <1>14, <1>15, <1>16 DEF Next, ControlTask, PipelineTask, Worker

-----------------------------------------------------------------------------
\* A result leaves a queue for a frame only while it is current, and every
\* dispatch makes the results of earlier ones stale.
LEMMA PipelineInductive == PipelineInv /\ [Next]_vars => PipelineInv'
<1> SUFFICES ASSUME PipelineInv, [Next]_vars PROVE PipelineInv' OBVIOUS
<1> USE ResultFacts DEF CurrentIsBegun, FramesAreBegun
<1>0. TypeOK /\ CurrentIsBegun /\ FramesAreBegun BY DEF PipelineInv
<1>t. TypeOK' BY <1>0, PipelineTypes
<1>f. reading \in [Sensors -> Results] /\ outbox \in [Sensors -> Results] /\ got \in [Sensors -> Results]
  BY <1>0 DEF TypeOK
<1> SUFFICES CurrentIsBegun' /\ FramesAreBegun' BY <1>t DEF PipelineInv
<1>1. CASE ControlTask BY <1>0, <1>1 DEF ControlTask, RequestFrame, ReadLatest
<1>2. CASE ReceiveRequest
  <2>1. \A s \in Sensors : ~got'[s].there BY <1>2 DEF ReceiveRequest, Nothing
  <2> QED BY <1>0, <1>2, <2>1 DEF ReceiveRequest
<1>4. CASE PublishFrame
  <2>1. frame'.got = Members(got) BY <1>4 DEF PublishFrame
  <2> QED BY <1>0, <1>f, <1>4, <2>1, MemberFacts DEF PublishFrame
<1>5. ASSUME NEW s \in Sensors, Dispatch(s) PROVE CurrentIsBegun' /\ FramesAreBegun'
  <2>1. ~reading'[s].current /\ ~outbox'[s].current BY <1>5, <1>f DEF Dispatch
  <2> QED BY <1>0, <1>5, <1>f, <2>1 DEF Dispatch
<1>6. ASSUME NEW s \in Sensors, Collect(s) PROVE CurrentIsBegun' /\ FramesAreBegun'
  <2>1. outbox[s].begun /\ got' = [got EXCEPT ![s] = outbox[s]] BY <1>0, <1>6 DEF Collect
  <2>2. outbox' = outbox \/ outbox' = [outbox EXCEPT ![s] = None] BY <1>6 DEF Collect
  <2>3. \A q \in Sensors : got'[q].there => got'[q].begun BY <1>0, <1>f, <2>1
  <2>4. \A q \in Sensors : outbox'[q].current => outbox'[q].begun BY <1>0, <1>f, <2>2
  <2> QED BY <1>0, <1>6, <2>3, <2>4 DEF Collect
<1>7. ASSUME NEW s \in Sensors, DropStale(s) PROVE CurrentIsBegun' /\ FramesAreBegun'
  BY <1>0, <1>f, <1>7 DEF DropStale
<1>8. ASSUME NEW s \in Sensors, FindNothing(s) \/ GiveUp(s) PROVE CurrentIsBegun' /\ FramesAreBegun'
  BY <1>0, <1>8 DEF FindNothing, GiveUp
<1>9. ASSUME NEW s \in Sensors, DataReady(s) PROVE CurrentIsBegun' /\ FramesAreBegun'
  BY <1>0, <1>9 DEF DataReady
<1>10. ASSUME NEW s \in Sensors, BeginRequested(s) \/ BeginInterrupted(s)
       PROVE CurrentIsBegun' /\ FramesAreBegun'
  <2>1. PICK c \in BOOLEAN : reading' = [reading EXCEPT ![s] = Begun(c)]
    BY <1>10 DEF BeginRequested, BeginInterrupted
  <2>2. \A q \in Sensors : reading'[q].current => reading'[q].begun BY <1>0, <1>f, <2>1
  <2> QED BY <1>0, <1>10, <2>2 DEF BeginRequested, BeginInterrupted
<1>11. ASSUME NEW s \in Sensors, FinishRead(s) PROVE CurrentIsBegun' /\ FramesAreBegun'
  <2>1. PICK ok \in BOOLEAN : outbox' = [outbox EXCEPT ![s] = [reading[s] EXCEPT !.ok = ok]]
    BY <1>11 DEF FinishRead, Finished
  <2>2. \A q \in Sensors : outbox'[q].current => outbox'[q].begun BY <1>0, <1>f, <2>1
  <2>3. \A q \in Sensors : reading'[q].current => reading'[q].begun
    BY <1>0, <1>f, <1>11 DEF FinishRead
  <2> QED BY <1>0, <1>11, <2>2, <2>3 DEF FinishRead
<1>12. CASE BusRecovers BY <1>0, <1>12 DEF BusRecovers
<1>13. CASE UNCHANGED vars BY <1>0, <1>13 DEF vars
<1> QED
  BY <1>1, <1>2, <1>4, <1>5, <1>6, <1>7, <1>8, <1>9, <1>10, <1>11, <1>12, <1>13
  DEF Next, PipelineTask, Worker

-----------------------------------------------------------------------------
\* The inductive invariant holds in every state the pipeline reaches.
THEOREM PipelineInvariant == Spec => []PipelineInv
<1>1. Init => PipelineInv BY PipelineInit
<1>2. PipelineInv /\ [Next]_vars => PipelineInv' BY PipelineInductive
<1> QED BY <1>1, <1>2, PTL DEF Spec

\* Queues, frames and results keep their types, and a frame that says it is
\* complete has a result from every sensor.
THEOREM PipelineTypeOK == Spec => []TypeOK
<1>1. PipelineInv => TypeOK BY DEF PipelineInv
<1> QED BY <1>1, PipelineInvariant, PTL

\* The members of every frame the control task uses were sampled for it.
THEOREM PipelineGenerations == Spec => []GenerationsNeverMix
<1>1. PipelineInv => GenerationsNeverMix
  BY DEF PipelineInv, FramesAreBegun, GenerationsNeverMix
<1> QED BY <1>1, PipelineInvariant, PTL
=============================================================================
