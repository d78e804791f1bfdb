---------------------------- MODULE OtaUpdateProofs ----------------------------
(***************************************************************************)
(* Proofs about OtaUpdate, for any updates, versions, outbox and bounds    *)
(* that satisfy the module's assumptions.                                  *)
(***************************************************************************)
EXTENDS OtaUpdate, SequenceTheorems, TLAPS

-----------------------------------------------------------------------------
(* The control: who is doing what, and what is held meanwhile.             *)

Flags ==
    /\ probation \in BOOLEAN /\ healthy \in BOOLEAN /\ connected \in BOOLEAN /\ working \in BOOLEAN
    /\ cancel \in BOOLEAN /\ spawnPending \in BOOLEAN /\ lent \in BOOLEAN /\ parkReq \in BOOLEAN

\* A board without power does nothing.
DownIsClean ==
    stage = "down" => /\ phase = "idle" /\ ~probation /\ deadline = "off"
                      /\ keepAt = "none" /\ pub = "no"

\* The phase covers the update from its command to its end, whichever task has it.
OneUpdate ==
    /\ phase = "idle" => otaAt = "none" /\ ~spawnPending
    /\ spawnPending => otaAt = "none"
    /\ phase # "idle" => job \in Updates

\* The model is lent from its step to the failure's, the park asked for until the resume.
Holding ==
    /\ otaAt \in {"none", "start", "park", "lend", "resume", "finish"} => ~lent
    /\ phase = "idle" \/ otaAt = "finish" => ~parkReq

\* An install is marked as such before its first step, and never while a cancel is in.
InstallIsMarked ==
    /\ otaAt \in {"record", "boot", "restart"} => phase = "installing"
    /\ phase = "installing" => ~cancel

\* No update runs while the image that would be rolled back to is needed.
MayRollBack == probation \/ keepAt = "mark" \/ deadline = "firing"
NoUpdateOnTrial ==
    /\ MayRollBack => phase = "idle"
    /\ keepAt = "mark" => connected
    /\ keepAt # "none" => ~probation

ControlInv ==
    /\ Flags /\ DownIsClean /\ OneUpdate /\ Holding /\ InstallIsMarked /\ NoUpdateOnTrial

LEMMA InitControl == Init => ControlInv
BY DEF Init, ControlInv, Flags, DownIsClean, OneUpdate, Holding, InstallIsMarked, MayRollBack,
       NoUpdateOnTrial

\* Whatever ran, a restart starts clean.
LEMMA DownControl == Down => ControlInv'
BY DEF Down, ControlInv, Flags, DownIsClean, OneUpdate, Holding, InstallIsMarked, MayRollBack,
       NoUpdateOnTrial

LEMMA NextControl == ControlInv /\ [Next]_vars => ControlInv'
<1> USE DEF ControlInv, Flags, DownIsClean, OneUpdate, Holding, InstallIsMarked, MayRollBack,
            NoUpdateOnTrial, flashVars, runVars, probVars, jobVars, taskVars, parkVars, boxVars, fleetVars
<1> SUFFICES ASSUME ControlInv, [Next]_vars PROVE ControlInv'
  OBVIOUS
<1>1. CASE PowerCut
  BY <1>1 DEF PowerCut, Down
<1>2. CASE Boot
  BY <1>2 DEF Boot
<1>3. CASE PublishBegins
  BY <1>3 DEF PublishBegins, InPhase
<1>4. CASE PublishEnds
  BY <1>4 DEF PublishEnds, OnConnected
<1>5. CASE NetEnds
  BY <1>5 DEF NetEnds
<1>6. CASE HelloEnds
  BY <1>6 DEF HelloEnds
<1>7. CASE SelfTest
  <2>1. PICK ready \in BOOLEAN : \E passed \in BOOLEAN :
          \/ Down
          \/ /\ stage = "selftest" /\ stage' = "work" /\ working' = ready /\ healthy' = passed
             /\ probation' = (probation /\ ~connected)
             /\ keepAt' = IF probation /\ connected THEN "mark" ELSE "none"
             /\ UNCHANGED <<connected, deadline, jobVars, taskVars, parkVars, boxVars>>
    BY <1>7 DEF SelfTest, Rollback
  <2>2. CASE Down
    BY <2>2, DownControl
  <2>3. CASE ~Down
    BY <2>1, <2>3
  <2>4. QED
    BY <2>2, <2>3
<1>8. CASE MarkValid
  BY <1>8 DEF MarkValid
<1>9. CASE Report
  BY <1>9 DEF Report
<1>10. CASE DeadlineLooks
  BY <1>10 DEF DeadlineLooks
<1>11. CASE DeadlineRollsBack
  BY <1>11 DEF DeadlineRollsBack, Rollback, Down
<1>12. ASSUME NEW u \in Updates, SendUpdate(u) PROVE ControlInv'
  BY <1>12 DEF SendUpdate
<1>13. ASSUME NEW u \in Updates, StartUpdate(u) PROVE ControlInv'
  BY <1>13 DEF StartUpdate, Takes, InPhase, Free, Startable
<1>14. ASSUME NEW u \in Updates, RefuseUpdate(u) PROVE ControlInv'
  BY <1>14 DEF RefuseUpdate, Takes, InPhase, Free
<1>15. CASE SendCancel
  BY <1>15 DEF SendCancel
<1>16. CASE CancelUpdate
  BY <1>16 DEF CancelUpdate, Takes, InPhase, Free, Cancellable
<1>17. CASE BackoffEnds
  BY <1>17 DEF BackoffEnds
<1>18. CASE WorkerCloses
  BY <1>18 DEF WorkerCloses
<1>19. CASE Spawn
  BY <1>19 DEF Spawn, Finished, Resumed
<1>20. CASE OtaParks
  BY <1>20 DEF OtaParks, OtaTo, OtaFrame
<1>21. CASE OtaLends
  BY <1>21 DEF OtaLends, OtaTo, OtaFrame
<1>22. CASE OtaChecks
  BY <1>22 DEF OtaChecks, OtaTo, OtaFrame
<1>23. CASE OtaEnters
  BY <1>23 DEF OtaEnters, OtaTo, OtaFrame
<1>24. CASE OtaPublished
  BY <1>24 DEF OtaPublished, OtaTo, OtaFrame
<1>25. CASE OtaBegins
  BY <1>25 DEF OtaBegins, OtaTo, OtaFrame
<1>26. CASE OtaWrites
  BY <1>26 DEF OtaWrites, OtaTo, OtaFrame
<1>27. CASE OtaVerifies
  BY <1>27 DEF OtaVerifies, OtaTo, OtaFrame
<1>28. CASE OtaLocks
  BY <1>28 DEF OtaLocks, OtaTo, OtaFrame
<1>29. CASE OtaRecords
  BY <1>29 DEF OtaRecords, OtaTo, OtaFrame
<1>30. CASE OtaBoots
  BY <1>30 DEF OtaBoots, OtaTo, OtaFrame
<1>31. CASE OtaRestarts
  BY <1>31 DEF OtaRestarts, Down, OtaTo
<1>32. CASE OtaUnrecords
  BY <1>32 DEF OtaUnrecords, OtaTo, OtaFrame
<1>33. CASE OtaFails
  <2>1. CASE Down
    BY <2>1, DownControl
  <2>2. CASE ~Down
    <3>1. /\ otaAt = "fail" /\ otaAt' = "resume" /\ lent' = FALSE
          /\ UNCHANGED <<flashVars, phase, cancel, backoff, parkReq, parked, outbox, faults>>
          /\ OtaFrame
      BY <1>33, <2>2 DEF OtaFails, OtaTo
    <3>2. QED
      BY <3>1 DEF OtaFrame
  <2>3. QED
    BY <2>1, <2>2
<1>34. CASE OtaResumes
  BY <1>34 DEF OtaResumes, Resumed, OtaTo
<1>35. CASE OtaFinishes
  BY <1>35 DEF OtaFinishes, Finished, OtaTo
<1>36. CASE UNCHANGED vars
  BY <1>36 DEF vars
<1>37. QED
  BY <1>1, <1>2, <1>3, <1>4, <1>5, <1>6, <1>7, <1>8, <1>9, <1>10, <1>11, <1>12, <1>13, <1>14, <1>15, <1>16, <1>17, <1>18, <1>19, <1>20, <1>21, <1>22, <1>23, <1>24, <1>25, <1>26, <1>27, <1>28, <1>29, <1>30, <1>31, <1>32, <1>33, <1>34, <1>35, <1>36 DEF Next, OtaStep

LEMMA ControlAlways == Spec => []ControlInv
BY InitControl, NextControl, PTL DEF Spec

-----------------------------------------------------------------------------
(* The flash: which slot can be relied on, and when.                       *)

FlashTypes ==
    /\ image \in [Slots -> Nat] /\ state \in [Slots -> SlotStates]
    /\ boot \in Slots /\ runs \in Slots

\* Only an update about to restart has turned the boot slot away from the running image.
BootsWhatRuns == stage # "down" /\ otaAt # "restart" => boot = runs

\* As long as the running image may be rolled back, the other slot has a proven one.
TrialHasFallback == MayRollBack => Proven(Spare)

\* An image that is not on trial is proven itself: the spare slot is free to be written.
ProvenUnlessOnTrial == stage # "down" /\ ~probation /\ keepAt # "mark" => Proven(runs)

\* What is about to be booted passed the download's checks, and is still there.
CheckedBeforeInstall ==
    otaAt \in {"lock", "record", "boot"} => image[Spare] = Version[job]

FlashInv ==
    /\ FlashTypes /\ BootsWhatRuns /\ TrialHasFallback /\ ProvenUnlessOnTrial
    /\ CheckedBeforeInstall /\ AlwaysRecovers

LEMMA SlotFacts ==
    /\ \A s \in Slots : Other(s) \in Slots /\ Other(s) # s /\ Other(Other(s)) = s
    /\ \A s, t \in Slots : t # s => t = Other(s)
BY DEF Slots, Other

LEMMA InitFlash == Init => FlashInv
BY VersionAssumption, SlotFacts
   DEF Init, FlashInv, FlashTypes, BootsWhatRuns, TrialHasFallback, ProvenUnlessOnTrial, CheckedBeforeInstall,
       AlwaysRecovers, Proven, MayRollBack, Spare, Slots, Other, SlotStates

LEMMA VersionFacts == Versions \cup {0} \subseteq Nat /\ \A u \in Updates : Version[u] \in Versions \ {0}
BY VersionAssumption DEF Versions

\* A restart that leaves the flash alone.
LEMMA DownFlash ==
    ASSUME FlashTypes, AlwaysRecovers, Down, UNCHANGED <<flashVars, kept>>
    PROVE  FlashInv'
BY SlotFacts
   DEF Down, flashVars, FlashInv, FlashTypes, BootsWhatRuns, TrialHasFallback, ProvenUnlessOnTrial,
       CheckedBeforeInstall, AlwaysRecovers, Proven, MayRollBack

\* A rollback finds the other slot proven.
LEMMA RollbackFlash ==
    ASSUME FlashTypes, TrialHasFallback, MayRollBack, Rollback
    PROVE  FlashInv'
<1>1. Spare \in Slots /\ Spare # runs /\ Proven(Spare)
  BY SlotFacts DEF Spare, FlashTypes, TrialHasFallback
<1>2. Down /\ boot' = Spare /\ image' = image /\ kept' = kept /\ runs' = runs
  BY DEF Rollback, Down
<1>3. state' = [state EXCEPT ![runs] = "bad"]
  BY DEF Rollback
<1>4. FlashTypes'
  BY <1>1, <1>2, <1>3 DEF FlashTypes, SlotStates
<1>5. Proven(boot)'
  BY <1>1, <1>2, <1>3 DEF FlashTypes, Proven
<1>6. stage' = "down" /\ otaAt' = "none" /\ ~MayRollBack'
  BY <1>2 DEF Down, MayRollBack
<1>7. QED
  BY <1>4, <1>5, <1>6
     DEF FlashInv, BootsWhatRuns, TrialHasFallback, ProvenUnlessOnTrial, CheckedBeforeInstall, AlwaysRecovers

\* While an update works on the spare slot the board is sure of the running one.
LEMMA DuringUpdate ==
    ASSUME ControlInv, FlashInv, otaAt \notin {"none", "restart"}
    PROVE  /\ stage # "down" /\ ~MayRollBack /\ job \in Updates
           /\ Proven(runs) /\ boot = runs /\ Spare \in Slots /\ Spare # runs /\ Other(Spare) = runs
<1>1. phase # "idle" /\ job \in Updates /\ stage # "down" /\ ~MayRollBack
  BY DEF ControlInv, OneUpdate, DownIsClean, NoUpdateOnTrial
<1>2. Proven(runs) /\ boot = runs
  BY <1>1 DEF FlashInv, ProvenUnlessOnTrial, BootsWhatRuns, MayRollBack
<1>3. QED
  BY <1>1, <1>2, SlotFacts DEF FlashInv, FlashTypes, Spare

LEMMA NextFlash == ControlInv /\ FlashInv /\ [Next]_vars => FlashInv'
<1> USE SlotFacts
    DEF FlashInv, FlashTypes, BootsWhatRuns, TrialHasFallback, ProvenUnlessOnTrial, CheckedBeforeInstall,
        AlwaysRecovers, Proven, MayRollBack, Spare,
        flashVars, runVars, probVars, jobVars, taskVars, parkVars, boxVars, fleetVars
<1> SUFFICES ASSUME ControlInv, FlashInv, [Next]_vars PROVE FlashInv'
  OBVIOUS
<1> USE DEF ControlInv, Flags, DownIsClean, OneUpdate, NoUpdateOnTrial
<1>1. CASE PowerCut
  BY <1>1, DownFlash DEF PowerCut
<1>2. CASE Boot
  <2>1. /\ stage' # "down" /\ otaAt' = "none" /\ boot' = runs' /\ image' = image /\ kept' = kept
        /\ keepAt' = "none" /\ deadline' # "firing"
    BY <1>2 DEF Boot
  <2>2. CASE state[boot] = "pending"
    <3>1. Proven(Other(boot)) /\ boot' = Other(boot) /\ probation' = FALSE
          /\ state' = [state EXCEPT ![boot] = "bad"]
      BY <1>2, <2>2 DEF Boot
    <3>2. FlashTypes' /\ Proven(boot)'
      BY <2>1, <3>1 DEF SlotStates
    <3>3. QED
      BY <2>1, <3>1, <3>2
  <2>3. CASE state[boot] = "new"
    <3>1. Proven(Other(boot)) /\ boot' = boot /\ state' = [state EXCEPT ![boot] = "pending"] /\ probation' = TRUE
      BY <1>2, <2>3 DEF Boot
    <3>2. FlashTypes' /\ image'[boot'] # 0 /\ state'[boot'] = "pending" /\ Proven(Other(boot))'
      BY <2>1, <2>3, <3>1 DEF SlotStates
    <3>3. QED
      BY <2>1, <3>1, <3>2
  <2>4. CASE state[boot] \notin {"pending", "new"}
    <3>1. boot' = boot /\ state' = state /\ Proven(boot) /\ probation' = FALSE
      BY <1>2, <2>4 DEF Boot
    <3>2. QED
      BY <2>1, <3>1
  <2>5. QED
    BY <2>2, <2>3, <2>4
<1>3. CASE PublishBegins
  BY <1>3 DEF PublishBegins, InPhase
<1>4. CASE PublishEnds
  <2>1. UNCHANGED <<image, state, boot, kept, runs, stage, otaAt, job, deadline>>
    BY <1>4 DEF PublishEnds
  <2>2. \/ UNCHANGED <<probation, keepAt>>
        \/ ~connected /\ probation' = (probation /\ ~healthy) /\ keepAt' = OnConnected
    BY <1>4 DEF PublishEnds
  <2>3. MayRollBack' => MayRollBack
    BY <2>1, <2>2 DEF OnConnected
  <2>4. ~probation' /\ keepAt' # "mark" => ~probation /\ keepAt # "mark"
    BY <2>2 DEF OnConnected
  <2>5. QED
    BY <2>1, <2>3, <2>4
<1>5. CASE NetEnds
  BY <1>5 DEF NetEnds
<1>6. CASE HelloEnds
  BY <1>6 DEF HelloEnds
<1>7. CASE SelfTest
  <2>1. CASE probation /\ Rollback
    BY <2>1, RollbackFlash
  <2>2. CASE ~(probation /\ Rollback)
    <3>1. /\ UNCHANGED <<flashVars, kept, runs, otaAt, job, deadline>>
          /\ stage # "down" /\ keepAt = "none" /\ probation' = (probation /\ ~connected)
          /\ keepAt' = IF probation /\ connected THEN "mark" ELSE "none"
      BY <1>7, <2>2 DEF SelfTest, Free
    <3>2. MayRollBack' => MayRollBack
      BY <3>1
    <3>3. ~probation' /\ keepAt' # "mark" => ~probation /\ keepAt # "mark"
      BY <3>1
    <3>4. QED
      BY <3>1, <3>2, <3>3
  <2>3. QED
    BY <2>1, <2>2
<1>8. CASE MarkValid
  <2>1. /\ UNCHANGED <<image, boot, runs, stage, otaAt, job, probation>>
        /\ state' = [state EXCEPT ![runs] = "valid"] /\ kept' = kept \cup {image[runs]}
        /\ keepAt = "mark" /\ keepAt' = "report" /\ deadline' \in {deadline, "off"}
    BY <1>8 DEF MarkValid, Running
  <2>2. FlashTypes'
    BY <2>1 DEF SlotStates
  <2>3. Proven(runs)' /\ \A s \in Slots : Proven(s) => Proven(s)'
    BY <2>1
  <2>4. AlwaysRecovers'
    <3>1. CASE boot = runs
      BY <2>1, <2>3, <3>1
    <3>2. CASE boot # runs
      <4>1. state'[boot] = state[boot] /\ boot' = boot /\ image' = image
        BY <2>1, <3>2
      <4>2. QED
        BY <4>1, <2>3
    <3>3. QED
      BY <3>1, <3>2
  <2>5. TrialHasFallback'
    BY <2>1, <2>3
  <2>6. QED
    BY <2>1, <2>2, <2>3, <2>4, <2>5
<1>9. CASE Report
  BY <1>9 DEF Report
<1>10. CASE DeadlineLooks
  BY <1>10 DEF DeadlineLooks
<1>11. CASE DeadlineRollsBack
  BY <1>11, RollbackFlash DEF DeadlineRollsBack
<1>12. ASSUME NEW u \in Updates, SendUpdate(u) PROVE FlashInv'
  BY <1>12 DEF SendUpdate
<1>13. ASSUME NEW u \in Updates, StartUpdate(u) PROVE FlashInv'
  BY <1>13 DEF StartUpdate, Takes, InPhase, Free, Startable
<1>14. ASSUME NEW u \in Updates, RefuseUpdate(u) PROVE FlashInv'
  BY <1>14 DEF RefuseUpdate, Takes, InPhase, Free
<1>15. CASE SendCancel
  BY <1>15 DEF SendCancel
<1>16. CASE CancelUpdate
  BY <1>16 DEF CancelUpdate, Takes, InPhase, Free, Cancellable
<1>17. CASE BackoffEnds
  BY <1>17 DEF BackoffEnds
<1>18. CASE WorkerCloses
  BY <1>18 DEF WorkerCloses
<1>19. CASE Spawn
  BY <1>19 DEF Spawn, Finished, Resumed
<1>20. CASE OtaParks
  BY <1>20 DEF OtaParks, OtaTo, OtaFrame
<1>21. CASE OtaLends
  BY <1>21 DEF OtaLends, OtaTo, OtaFrame
<1>22. CASE OtaChecks
  BY <1>22 DEF OtaChecks, OtaTo, OtaFrame
<1>23. CASE OtaEnters
  BY <1>23 DEF OtaEnters, OtaTo, OtaFrame
<1>24. CASE OtaPublished
  BY <1>24 DEF OtaPublished, OtaTo, OtaFrame
<1>25. CASE OtaBegins
  <2>1. /\ UNCHANGED <<state, boot, runs, stage, probation, keepAt, deadline, job, kept>>
        /\ otaAt = "download" /\ otaAt' \in {"fail", "write"}
        /\ image' = image \/ image' = [image EXCEPT ![Spare] = 0]
    BY <1>25 DEF OtaBegins, OtaTo, OtaFrame
  <2>2. Proven(runs) /\ boot = runs /\ ~MayRollBack /\ Spare # runs
    BY <2>1, DuringUpdate
  <2>3. FlashTypes' /\ Proven(runs)'
    BY <2>1, <2>2
  <2>4. QED
    BY <2>1, <2>2, <2>3
<1>26. CASE OtaWrites
  <2>1. /\ UNCHANGED <<state, boot, runs, stage, probation, keepAt, deadline, job, kept>>
        /\ otaAt = "write" /\ otaAt' \in {"fail", "verify"}
        /\ image' = image \/ \E got \in Nat : image' = [image EXCEPT ![Spare] = got]
    BY <1>26, VersionFacts DEF OtaWrites, OtaTo, OtaFrame
  <2>2. Proven(runs) /\ boot = runs /\ ~MayRollBack /\ Spare # runs
    BY <2>1, DuringUpdate
  <2>3. FlashTypes' /\ Proven(runs)'
    BY <2>1, <2>2
  <2>4. QED
    BY <2>1, <2>2, <2>3
<1>27. CASE OtaVerifies
  <2>1. /\ UNCHANGED <<flashVars, kept, runs, stage, probation, keepAt, deadline, job>>
        /\ otaAt = "verify" /\ otaAt' = IF Accepted THEN "lock" ELSE "fail"
    BY <1>27 DEF OtaVerifies, OtaTo, OtaFrame
  <2>2. otaAt' = "lock" => image[Spare] = Version[job]
    BY <2>1 DEF Accepted
  <2>3. QED
    BY <2>1, <2>2
<1>28. CASE OtaLocks
  BY <1>28 DEF OtaLocks, OtaTo, OtaFrame
<1>29. CASE OtaRecords
  BY <1>29 DEF OtaRecords, OtaTo, OtaFrame
<1>30. CASE OtaBoots
  <2>1. /\ UNCHANGED <<image, runs, stage, probation, keepAt, deadline, job, kept>>
        /\ otaAt = "boot"
        /\ \/ otaAt' = "restart" /\ boot' = Spare /\ state' = [state EXCEPT ![Spare] = "new"]
           \/ otaAt' = "unrecord" /\ UNCHANGED <<boot, state>>
    BY <1>30 DEF OtaBoots, OtaTo, OtaFrame
  <2>2. /\ Proven(runs) /\ boot = runs /\ ~MayRollBack /\ job \in Updates
        /\ Spare \in Slots /\ Spare # runs /\ Other(Spare) = runs
    BY <2>1, DuringUpdate
  <2>3. image[Spare] # 0
    BY <2>1, <2>2, VersionFacts
  <2>4. CASE otaAt' = "unrecord"
    BY <2>1, <2>2, <2>4
  <2>5. CASE otaAt' = "restart"
    <3>1. FlashTypes' /\ Proven(runs)' /\ boot' = Spare /\ state'[Spare] = "new"
      BY <2>1, <2>2, <2>5 DEF SlotStates
    <3>2. AlwaysRecovers'
      BY <2>1, <2>2, <2>3, <3>1
    <3>3. QED
      BY <2>1, <2>2, <2>5, <3>1, <3>2
  <2>6. QED
    BY <2>1, <2>4, <2>5
<1>31. CASE OtaRestarts
  BY <1>31, DownFlash DEF OtaRestarts
<1>32. CASE OtaUnrecords
  BY <1>32 DEF OtaUnrecords, OtaTo, OtaFrame
<1>33. CASE OtaFails
  <2>1. CASE Down /\ UNCHANGED <<flashVars, kept>>
    BY <2>1, DownFlash
  <2>2. CASE otaAt = "fail" /\ otaAt' = "resume" /\ UNCHANGED flashVars /\ OtaFrame
    BY <2>2 DEF OtaFrame
  <2>3. QED
    BY <1>33, <2>1, <2>2 DEF OtaFails, OtaTo
<1>34. CASE OtaResumes
  BY <1>34 DEF OtaResumes, Resumed, OtaTo
<1>35. CASE OtaFinishes
  BY <1>35 DEF OtaFinishes, Finished, OtaTo
<1>36. CASE UNCHANGED vars
  BY <1>36 DEF vars
<1>37. QED
  BY <1>1, <1>2, <1>3, <1>4, <1>5, <1>6, <1>7, <1>8, <1>9, <1>10, <1>11, <1>12, <1>13, <1>14, <1>15, <1>16, <1>17, <1>18, <1>19, <1>20, <1>21, <1>22, <1>23, <1>24, <1>25, <1>26, <1>27, <1>28, <1>29, <1>30, <1>31, <1>32, <1>33, <1>34, <1>35, <1>36 DEF Next, OtaStep

LEMMA FlashAlways == Spec => []FlashInv
BY InitFlash, NextFlash, ControlAlways, PTL DEF Spec

-----------------------------------------------------------------------------
(* The messages: a claim that an image is complete is never made early.    *)

Honest == {m \in Messages : \A v \in Versions : m = <<"complete", v>> => v \in kept}

BoxInv ==
    /\ outbox \in Seq(Honest) /\ Len(outbox) <= OutboxMax
    /\ taken \in Seq(Honest)
    /\ told \subseteq Honest
    /\ target \in Versions \cup {0}

LEMMA WiderSeq ==
    ASSUME NEW S, NEW T, S \subseteq T, NEW q \in Seq(S)
    PROVE  q \in Seq(T)
<1>1. Len(q) \in Nat /\ q \in [1..Len(q) -> S]
  BY LenProperties
<1>2. q \in [1..Len(q) -> T]
  BY <1>1
<1>3. QED
  BY <1>1, <1>2, SeqDef

\* fleet_respond and fleet_put_back keep the outbox within FLEET_OUTBOX, and add nothing of their own.
LEMMA PushTypes ==
    ASSUME NEW S, NEW q \in Seq(S), Len(q) <= OutboxMax, NEW m \in S
    PROVE  Push(q, m) \in Seq(S) /\ Len(Push(q, m)) <= OutboxMax
<1>1. Len(q) \in Nat /\ OutboxMax \in Nat \ {0}
  BY LenProperties, BoundAssumption
<1>2. CASE Len(q) = OutboxMax
  <2>1. q # <<>>
    BY <1>1, <1>2
  <2>2. Tail(q) \in Seq(S) /\ Len(Tail(q)) = Len(q) - 1
    BY <2>1, HeadTailProperties
  <2>3. Append(Tail(q), m) \in Seq(S) /\ Len(Append(Tail(q), m)) = Len(Tail(q)) + 1
    BY <2>2, AppendProperties
  <2>4. QED
    BY <1>1, <1>2, <2>2, <2>3 DEF Push
<1>3. CASE Len(q) # OutboxMax
  <2>1. Append(q, m) \in Seq(S) /\ Len(Append(q, m)) = Len(q) + 1
    BY AppendProperties
  <2>2. QED
    BY <1>1, <1>3, <2>1 DEF Push
<1>4. QED
  BY <1>2, <1>3

LEMMA PutBackTypes ==
    ASSUME NEW S, outbox \in Seq(S), Len(outbox) <= OutboxMax, NEW back \in Seq(S)
    PROVE  PutBack(back) \in Seq(S) /\ Len(PutBack(back)) <= OutboxMax
<1> DEFINE room == OutboxMax - Len(outbox)
           keep == IF Len(back) < room THEN Len(back) ELSE room
<1>1. Len(outbox) \in Nat /\ Len(back) \in Nat /\ OutboxMax \in Nat
  BY LenProperties, BoundAssumption
<1>2. keep \in 0..Len(back) /\ keep <= room
  BY <1>1
<1>3. SubSeq(back, 1, keep) \in Seq(S) /\ Len(SubSeq(back, 1, keep)) = keep
  BY <1>1, <1>2, SubSeqProperties
<1>4. /\ SubSeq(back, 1, keep) \o outbox \in Seq(S)
      /\ Len(SubSeq(back, 1, keep) \o outbox) = keep + Len(outbox)
  BY <1>3, ConcatProperties
<1>5. keep + Len(outbox) <= OutboxMax
  BY <1>1, <1>2
<1>6. PutBack(back) = SubSeq(back, 1, keep) \o outbox
  BY DEF PutBack
<1>7. QED
  BY <1>4, <1>5, <1>6

LEMMA InitBox == Init => BoxInv
<1> SUFFICES ASSUME Init PROVE BoxInv
  OBVIOUS
<1>1. outbox = <<>> /\ taken = <<>> /\ told = {} /\ target = 0
  BY DEF Init
<1>2. <<>> \in Seq(Honest) /\ Len(<<>>) = 0
  BY EmptySeq
<1>3. QED
  BY <1>1, <1>2, BoundAssumption DEF BoxInv

LEMMA HonestNotes ==
    /\ Note \in Honest
    /\ \A v \in Versions : <<"restarting", v>> \in Honest /\ <<"rolled back", v>> \in Honest
    /\ \A v \in Versions \cap kept : <<"complete", v>> \in Honest
BY DEF Honest, Note, Messages

LEMMA NextBox == ControlInv /\ FlashInv /\ BoxInv /\ [Next]_vars => BoxInv'
<1> SUFFICES ASSUME ControlInv, FlashInv, BoxInv, [Next]_vars PROVE BoxInv'
  OBVIOUS
<1> USE DEF BoxInv, flashVars, runVars, probVars, jobVars, taskVars, parkVars, boxVars, fleetVars
<1>a. ASSUME Down, UNCHANGED <<told, kept, target>> PROVE BoxInv'
  <2>1. <<>> \in Seq(Honest) /\ Len(<<>>) = 0 /\ outbox' = <<>> /\ taken' = <<>> /\ Honest' = Honest
    BY <1>a, EmptySeq DEF Down, Honest
  <2>2. QED
    BY <1>a, <2>1, BoundAssumption
<1>b. ASSUME NEW m \in Honest, outbox' = Push(outbox, m), UNCHANGED <<taken, told, kept>>,
             target' \in Versions \cup {0}
      PROVE  BoxInv'
  <2>1. Push(outbox, m) \in Seq(Honest) /\ Len(Push(outbox, m)) <= OutboxMax /\ Honest' = Honest
    BY <1>b, PushTypes DEF Honest
  <2>2. QED
    BY <1>b, <2>1
<1>c. ASSUME UNCHANGED <<outbox, taken, told, kept>>, target' \in Versions \cup {0} PROVE BoxInv'
  <2>1. Honest' = Honest
    BY <1>c DEF Honest
  <2>2. QED
    BY <1>c, <2>1
<1>1. CASE PowerCut
  BY <1>1, <1>a DEF PowerCut
<1>2. CASE Boot
  BY <1>2, <1>c DEF Boot
<1>3. CASE PublishBegins
  <2>1. taken' = outbox /\ outbox' = <<>> /\ UNCHANGED <<told, kept, target>> /\ Honest' = Honest
    BY <1>3 DEF PublishBegins, Honest
  <2>2. <<>> \in Seq(Honest) /\ Len(<<>>) = 0
    BY EmptySeq
  <2>3. QED
    BY <2>1, <2>2, BoundAssumption
<1>4. CASE PublishEnds
  <2>1. PICK k \in 0..Len(taken) : \E heard \in k..Len(taken) :
          /\ told' = told \cup {taken[i] : i \in 1..heard}
          /\ \/ outbox' = Push(outbox, Note)
             \/ outbox' = PutBack(SubSeq(taken, k + 1, Len(taken)))
    BY <1>4 DEF PublishEnds
  <2>2. PICK heard \in k..Len(taken) : told' = told \cup {taken[i] : i \in 1..heard}
    BY <2>1
  <2>3. taken' = <<>> /\ UNCHANGED <<kept, target>> /\ Honest' = Honest
    BY <1>4 DEF PublishEnds, Honest
  <2>4. Len(taken) \in Nat /\ \A i \in 1..Len(taken) : taken[i] \in Honest
    BY ElementOfSeq, LenProperties
  <2>5. told' \subseteq Honest
    BY <2>2, <2>4
  <2>6. SubSeq(taken, k + 1, Len(taken)) \in Seq(Honest)
    BY <2>4, SubSeqProperties
  <2>7. outbox' \in Seq(Honest) /\ Len(outbox') <= OutboxMax
    <3>1. CASE outbox' = Push(outbox, Note)
      BY <3>1, PushTypes, HonestNotes
    <3>2. CASE outbox' = PutBack(SubSeq(taken, k + 1, Len(taken)))
      BY <3>2, <2>6, PutBackTypes
    <3>3. QED
      BY <2>1, <3>1, <3>2
  <2>8. <<>> \in Seq(Honest)
    BY EmptySeq
  <2>9. QED
    BY <2>3, <2>5, <2>7, <2>8
<1>5. CASE NetEnds
  BY <1>5, <1>c DEF NetEnds
<1>6. CASE HelloEnds
  BY <1>6, <1>c DEF HelloEnds
<1>7. CASE SelfTest
  <2>1. \/ Down /\ UNCHANGED <<told, kept, target>>
        \/ UNCHANGED <<outbox, taken, told, kept, target>>
    BY <1>7 DEF SelfTest, Rollback
  <2>2. QED
    BY <2>1, <1>a, <1>c
<1>8. CASE MarkValid
  <2>1. UNCHANGED <<outbox, taken, told, target>> /\ kept \subseteq kept'
    BY <1>8 DEF MarkValid
  <2>2. Honest \subseteq Honest'
    BY <2>1 DEF Honest
  <2>3. outbox \in Seq(Honest') /\ taken \in Seq(Honest')
    BY <2>2, WiderSeq
  <2>4. QED
    BY <2>1, <2>2, <2>3
<1>9. CASE Report
  <2>1. image[runs] \in kept
    BY <1>9 DEF Report, ControlInv, DownIsClean, NoUpdateOnTrial, FlashInv, ProvenUnlessOnTrial, Proven
  <2>2. /\ UNCHANGED <<taken, told, kept>>
        /\ \/ UNCHANGED <<outbox, target>>
           \/ /\ target # 0 /\ target' = 0
              /\ outbox' = Push(outbox, <<IF target = Running THEN "complete" ELSE "rolled back", target>>)
    BY <1>9 DEF Report
  <2>3. target # 0 => <<IF target = Running THEN "complete" ELSE "rolled back", target>> \in Honest
    BY <2>1, HonestNotes DEF Running
  <2>4. QED
    BY <2>2, <2>3, <1>b, <1>c
<1>10. CASE DeadlineLooks
  BY <1>10, <1>c DEF DeadlineLooks
<1>11. CASE DeadlineRollsBack
  BY <1>11, <1>a DEF DeadlineRollsBack, Rollback
<1>12. ASSUME NEW u \in Updates, SendUpdate(u) PROVE BoxInv'
  BY <1>12, <1>c DEF SendUpdate
<1>13. ASSUME NEW u \in Updates, StartUpdate(u) PROVE BoxInv'
  BY <1>13, <1>c DEF StartUpdate
<1>14. ASSUME NEW u \in Updates, RefuseUpdate(u) PROVE BoxInv'
  <2>1. /\ outbox' = outbox \/ outbox' = Push(outbox, Note)
        /\ UNCHANGED <<taken, told, kept, target>>
    BY <1>14 DEF RefuseUpdate
  <2>2. QED
    BY <2>1, <1>b, <1>c, HonestNotes
<1>15. CASE SendCancel
  BY <1>15, <1>c DEF SendCancel
<1>16. CASE CancelUpdate
  <2>1. /\ outbox' = outbox \/ outbox' = Push(outbox, Note)
        /\ UNCHANGED <<taken, told, kept, target>>
    BY <1>16 DEF CancelUpdate
  <2>2. QED
    BY <2>1, <1>b, <1>c, HonestNotes
<1>17. CASE BackoffEnds
  BY <1>17, <1>c DEF BackoffEnds
<1>18. CASE WorkerCloses
  BY <1>18, <1>c DEF WorkerCloses
<1>19. CASE Spawn
  <2>1. /\ outbox' = outbox \/ outbox' = Push(outbox, Note)
        /\ UNCHANGED <<taken, told, kept, target>>
    BY <1>19 DEF Spawn
  <2>2. QED
    BY <2>1, <1>b, <1>c, HonestNotes
<1>20. CASE OtaParks
  BY <1>20, <1>c DEF OtaParks, OtaFrame
<1>21. CASE OtaLends
  BY <1>21, <1>c DEF OtaLends, OtaFrame
<1>22. CASE OtaChecks
  BY <1>22, <1>c DEF OtaChecks, OtaFrame
<1>23. CASE OtaEnters
  <2>1. /\ outbox' = outbox \/ outbox' = Push(outbox, Note)
        /\ UNCHANGED <<taken, told, kept, target>>
    BY <1>23 DEF OtaEnters, OtaFrame
  <2>2. QED
    BY <2>1, <1>b, <1>c, HonestNotes
<1>24. CASE OtaPublished
  BY <1>24, <1>c DEF OtaPublished, OtaFrame
<1>25. CASE OtaBegins
  BY <1>25, <1>c DEF OtaBegins, OtaFrame
<1>26. CASE OtaWrites
  BY <1>26, <1>c DEF OtaWrites, OtaFrame
<1>27. CASE OtaVerifies
  BY <1>27, <1>c DEF OtaVerifies, OtaFrame
<1>28. CASE OtaLocks
  BY <1>28, <1>c DEF OtaLocks, OtaFrame
<1>29. CASE OtaRecords
  <2>1. otaAt = "record" => Version[job] \in Versions
    BY DuringUpdate, VersionFacts
  <2>2. QED
    BY <1>29, <2>1, <1>c DEF OtaRecords, OtaFrame
<1>30. CASE OtaBoots
  <2>1. otaAt = "boot" => Version[job] \in Versions
    BY DuringUpdate, VersionFacts
  <2>2. /\ UNCHANGED <<taken, told, kept, target>>
        /\ otaAt = "boot" /\ (outbox' = outbox \/ outbox' = Push(outbox, <<"restarting", Version[job]>>))
    BY <1>30 DEF OtaBoots, OtaFrame
  <2>3. QED
    BY <2>1, <2>2, <1>b, <1>c, HonestNotes
<1>31. CASE OtaRestarts
  BY <1>31, <1>a DEF OtaRestarts
<1>32. CASE OtaUnrecords
  BY <1>32, <1>c DEF OtaUnrecords, OtaFrame
<1>33. CASE OtaFails
  <2>1. \/ Down /\ UNCHANGED <<told, kept, target>>
        \/ UNCHANGED <<outbox, taken, told, kept, target>>
    BY <1>33 DEF OtaFails, OtaFrame
  <2>2. QED
    BY <2>1, <1>a, <1>c
<1>34. CASE OtaResumes
  <2>1. /\ outbox' = outbox \/ outbox' = Push(outbox, Note)
        /\ UNCHANGED <<taken, told, kept, target>>
    BY <1>34 DEF OtaResumes
  <2>2. QED
    BY <2>1, <1>b, <1>c, HonestNotes
<1>35. CASE OtaFinishes
  BY <1>35, <1>c DEF OtaFinishes
<1>36. CASE UNCHANGED vars
  BY <1>36, <1>c DEF vars
<1>37. QED
  BY <1>1, <1>2, <1>3, <1>4, <1>5, <1>6, <1>7, <1>8, <1>9, <1>10, <1>11, <1>12, <1>13, <1>14, <1>15, <1>16, <1>17, <1>18, <1>19, <1>20, <1>21, <1>22, <1>23, <1>24, <1>25, <1>26, <1>27, <1>28, <1>29, <1>30, <1>31, <1>32, <1>33, <1>34, <1>35, <1>36 DEF Next, OtaStep

LEMMA BoxAlways == Spec => []BoxInv
BY InitBox, NextBox, ControlAlways, FlashAlways, PTL DEF Spec

-----------------------------------------------------------------------------
(* The types.                                                              *)

\* TypeOK's conjuncts, but for the messages (BoxInv) and the flags (ControlInv).
SlotTypes ==
    /\ image \in [Slots -> Versions \cup {0}] /\ state \in [Slots -> SlotStates]
    /\ boot \in Slots /\ runs \in Slots
    /\ stage # "down" => image[runs] \in Versions

StepTypes ==
    /\ stage \in Stages /\ deadline \in {"off", "set", "firing"} /\ keepAt \in {"none", "mark", "report"}
    /\ phase \in Phases /\ otaAt \in OtaSteps /\ pub \in Publishes
    /\ backoff \in BOOLEAN /\ parked \in BOOLEAN /\ closing \in BOOLEAN
    /\ job \in Updates \cup {None} /\ lastUrl \in Updates \cup {None}

CountTypes ==
    /\ queue \subseteq Updates \cup {Cancel} /\ sent \subseteq Updates /\ cancels \in 0..MaxCancels
    /\ kept \subseteq Versions /\ faults \in 0..MaxFaults

PlainTypes == SlotTypes /\ StepTypes /\ CountTypes

LEMMA CleanCounts ==
    ASSUME faults \in 0..MaxFaults, NEW ok, Clean(ok)
    PROVE  faults' \in 0..MaxFaults
BY BoundAssumption DEF Clean

LEMMA InitPlain == Init => PlainTypes
<1> SUFFICES ASSUME Init PROVE PlainTypes
  OBVIOUS
<1>1. SlotTypes
  BY DEF Init, SlotTypes, Slots, Versions, SlotStates
<1>2. StepTypes
  BY DEF Init, StepTypes, Stages, Phases, OtaSteps, Publishes
<1>3. CountTypes
  BY BoundAssumption DEF Init, CountTypes, Versions
<1>4. QED
  BY <1>1, <1>2, <1>3 DEF PlainTypes

LEMMA NextSlotTypes == SlotTypes /\ CountTypes /\ ControlInv /\ FlashInv /\ [Next]_vars => SlotTypes'
<1> USE SlotFacts, VersionFacts
    DEF SlotTypes, SlotStates, Spare, flashVars, runVars, probVars, jobVars, taskVars, parkVars, boxVars, fleetVars
<1> SUFFICES ASSUME SlotTypes, CountTypes, ControlInv, FlashInv, [Next]_vars PROVE SlotTypes'
  OBVIOUS
<1>1. CASE PowerCut
  BY <1>1 DEF PowerCut, Down
<1>2. CASE Boot
  <2>1. image[boot'] \in Versions
    BY <1>2 DEF Boot, CountTypes, FlashInv, AlwaysRecovers, Proven
  <2>2. UNCHANGED image /\ state' \in [Slots -> SlotStates] /\ boot' \in Slots /\ runs' = boot'
    BY <1>2 DEF Boot
  <2>3. QED
    BY <2>1, <2>2
<1>3. CASE PublishBegins
  BY <1>3 DEF PublishBegins
<1>4. CASE PublishEnds
  BY <1>4 DEF PublishEnds
<1>5. CASE NetEnds
  BY <1>5 DEF NetEnds
<1>6. CASE HelloEnds
  BY <1>6 DEF HelloEnds
<1>7. CASE SelfTest
  BY <1>7 DEF SelfTest, Rollback, Down
<1>8. CASE MarkValid
  BY <1>8 DEF MarkValid
<1>9. CASE Report
  BY <1>9 DEF Report
<1>10. CASE DeadlineLooks
  BY <1>10 DEF DeadlineLooks
<1>11. CASE DeadlineRollsBack
  BY <1>11 DEF DeadlineRollsBack, Rollback, Down
<1>12. ASSUME NEW u \in Updates, SendUpdate(u) PROVE SlotTypes'
  BY <1>12 DEF SendUpdate
<1>13. ASSUME NEW u \in Updates, StartUpdate(u) PROVE SlotTypes'
  BY <1>13 DEF StartUpdate
<1>14. ASSUME NEW u \in Updates, RefuseUpdate(u) PROVE SlotTypes'
  BY <1>14 DEF RefuseUpdate
<1>15. CASE SendCancel
  BY <1>15 DEF SendCancel
<1>16. CASE CancelUpdate
  BY <1>16 DEF CancelUpdate
<1>17. CASE BackoffEnds
  BY <1>17 DEF BackoffEnds
<1>18. CASE WorkerCloses
  BY <1>18 DEF WorkerCloses
<1>19. CASE Spawn
  BY <1>19 DEF Spawn
<1>20. CASE OtaParks
  BY <1>20 DEF OtaParks, OtaFrame
<1>21. CASE OtaLends
  BY <1>21 DEF OtaLends, OtaFrame
<1>22. CASE OtaChecks
  BY <1>22 DEF OtaChecks, OtaFrame
<1>23. CASE OtaEnters
  BY <1>23 DEF OtaEnters, OtaFrame
<1>24. CASE OtaPublished
  BY <1>24 DEF OtaPublished, OtaFrame
<1>25. CASE OtaBegins
  BY <1>25 DEF OtaBegins, OtaFrame
<1>26. CASE OtaWrites
  BY <1>26 DEF OtaWrites, OtaFrame
<1>27. CASE OtaVerifies
  BY <1>27 DEF OtaVerifies, OtaFrame
<1>28. CASE OtaLocks
  BY <1>28 DEF OtaLocks, OtaFrame
<1>29. CASE OtaRecords
  BY <1>29 DEF OtaRecords, OtaFrame
<1>30. CASE OtaBoots
  BY <1>30 DEF OtaBoots, OtaFrame
<1>31. CASE OtaRestarts
  BY <1>31 DEF OtaRestarts, Down
<1>32. CASE OtaUnrecords
  BY <1>32 DEF OtaUnrecords, OtaFrame
<1>33. CASE OtaFails
  BY <1>33 DEF OtaFails, Down, OtaFrame
<1>34. CASE OtaResumes
  BY <1>34 DEF OtaResumes
<1>35. CASE OtaFinishes
  BY <1>35 DEF OtaFinishes
<1>36. CASE UNCHANGED vars
  BY <1>36 DEF vars
<1>37. QED
  BY <1>1, <1>2, <1>3, <1>4, <1>5, <1>6, <1>7, <1>8, <1>9, <1>10, <1>11, <1>12, <1>13, <1>14, <1>15, <1>16, <1>17, <1>18, <1>19, <1>20, <1>21, <1>22, <1>23, <1>24, <1>25, <1>26, <1>27, <1>28, <1>29, <1>30, <1>31, <1>32, <1>33, <1>34, <1>35, <1>36 DEF Next, OtaStep

LEMMA NextStepTypes == StepTypes /\ [Next]_vars => StepTypes'
<1> USE DEF StepTypes, Stages, Phases, OtaSteps, Publishes, flashVars, runVars, probVars, jobVars, taskVars, parkVars,
            boxVars, fleetVars
<1> SUFFICES ASSUME StepTypes, [Next]_vars PROVE StepTypes'
  OBVIOUS
<1>1. CASE PowerCut
  BY <1>1 DEF PowerCut, Down
<1>2. CASE Boot
  BY <1>2 DEF Boot
<1>3. CASE PublishBegins
  BY <1>3 DEF PublishBegins
<1>4. CASE PublishEnds
  BY <1>4 DEF PublishEnds, OnConnected
<1>5. CASE NetEnds
  <2>1. /\ pub' = "no" /\ parked' \in BOOLEAN /\ closing' = FALSE
        /\ UNCHANGED <<runVars, probVars, jobVars, taskVars>>
    BY <1>5 DEF NetEnds
  <2>2. closing' \in BOOLEAN /\ backoff' \in BOOLEAN /\ pub' \in Publishes
    BY <2>1
  <2>3. QED
    BY <2>1, <2>2
<1>6. CASE HelloEnds
  BY <1>6 DEF HelloEnds
<1>7. CASE SelfTest
  <2>1. CASE Down
    BY <2>1 DEF Down
  <2>2. CASE ~Down
    <3>1. /\ stage' = "work" /\ keepAt' \in {"none", "mark"}
          /\ UNCHANGED <<deadline, jobVars, taskVars, parkVars, boxVars>>
      BY <1>7, <2>2 DEF SelfTest, Rollback
    <3>2. QED
      BY <3>1
  <2>3. QED
    BY <2>1, <2>2
<1>8. CASE MarkValid
  BY <1>8 DEF MarkValid
<1>9. CASE Report
  <2>1. keepAt' = "none" /\ UNCHANGED <<stage, deadline, pub, jobVars, taskVars, parkVars>>
    BY <1>9 DEF Report
  <2>2. QED
    BY <2>1
<1>10. CASE DeadlineLooks
  BY <1>10 DEF DeadlineLooks
<1>11. CASE DeadlineRollsBack
  BY <1>11 DEF DeadlineRollsBack, Rollback, Down
<1>12. ASSUME NEW u \in Updates, SendUpdate(u) PROVE StepTypes'
  BY <1>12 DEF SendUpdate
<1>13. ASSUME NEW u \in Updates, StartUpdate(u) PROVE StepTypes'
  BY <1>13 DEF StartUpdate, Takes
<1>14. ASSUME NEW u \in Updates, RefuseUpdate(u) PROVE StepTypes'
  BY <1>14 DEF RefuseUpdate, Takes
<1>15. CASE SendCancel
  BY <1>15 DEF SendCancel
<1>16. CASE CancelUpdate
  BY <1>16 DEF CancelUpdate, Takes
<1>17. CASE BackoffEnds
  <2>1. /\ backoff' = FALSE
        /\ UNCHANGED <<runVars, probVars, phase, job, lastUrl, taskVars, parkVars, boxVars>>
    BY <1>17 DEF BackoffEnds
  <2>2. closing' \in BOOLEAN /\ parked' \in BOOLEAN /\ backoff' \in BOOLEAN
    BY <2>1
  <2>3. QED
    BY <2>1, <2>2
<1>18. CASE WorkerCloses
  BY <1>18 DEF WorkerCloses
<1>19. CASE Spawn
  BY <1>19 DEF Spawn, Finished, Resumed
<1>20. CASE OtaParks
  BY <1>20 DEF OtaParks, OtaTo, OtaFrame
<1>21. CASE OtaLends
  BY <1>21 DEF OtaLends, OtaTo, OtaFrame
<1>22. CASE OtaChecks
  BY <1>22 DEF OtaChecks, OtaTo, OtaFrame
<1>23. CASE OtaEnters
  BY <1>23 DEF OtaEnters, OtaTo, OtaFrame
<1>24. CASE OtaPublished
  BY <1>24 DEF OtaPublished, OtaTo, OtaFrame
<1>25. CASE OtaBegins
  BY <1>25 DEF OtaBegins, OtaTo, OtaFrame
<1>26. CASE OtaWrites
  BY <1>26 DEF OtaWrites, OtaTo, OtaFrame
<1>27. CASE OtaVerifies
  BY <1>27 DEF OtaVerifies, OtaTo, OtaFrame
<1>28. CASE OtaLocks
  BY <1>28 DEF OtaLocks, OtaTo, OtaFrame
<1>29. CASE OtaRecords
  BY <1>29 DEF OtaRecords, OtaTo, OtaFrame
<1>30. CASE OtaBoots
  BY <1>30 DEF OtaBoots, OtaTo, OtaFrame
<1>31. CASE OtaRestarts
  BY <1>31 DEF OtaRestarts, Down, OtaTo
<1>32. CASE OtaUnrecords
  BY <1>32 DEF OtaUnrecords, OtaTo, OtaFrame
<1>33. CASE OtaFails
  BY <1>33 DEF OtaFails, Down, OtaTo, OtaFrame
<1>34. CASE OtaResumes
  BY <1>34 DEF OtaResumes, Resumed, OtaTo
<1>35. CASE OtaFinishes
  BY <1>35 DEF OtaFinishes, Finished, OtaTo
<1>36. CASE UNCHANGED vars
  BY <1>36 DEF vars
<1>37. QED
  BY <1>1, <1>2, <1>3, <1>4, <1>5, <1>6, <1>7, <1>8, <1>9, <1>10, <1>11, <1>12, <1>13, <1>14, <1>15, <1>16, <1>17, <1>18, <1>19, <1>20, <1>21, <1>22, <1>23, <1>24, <1>25, <1>26, <1>27, <1>28, <1>29, <1>30, <1>31, <1>32, <1>33, <1>34, <1>35, <1>36 DEF Next, OtaStep

LEMMA NextCountTypes == CountTypes /\ SlotTypes /\ ControlInv /\ [Next]_vars => CountTypes'
<1> USE CleanCounts DEF CountTypes, flashVars, runVars, probVars, jobVars, taskVars, parkVars, boxVars, fleetVars
<1> SUFFICES ASSUME CountTypes, SlotTypes, ControlInv, [Next]_vars PROVE CountTypes'
  OBVIOUS
<1>1. CASE PowerCut
  BY <1>1 DEF PowerCut
<1>2. CASE Boot
  BY <1>2 DEF Boot
<1>3. CASE PublishBegins
  BY <1>3 DEF PublishBegins
<1>4. CASE PublishEnds
  BY <1>4 DEF PublishEnds
<1>5. CASE NetEnds
  BY <1>5 DEF NetEnds
<1>6. CASE HelloEnds
  BY <1>6 DEF HelloEnds
<1>7. CASE SelfTest
  BY <1>7 DEF SelfTest, Rollback
<1>8. CASE MarkValid
  <2>1. image[runs] \in Versions
    BY <1>8 DEF MarkValid, ControlInv, DownIsClean, SlotTypes
  <2>2. QED
    BY <1>8, <2>1 DEF MarkValid, Running
<1>9. CASE Report
  BY <1>9 DEF Report
<1>10. CASE DeadlineLooks
  BY <1>10 DEF DeadlineLooks
<1>11. CASE DeadlineRollsBack
  BY <1>11 DEF DeadlineRollsBack, Rollback
<1>12. ASSUME NEW u \in Updates, SendUpdate(u) PROVE CountTypes'
  BY <1>12 DEF SendUpdate
<1>13. ASSUME NEW u \in Updates, StartUpdate(u) PROVE CountTypes'
  BY <1>13 DEF StartUpdate, Takes
<1>14. ASSUME NEW u \in Updates, RefuseUpdate(u) PROVE CountTypes'
  BY <1>14 DEF RefuseUpdate, Takes
<1>15. CASE SendCancel
  <2>1. cancels \in Nat /\ MaxCancels \in Nat /\ cancels < MaxCancels
    BY <1>15, BoundAssumption DEF SendCancel
  <2>2. cancels + 1 \in 0..MaxCancels
    BY <2>1
  <2>3. QED
    BY <1>15, <2>2 DEF SendCancel
<1>16. CASE CancelUpdate
  BY <1>16 DEF CancelUpdate, Takes
<1>17. CASE BackoffEnds
  BY <1>17 DEF BackoffEnds
<1>18. CASE WorkerCloses
  BY <1>18 DEF WorkerCloses
<1>19. CASE Spawn
  BY <1>19 DEF Spawn
<1>20. CASE OtaParks
  BY <1>20 DEF OtaParks, OtaFrame
<1>21. CASE OtaLends
  BY <1>21 DEF OtaLends, OtaFrame
<1>22. CASE OtaChecks
  BY <1>22 DEF OtaChecks, OtaFrame
<1>23. CASE OtaEnters
  BY <1>23 DEF OtaEnters, OtaFrame
<1>24. CASE OtaPublished
  BY <1>24 DEF OtaPublished, OtaFrame
<1>25. CASE OtaBegins
  BY <1>25 DEF OtaBegins, OtaFrame
<1>26. CASE OtaWrites
  BY <1>26 DEF OtaWrites, OtaFrame
<1>27. CASE OtaVerifies
  BY <1>27 DEF OtaVerifies, OtaFrame
<1>28. CASE OtaLocks
  BY <1>28 DEF OtaLocks, OtaFrame
<1>29. CASE OtaRecords
  BY <1>29 DEF OtaRecords, OtaFrame
<1>30. CASE OtaBoots
  BY <1>30 DEF OtaBoots, OtaFrame
<1>31. CASE OtaRestarts
  BY <1>31 DEF OtaRestarts
<1>32. CASE OtaUnrecords
  BY <1>32 DEF OtaUnrecords, OtaFrame
<1>33. CASE OtaFails
  BY <1>33 DEF OtaFails, OtaFrame
<1>34. CASE OtaResumes
  BY <1>34 DEF OtaResumes
<1>35. CASE OtaFinishes
  BY <1>35 DEF OtaFinishes
<1>36. CASE UNCHANGED vars
  BY <1>36 DEF vars
<1>37. QED
  BY <1>1, <1>2, <1>3, <1>4, <1>5, <1>6, <1>7, <1>8, <1>9, <1>10, <1>11, <1>12, <1>13, <1>14, <1>15, <1>16, <1>17, <1>18, <1>19, <1>20, <1>21, <1>22, <1>23, <1>24, <1>25, <1>26, <1>27, <1>28, <1>29, <1>30, <1>31, <1>32, <1>33, <1>34, <1>35, <1>36 DEF Next, OtaStep

LEMMA PlainAlways == Spec => []PlainTypes
<1>1. PlainTypes /\ ControlInv /\ FlashInv /\ [Next]_vars => PlainTypes'
  BY NextSlotTypes, NextStepTypes, NextCountTypes DEF PlainTypes
<1>2. QED
  BY InitPlain, <1>1, ControlAlways, FlashAlways, PTL DEF Spec

-----------------------------------------------------------------------------
(* The theorems.                                                           *)

\* However often the power goes, and whatever an update was doing: the board has an image that passed
\* probation in the slot it boots, or in the other one while a whole new image is on trial.
THEOREM BoardRecovers == Spec => []AlwaysRecovers
<1>1. FlashInv => AlwaysRecovers
  BY DEF FlashInv
<1>2. QED
  BY <1>1, FlashAlways, PTL

\* Every way out of an update gives back its task, the model and the worker before the phase is idle.
THEOREM UpdateGivesBack == Spec => []IdleHoldsNothing
<1>1. ControlInv => IdleHoldsNothing
  BY DEF ControlInv, OneUpdate, Holding, IdleHoldsNothing
<1>2. QED
  BY <1>1, ControlAlways, PTL

\* A cancel that was accepted before the install, under ota.c's lock, stops it.
THEOREM CancelStopsInstall == Spec => []CancelledIsNotInstalled
<1>1. ControlInv => CancelledIsNotInstalled
  BY DEF ControlInv, InstallIsMarked, CancelledIsNotInstalled
<1>2. QED
  BY <1>1, ControlAlways, PTL

\* ota_complete names only images that were kept, through every loss, delay and repetition of it.
THEOREM CompleteIsHonest == Spec => []CompleteIsProven
<1>1. BoxInv => CompleteIsProven
  BY DEF BoxInv, Honest, CompleteIsProven
<1>2. QED
  BY <1>1, BoxAlways, PTL

\* Every variable keeps its type; the outbox stays within FLEET_OUTBOX.
THEOREM Types == Spec => []TypeOK
<1>1. PlainTypes /\ ControlInv /\ BoxInv => TypeOK
  <2> SUFFICES ASSUME PlainTypes, ControlInv, BoxInv PROVE TypeOK
    OBVIOUS
  <2>1. Honest \subseteq Messages
    BY DEF Honest
  <2>2. outbox \in Seq(Messages) /\ taken \in Seq(Messages) /\ told \subseteq Messages
    BY <2>1, WiderSeq DEF BoxInv
  <2>3. QED
    BY <2>2 DEF PlainTypes, SlotTypes, StepTypes, CountTypes, ControlInv, Flags, BoxInv, TypeOK
<1>2. QED
  BY <1>1, PlainAlways, ControlAlways, BoxAlways, PTL
=============================================================================
