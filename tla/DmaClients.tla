----------------------------- MODULE DmaClients -----------------------------
(***************************************************************************)
(* The programs that use a DMA channel, the benchmark and the readout, with *)
(* the lock that keeps them apart, and others that only open the channel,  *)
(* as the cleanup does (ProgramCleanup.cxx).  What one leaves in the       *)
(* channel is there when the next one starts.                              *)
(***************************************************************************)
EXTENDS DmaBench, RorcEquipment, ChannelLock

CONSTANTS BenchProc, ReadoutProc    \* their processes

\* Only the benchmark of the two has setForcedUnlockEnabled(true).
ASSUME ClientsAssumption == BenchProc \in Forcing /\ ReadoutProc \in Procs \ Forcing

programVars == <<channelVars, benchVars, equipmentVars>>
vars == <<programVars, lockVars>>

Init == ChannelInit /\ BenchInit /\ EquipmentInit /\ LockInit

\* The lock is taken when the channel is opened and given back when it is closed.
BenchStep(A) == A /\ UNCHANGED <<equipmentVars, lockVars>>
BenchOpened == BenchProc \in Owners /\ BenchStart /\ UNCHANGED <<equipmentVars, lockVars>>
BenchClosed == BenchEnd /\ UnlockNamed(BenchProc) /\ UNCHANGED equipmentVars

\* The constructor of the equipment catches what opening the channel throws.
EquipmentStep(A) == A /\ UNCHANGED <<benchVars, lockVars>>
EquipmentOpened ==
    /\ EquipmentStart /\ UNCHANGED <<benchVars, lockVars>>
    /\ \/ ReadoutProc \in Owners
       \/ lock[ReadoutProc].at = "out" /\ equipment' = "failed" /\ UNCHANGED channelVars
EquipmentClosed ==
    /\ EquipmentStop /\ UNCHANGED benchVars
    /\ IF ReadoutProc \in Owners THEN UnlockNamed(ReadoutProc) ELSE UNCHANGED lockVars

\* A program that opens the channel, or closes it and has not used it.
Unused(p) == ~(p = BenchProc /\ main # "off") /\ ~(p = ReadoutProc /\ equipment # "off")
OpenOrClose(p) ==
    /\ UnlockFile(p) \/ (Unused(p) /\ (Acquire(p) \/ UnlockNamed(p)))
    /\ UNCHANGED programVars

Crash(p) ==
    /\ CrashLock(p)
    /\ IF p = BenchProc THEN BenchGone ELSE UNCHANGED benchVars
    /\ IF p = ReadoutProc THEN EquipmentGone ELSE UNCHANGED equipmentVars
    /\ UNCHANGED channelVars

Card(s) == ChannelComplete(s) /\ UNCHANGED <<benchVars, equipmentVars, lockVars>>

Next ==
    \/ BenchOpened \/ BenchStep(BenchNext) \/ BenchClosed
    \/ EquipmentOpened \/ EquipmentStep(EquipmentNext) \/ EquipmentClosed
    \/ \E p \in Procs : OpenOrClose(p) \/ Crash(p)
    \/ \E s \in Superpages : Card(s)

Spec == Init /\ [][Next]_vars

\* The threads of both programs run, the readout drops its blocks some day, and a channel
\* that fillSuperpages() is called for again and again gives back what the card has filled
\* (SuperpagesComeBack of CrorcDmaChannel and CruDmaChannel).
FairSpec ==
    /\ Spec
    /\ WF_vars(BenchStep(PushThread)) /\ WF_vars(BenchStep(LowPriority))
    /\ WF_vars(BenchStep(MainThread) \/ BenchClosed)
    /\ WF_vars(EquipmentStep(EquipmentThread)) /\ WF_vars(EquipmentStep(TakeBlock))
    /\ \A t \in Droppers : WF_vars(EquipmentStep(DropDone(t)))
    /\ \A s \in Superpages :
         /\ WF_vars(Card(s))
         /\ SF_vars(BenchStep(PushFill /\ ChannelArrive(s)))
         /\ SF_vars(EquipmentStep(EquipmentFill /\ ChannelArrive(s)))
         /\ SF_vars(EquipmentStep(\E t \in Droppers : DropBlock(t, s)))
=============================================================================
