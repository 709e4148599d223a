-------------------------- MODULE PowerMgrProofs --------------------------
(***************************************************************************)
(* Proofs about PowerMgr: types, and that neither the other wakers nor a   *)
(* restart of the process make the GPIO thread lose an edge of the line or *)
(* let go of its wake lock.                                                *)
(***************************************************************************)
EXTENDS PowerMgr, TLAPS

-----------------------------------------------------------------------------
(* Strengthenings.                                                         *)

WakeLocs  == {"wakeLock", "wakeCodec", "wakeUart", "wakeFlag"}
SleepLocs == {"sleepSource", "sleepFlag", "sleepCodec", "sleepUart",
              "sleepUnlock"}

\* Where the GPIO thread can be, and where it holds GPIO74.
GpioLocation ==
    pc[Gpio] \in {"idle", "read", "timeout", "unlock74"} \cup WakeLocs \cup SleepLocs
GpioLocked ==
    pc[Gpio] \in {"read", "timeout", "unlock74"} \cup WakeLocs => gpio74

\* What the GPIO thread has decided is what the line says, or an edge is left
\* for it to see.
FollowsLine ==
    ~edge /\ line = 1 =>
        /\ pc[Gpio] \notin SleepLocs \cup {"unlock74"}
        /\ pc[Gpio] = "idle" => ~waiting

\* The first decision after a start, and every one after a sleep, is not the
\* shortcut of ReadLineAgain: a wake-up by the GPIO has been carried out.
GpioWokeUp ==
    wakeupSource = 0 =>
        \/ pc[Gpio] \in WakeLocs
        \/ isGoToSleep = 1 /\ pc[Gpio] \notin SleepLocs \ {"sleepSource"}

LineInv == /\ GpioLocation /\ GpioLocked /\ FollowsLine /\ GpioWokeUp
           /\ WaitHoldsLock /\ GpioWakeHoldsLock /\ HighLineIsAwake

-----------------------------------------------------------------------------
(* Types.                                                                  *)

LEMMA TypeInit == Init => TypeOK
<1> SUFFICES ASSUME Init PROVE TypeOK
  OBVIOUS
<1>1. FlagTypes
  BY DEF Init, FlagTypes
<1>2. DataTypes
  BY PowerAssumption DEF Init, DataTypes, Locations
<1> QED
  BY <1>1, <1>2 DEF TypeOK

\* Every step keeps the flags Boolean.
LEMMA FlagTypesNext ==
    FlagTypes /\ [Next]_vars => FlagTypes'
<1> SUFFICES ASSUME FlagTypes, [Next]_vars
             PROVE  FlagTypes'
  OBVIOUS
<1> USE DEF FlagTypes, gpiov, flags
<1>a. /\ Gpio \in Threads /\ Main \in Threads /\ Wakers \subseteq Threads
      /\ \A t \in Wakers : Source[t] \in {1, 2}
      /\ MaxRestarts \in Nat
  BY PowerAssumption DEF Threads
<1>0. CASE UNCHANGED vars
  BY <1>0 DEF vars
<1>1. CASE PollEdge
  BY <1>1, <1>a DEF PollEdge
<1>2. CASE ReadLine
  BY <1>2, <1>a DEF ReadLine
<1>3. CASE PollTimeout
  BY <1>3, <1>a DEF PollTimeout
<1>4. CASE ReadLineAgain
  BY <1>4, <1>a DEF ReadLineAgain
<1>5. CASE Unlock74
  BY <1>5, <1>a DEF Unlock74
<1>6. CASE SleepSource
  BY <1>6, <1>a DEF SleepSource
<1>7. CASE SleepFlag
  BY <1>7, <1>a DEF SleepFlag
<1>8. CASE SleepCodec
  BY <1>8, <1>a DEF SleepCodec, Off
<1>9. CASE SleepUart
  BY <1>9, <1>a DEF SleepUart, Off
<1>10. CASE SleepUnlock
  BY <1>10, <1>a DEF SleepUnlock
<1>11. ASSUME NEW t \in Wakers, SeeAsleep(t) PROVE FlagTypes'
  BY <1>11, <1>a DEF SeeAsleep
<1>12. ASSUME NEW t \in Wakers, Claim(t) PROVE FlagTypes'
  BY <1>12, <1>a DEF Claim
<1>13. ASSUME NEW t \in Wakers, SetSource(t) PROVE FlagTypes'
  BY <1>13, <1>a DEF SetSource
<1>14. ASSUME NEW t \in Wakers \cup {Gpio}, WakeLock(t) PROVE FlagTypes'
  BY <1>14, <1>a DEF WakeLock, On
<1>15. ASSUME NEW t \in Wakers \cup {Gpio}, WakeCodec(t) PROVE FlagTypes'
  BY <1>15, <1>a DEF WakeCodec, On
<1>16. ASSUME NEW t \in Wakers \cup {Gpio}, WakeUart(t) PROVE FlagTypes'
  BY <1>16, <1>a DEF WakeUart, On
<1>17. ASSUME NEW t \in Wakers \cup {Gpio}, WakeFlag(t) PROVE FlagTypes'
  BY <1>17, <1>a DEF WakeFlag
<1>18. CASE SeeNotAwake
  BY <1>18, <1>a DEF SeeNotAwake
<1>19. CASE system_power_sleep
  BY <1>19, <1>a DEF system_power_sleep
<1>20. CASE Connect
  BY <1>20, <1>a DEF Connect
<1>21. CASE Disconnect
  BY <1>21, <1>a DEF Disconnect
<1>22. CASE MCU
  BY <1>22, <1>a DEF MCU
<1>23. CASE Restart
  BY <1>23, <1>a DEF Restart
<1> QED
  BY <1>0, <1>1, <1>2, <1>3, <1>4, <1>5, <1>6, <1>7, <1>8, <1>9, <1>10, <1>11, <1>12, <1>13, <1>14, <1>15, <1>16, <1>17, <1>18, <1>19, <1>20, <1>21, <1>22, <1>23 DEF Next, GpioThread, Wake

\* Every step keeps the types of the data.
LEMMA DataTypesNext ==
    DataTypes /\ [Next]_vars => DataTypes'
<1> SUFFICES ASSUME DataTypes, [Next]_vars
             PROVE  DataTypes'
  OBVIOUS
<1> USE DEF DataTypes, Locations, Switched, Goto, gpiov, flags
<1>a. /\ Gpio \in Threads /\ Main \in Threads /\ Wakers \subseteq Threads
      /\ \A t \in Wakers : Source[t] \in {1, 2}
      /\ MaxRestarts \in Nat
  BY PowerAssumption DEF Threads
<1>0. CASE UNCHANGED vars
  BY <1>0 DEF vars
<1>1. CASE PollEdge
  BY <1>1, <1>a DEF PollEdge
<1>2. CASE ReadLine
  BY <1>2, <1>a DEF ReadLine
<1>3. CASE PollTimeout
  BY <1>3, <1>a DEF PollTimeout
<1>4. CASE ReadLineAgain
  BY <1>4, <1>a DEF ReadLineAgain
<1>5. CASE Unlock74
  BY <1>5, <1>a DEF Unlock74
<1>6. CASE SleepSource
  BY <1>6, <1>a DEF SleepSource
<1>7. CASE SleepFlag
  BY <1>7, <1>a DEF SleepFlag
<1>8. CASE SleepCodec
  BY <1>8, <1>a DEF SleepCodec, Off
<1>9. CASE SleepUart
  BY <1>9, <1>a DEF SleepUart, Off
<1>10. CASE SleepUnlock
  BY <1>10, <1>a DEF SleepUnlock
<1>11. ASSUME NEW t \in Wakers, SeeAsleep(t) PROVE DataTypes'
  BY <1>11, <1>a DEF SeeAsleep
<1>12. ASSUME NEW t \in Wakers, Claim(t) PROVE DataTypes'
  BY <1>12, <1>a DEF Claim
<1>13. ASSUME NEW t \in Wakers, SetSource(t) PROVE DataTypes'
  BY <1>13, <1>a DEF SetSource
<1>14. ASSUME NEW t \in Wakers \cup {Gpio}, WakeLock(t) PROVE DataTypes'
  BY <1>14, <1>a DEF WakeLock, On
<1>15. ASSUME NEW t \in Wakers \cup {Gpio}, WakeCodec(t) PROVE DataTypes'
  BY <1>15, <1>a DEF WakeCodec, On
<1>16. ASSUME NEW t \in Wakers \cup {Gpio}, WakeUart(t) PROVE DataTypes'
  BY <1>16, <1>a DEF WakeUart, On
<1>17. ASSUME NEW t \in Wakers \cup {Gpio}, WakeFlag(t) PROVE DataTypes'
  BY <1>17, <1>a DEF WakeFlag
<1>18. CASE SeeNotAwake
  BY <1>18, <1>a DEF SeeNotAwake
<1>19. CASE system_power_sleep
  BY <1>19, <1>a DEF system_power_sleep
<1>20. CASE Connect
  BY <1>20, <1>a DEF Connect
<1>21. CASE Disconnect
  BY <1>21, <1>a DEF Disconnect
<1>22. CASE MCU
  BY <1>22, <1>a DEF MCU
<1>23. CASE Restart
  BY <1>23, <1>a DEF Restart
<1> QED
  BY <1>0, <1>1, <1>2, <1>3, <1>4, <1>5, <1>6, <1>7, <1>8, <1>9, <1>10, <1>11, <1>12, <1>13, <1>14, <1>15, <1>16, <1>17, <1>18, <1>19, <1>20, <1>21, <1>22, <1>23 DEF Next, GpioThread, Wake

LEMMA TypeNext == TypeOK /\ [Next]_vars => TypeOK'
  BY FlagTypesNext, DataTypesNext DEF TypeOK

\* The variables of the power management keep their types.
THEOREM TypeCorrect == Spec => []TypeOK
  BY TypeInit, TypeNext, PTL DEF Spec

-----------------------------------------------------------------------------
(* The GPIO thread and its line.                                           *)

LEMMA LineInit == Init => LineInv
  BY PowerAssumption DEF Init, LineInv, GpioLocation, GpioLocked, FollowsLine,
     GpioWokeUp, WaitHoldsLock, GpioWakeHoldsLock, HighLineIsAwake, WakeLocs,
     SleepLocs, Threads

\* Every step of every thread, and a restart, keeps what the GPIO thread relies
\* on: the others write isGoToSleep only to say "awake".
LEMMA LineNext ==
    TypeOK /\ LineInv /\ [Next]_vars => LineInv'
<1> SUFFICES ASSUME TypeOK, LineInv, [Next]_vars
             PROVE  LineInv'
  OBVIOUS
<1> USE DEF LineInv, GpioLocation, GpioLocked, FollowsLine, GpioWokeUp,
           WaitHoldsLock, GpioWakeHoldsLock, HighLineIsAwake, WakeLocs, SleepLocs,
           Goto, gpiov, flags
<1>a. /\ Gpio \notin Wakers /\ Main \notin Wakers /\ Gpio # Main
      /\ Gpio \in Threads /\ Main \in Threads /\ Wakers \subseteq Threads
      /\ pc \in [Threads -> Locations]
      /\ \A t \in Wakers : Source[t] \in {1, 2}
  BY PowerAssumption DEF Threads, Gpio, Main, TypeOK, DataTypes
<1>0. CASE UNCHANGED vars
  BY <1>0 DEF vars
<1>1. CASE PollEdge
  BY <1>1, <1>a DEF PollEdge
<1>2. CASE ReadLine
  <2>1. GpioLocation'
    BY <1>2, <1>a DEF ReadLine
  <2>2. GpioLocked'
    BY <1>2, <1>a DEF ReadLine
  <2>3. FollowsLine'
    BY <1>2, <1>a DEF ReadLine
  <2>4. GpioWokeUp'
    BY <1>2, <1>a DEF ReadLine
  <2>5. WaitHoldsLock'
    BY <1>2, <1>a DEF ReadLine
  <2>6. GpioWakeHoldsLock'
    BY <1>2, <1>a DEF ReadLine
  <2>7. HighLineIsAwake'
    BY <1>2, <1>a DEF ReadLine
  <2> QED
    BY <2>1, <2>2, <2>3, <2>4, <2>5, <2>6, <2>7
<1>3. CASE PollTimeout
  BY <1>3, <1>a DEF PollTimeout
<1>4. CASE ReadLineAgain
  <2>1. GpioLocation'
    BY <1>4, <1>a DEF ReadLineAgain
  <2>2. GpioLocked'
    BY <1>4, <1>a DEF ReadLineAgain
  <2>3. FollowsLine'
    BY <1>4, <1>a DEF ReadLineAgain
  <2>4. GpioWokeUp'
    BY <1>4, <1>a DEF ReadLineAgain
  <2>5. WaitHoldsLock'
    BY <1>4, <1>a DEF ReadLineAgain
  <2>6. GpioWakeHoldsLock'
    BY <1>4, <1>a DEF ReadLineAgain
  <2>7. HighLineIsAwake'
    BY <1>4, <1>a DEF ReadLineAgain
  <2> QED
    BY <2>1, <2>2, <2>3, <2>4, <2>5, <2>6, <2>7
<1>5. CASE Unlock74
  <2>1. GpioLocation'
    BY <1>5, <1>a DEF Unlock74
  <2>2. GpioLocked'
    BY <1>5, <1>a DEF Unlock74
  <2>3. FollowsLine'
    BY <1>5, <1>a DEF Unlock74
  <2>4. GpioWokeUp'
    BY <1>5, <1>a DEF Unlock74
  <2>5. WaitHoldsLock'
    BY <1>5, <1>a DEF Unlock74
  <2>6. GpioWakeHoldsLock'
    BY <1>5, <1>a DEF Unlock74
  <2>7. HighLineIsAwake'
    BY <1>5, <1>a DEF Unlock74
  <2> QED
    BY <2>1, <2>2, <2>3, <2>4, <2>5, <2>6, <2>7
<1>6. CASE SleepSource
  BY <1>6, <1>a DEF SleepSource
<1>7. CASE SleepFlag
  <2>1. GpioLocation'
    BY <1>7, <1>a DEF SleepFlag
  <2>2. GpioLocked'
    BY <1>7, <1>a DEF SleepFlag
  <2>3. FollowsLine'
    BY <1>7, <1>a DEF SleepFlag
  <2>4. GpioWokeUp'
    BY <1>7, <1>a DEF SleepFlag
  <2>5. WaitHoldsLock'
    BY <1>7, <1>a DEF SleepFlag
  <2>6. GpioWakeHoldsLock'
    BY <1>7, <1>a DEF SleepFlag
  <2>7. HighLineIsAwake'
    BY <1>7, <1>a DEF SleepFlag
  <2> QED
    BY <2>1, <2>2, <2>3, <2>4, <2>5, <2>6, <2>7
<1>8. CASE SleepCodec
  BY <1>8, <1>a DEF SleepCodec, Off
<1>9. CASE SleepUart
  BY <1>9, <1>a DEF SleepUart, Off
<1>10. CASE SleepUnlock
  BY <1>10, <1>a DEF SleepUnlock
<1>11. ASSUME NEW t \in Wakers, SeeAsleep(t) PROVE LineInv'
  BY <1>11, <1>a DEF SeeAsleep
<1>12. ASSUME NEW t \in Wakers, Claim(t) PROVE LineInv'
  BY <1>12, <1>a DEF Claim
<1>13. ASSUME NEW t \in Wakers, SetSource(t) PROVE LineInv'
  <2>a. wakeupSource' # 0
    BY <1>13, <1>a DEF SetSource
  <2>1. GpioLocation'
    BY <1>13, <1>a DEF SetSource
  <2>2. GpioLocked'
    BY <1>13, <1>a DEF SetSource
  <2>3. FollowsLine'
    BY <1>13, <1>a DEF SetSource
  <2>4. GpioWokeUp'
    BY <1>13, <2>a, <1>a DEF SetSource
  <2>5. WaitHoldsLock'
    BY <1>13, <1>a DEF SetSource
  <2>6. GpioWakeHoldsLock'
    BY <1>13, <2>a, <1>a DEF SetSource
  <2>7. HighLineIsAwake'
    BY <1>13, <1>a DEF SetSource
  <2> QED
    BY <2>1, <2>2, <2>3, <2>4, <2>5, <2>6, <2>7
<1>14. ASSUME NEW t \in Wakers \cup {Gpio}, WakeLock(t) PROVE LineInv'
  BY <1>14, <1>a DEF WakeLock, On
<1>15. ASSUME NEW t \in Wakers \cup {Gpio}, WakeCodec(t) PROVE LineInv'
  BY <1>15, <1>a DEF WakeCodec, On
<1>16. ASSUME NEW t \in Wakers \cup {Gpio}, WakeUart(t) PROVE LineInv'
  BY <1>16, <1>a DEF WakeUart, On
<1>17. ASSUME NEW t \in Wakers \cup {Gpio}, WakeFlag(t) PROVE LineInv'
  <2>1. GpioLocation'
    BY <1>17, <1>a DEF WakeFlag
  <2>2. GpioLocked'
    BY <1>17, <1>a DEF WakeFlag
  <2>3. FollowsLine'
    BY <1>17, <1>a DEF WakeFlag
  <2>4. GpioWokeUp'
    BY <1>17, <1>a DEF WakeFlag
  <2>5. WaitHoldsLock'
    BY <1>17, <1>a DEF WakeFlag
  <2>6. GpioWakeHoldsLock'
    BY <1>17, <1>a DEF WakeFlag
  <2>7. HighLineIsAwake'
    BY <1>17, <1>a DEF WakeFlag
  <2> QED
    BY <2>1, <2>2, <2>3, <2>4, <2>5, <2>6, <2>7
<1>18. CASE SeeNotAwake
  BY <1>18, <1>a DEF SeeNotAwake
<1>19. CASE system_power_sleep
  BY <1>19, <1>a DEF system_power_sleep
<1>20. CASE Connect
  BY <1>20, <1>a DEF Connect
<1>21. CASE Disconnect
  BY <1>21, <1>a DEF Disconnect
<1>22. CASE MCU
  BY <1>22, <1>a DEF MCU
<1>23. CASE Restart
  BY <1>23, <1>a DEF Restart
<1> QED
  BY <1>0, <1>1, <1>2, <1>3, <1>4, <1>5, <1>6, <1>7, <1>8, <1>9, <1>10, <1>11, <1>12, <1>13, <1>14, <1>15, <1>16, <1>17, <1>18, <1>19, <1>20, <1>21, <1>22, <1>23 DEF Next, GpioThread, Wake

LEMMA LineCorrect == Spec => []LineInv
  BY TypeInit, TypeNext, LineInit, LineNext, PTL DEF Spec

\* GPIO74 is held for as long as the GPIO thread waits, and for as long as the
\* GPIO is recorded as what woke the T-Box.
THEOREM GpioLockCorrect == Spec => []GpioLockHeld
<1>1. LineInv => GpioLockHeld
  BY DEF LineInv, GpioLockHeld
<1> QED
  BY LineCorrect, <1>1, PTL

\* No edge of the line is lost.
THEOREM NoEdgeLost == Spec => []HighLineIsAwake
  BY LineCorrect, PTL DEF LineInv
=============================================================================
