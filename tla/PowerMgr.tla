----------------------------- MODULE PowerMgr -----------------------------
(***************************************************************************)
(* Sleeping and waking of the T-Box (GpioWake.cpp and its callers).        *)
(*                                                                         *)
(* The MCU holds a GPIO line high while the vehicle is awake. The GPIO     *)
(* thread follows it: at an edge it takes the wake lock GPIO74; a line     *)
(* still low after 2 s puts the T-Box to sleep, a high line wakes it. A    *)
(* phone call, a short message or a packet of the TSP server wakes it too, *)
(* each in the thread that received it. The main loop of CFAWACP releases  *)
(* FC_LOCK while the T-Box sleeps and is not connected. The kernel may     *)
(* suspend whenever nobody holds a wake lock.                              *)
(*                                                                         *)
(* lowPowerMode() is one step per thing it switches, for its callers run   *)
(* it in different threads and share no lock. A wake lock belongs to the   *)
(* kernel: it outlives the process that took it.                           *)
(***************************************************************************)
EXTENDS Integers

CONSTANTS
    Callbacks,     \* threads that wake the T-Box for a call or a message
    Receiver,      \* CFAWACP's receive thread, which wakes it for a packet
    Source,        \* what each of these writes into wakeupSource
    MaxRestarts    \* bound: restarts of the process by monitorTbox

Wakers == Callbacks \cup {Receiver}
Gpio   == "gpioWakeThread"
Main   == "FAWACPThread"
Threads == Wakers \cup {Gpio, Main}

ASSUME PowerAssumption ==
    /\ {Gpio, Main} \cap Wakers = {} /\ Receiver \notin Callbacks
    /\ Source \in [Wakers -> {1, 2}]
    /\ MaxRestarts \in Nat

VARIABLES
    line,          \* level of the GPIO line, driven by the MCU
    edge,          \* poll() will report an edge
    waiting,       \* ch_time = 2000: poll() ends after 2 s
    isGoToSleep,   \* 0: asleep, 1: awake, -1: not known yet
    wakeupSource,  \* 0: GPIO, 1: call, 2: short message or packet, -1: none
    gpio74,        \* wake lock GPIO74_Wakeup_modem
    up,            \* what is switched on; "FC_LOCK" is the other wake lock
    connected,     \* CFAWACP has a connection to the TSP
    pc,
    restarts

flags == <<isGoToSleep, wakeupSource>>
gpiov == <<line, edge, waiting>>
vars == <<gpiov, flags, gpio74, up, connected, pc, restarts>>

Switched == {"FC_LOCK", "codec", "uart"}
Locations == {"idle", "read", "timeout", "unlock74", "sleepSource", "sleepFlag",
              "sleepCodec", "sleepUart", "sleepUnlock", "claim", "source",
              "wakeLock", "wakeCodec", "wakeUart", "wakeFlag", "release"}

FlagTypes ==
    /\ edge \in BOOLEAN /\ waiting \in BOOLEAN /\ gpio74 \in BOOLEAN
    /\ connected \in BOOLEAN

DataTypes ==
    /\ line \in 0..1
    /\ isGoToSleep \in -1..1 /\ wakeupSource \in -1..2
    /\ up \subseteq Switched
    /\ pc \in [Threads -> Locations]
    /\ restarts \in 0..MaxRestarts

\* Types of the variables.
TypeOK == FlagTypes /\ DataTypes

\* The first poll() of a GPIO value file reports an edge.
Init ==
    /\ line \in 0..1 /\ edge = TRUE /\ waiting = FALSE
    /\ isGoToSleep = -1 /\ wakeupSource = -1
    /\ gpio74 = FALSE /\ up = {}
    /\ connected = FALSE
    /\ pc = [t \in Threads |-> "idle"]
    /\ restarts = 0

Goto(t, l) == pc' = [pc EXCEPT ![t] = l]

-----------------------------------------------------------------------------
(* lowPowerMode().                                                         *)

\* Going to sleep: the flag first, FC_LOCK last. Wi-Fi and the LEDs are left
\* out.
SleepFlag ==
    /\ pc[Gpio] = "sleepFlag"
    /\ isGoToSleep' = 0
    /\ Goto(Gpio, "sleepCodec")
    /\ UNCHANGED <<gpiov, wakeupSource, gpio74, up, connected, restarts>>

Off(what, from, to) ==
    /\ pc[Gpio] = from
    /\ up' = up \ {what}
    /\ Goto(Gpio, to)
    /\ UNCHANGED <<gpiov, flags, gpio74, connected, restarts>>
SleepCodec == Off("codec", "sleepCodec", "sleepUart")
SleepUart  == Off("uart", "sleepUart", "sleepUnlock")

\* poll() has no time limit again.
SleepUnlock ==
    /\ pc[Gpio] = "sleepUnlock"
    /\ up' = up \ {"FC_LOCK"}
    /\ waiting' = FALSE
    /\ Goto(Gpio, "idle")
    /\ UNCHANGED <<line, edge, flags, gpio74, connected, restarts>>

\* Waking: FC_LOCK first, the flag last. The AT command that switches the
\* radio on and the restart of the USB gadget change nothing that is modelled.
On(t, what, from, to) ==
    /\ pc[t] = from
    /\ up' = up \cup {what}
    /\ Goto(t, to)
    /\ UNCHANGED <<gpiov, flags, gpio74, connected, restarts>>
WakeLock(t)  == On(t, "FC_LOCK", "wakeLock", "wakeCodec")
WakeCodec(t) == On(t, "codec", "wakeCodec", "wakeUart")
WakeUart(t)  == On(t, "uart", "wakeUart", "wakeFlag")

\* Mutant of WakeFlag: the flag is left to the caller.
WakeWithoutFlag(t) ==
    /\ pc[t] = "wakeFlag"
    /\ waiting' = (waiting /\ t # Gpio)
    /\ Goto(t, "idle")
    /\ UNCHANGED <<line, edge, flags, gpio74, up, connected, restarts>>

\* Afterwards a waker pulses GPIO77 to tell the MCU, which may raise its line
\* (MCU below) or not; the GPIO thread polls without a time limit.
WakeFlag(t) ==
    /\ pc[t] = "wakeFlag"
    /\ isGoToSleep' = 1
    /\ waiting' = (waiting /\ t # Gpio)
    /\ Goto(t, "idle")
    /\ UNCHANGED <<line, edge, wakeupSource, gpio74, up, connected, restarts>>

-----------------------------------------------------------------------------
(* The GPIO thread: gipo_wakeup_init().                                    *)

\* Mutant of PollEdge: the wake lock is not taken.
PollEdgeUnlocked ==
    /\ pc[Gpio] = "idle" /\ edge
    /\ Goto(Gpio, "read")
    /\ UNCHANGED <<gpiov, flags, gpio74, up, connected, restarts>>

PollEdge ==
    /\ pc[Gpio] = "idle" /\ edge
    /\ gpio74' = TRUE
    /\ Goto(Gpio, "read")
    /\ UNCHANGED <<gpiov, flags, up, connected, restarts>>

\* Mutant of ReadLine: a high line is recorded, but wakes nobody.
ReadLineWithoutWake ==
    /\ pc[Gpio] = "read"
    /\ edge' = FALSE
    /\ IF line = 0
       THEN waiting' = TRUE /\ Goto(Gpio, "idle") /\ UNCHANGED wakeupSource
       ELSE wakeupSource' = 0 /\ Goto(Gpio, "idle") /\ UNCHANGED waiting
    /\ UNCHANGED <<line, isGoToSleep, gpio74, up, connected, restarts>>

\* Reading the value file forgets the edges reported so far.
ReadLine ==
    /\ pc[Gpio] = "read"
    /\ edge' = FALSE
    /\ IF line = 0
       THEN waiting' = TRUE /\ Goto(Gpio, "idle") /\ UNCHANGED wakeupSource
       ELSE wakeupSource' = 0 /\ Goto(Gpio, "wakeLock") /\ UNCHANGED waiting
    /\ UNCHANGED <<line, isGoToSleep, gpio74, up, connected, restarts>>

\* Two seconds without an edge.
PollTimeout ==
    /\ pc[Gpio] = "idle" /\ waiting /\ ~edge
    /\ Goto(Gpio, "timeout")
    /\ UNCHANGED <<gpiov, flags, gpio74, up, connected, restarts>>

\* The line is read again, and an edge that came meanwhile is forgotten: a
\* low line leads to sleep, a high one wakes unless the GPIO woke already.
ReadLineAgain ==
    /\ pc[Gpio] = "timeout"
    /\ edge' = FALSE
    /\ \/ /\ line = 0
          /\ Goto(Gpio, "unlock74")
          /\ UNCHANGED <<waiting, wakeupSource>>
       \/ /\ line = 1 /\ wakeupSource # 0
          /\ wakeupSource' = 0
          /\ Goto(Gpio, "wakeLock")
          /\ UNCHANGED waiting
       \/ /\ line = 1 /\ wakeupSource = 0
          /\ waiting' = FALSE
          /\ Goto(Gpio, "idle")
          /\ UNCHANGED wakeupSource
    /\ UNCHANGED <<line, isGoToSleep, gpio74, up, connected, restarts>>

\* Mutant of Unlock74: the wake lock is kept.
Keep74 ==
    /\ pc[Gpio] = "unlock74"
    /\ Goto(Gpio, "sleepSource")
    /\ UNCHANGED <<gpiov, flags, gpio74, up, connected, restarts>>

Unlock74 ==
    /\ pc[Gpio] = "unlock74"
    /\ gpio74' = FALSE
    /\ Goto(Gpio, "sleepSource")
    /\ UNCHANGED <<gpiov, flags, up, connected, restarts>>

SleepSource ==
    /\ pc[Gpio] = "sleepSource"
    /\ wakeupSource' = -1
    /\ Goto(Gpio, "sleepFlag")
    /\ UNCHANGED <<gpiov, isGoToSleep, gpio74, up, connected, restarts>>

-----------------------------------------------------------------------------
(* The other wakers.                                                       *)

\* A call, a message or a packet finds the T-Box asleep. A packet needs a
\* connection, which is kept for the first three heartbeats of a sleep.
SeeAsleep(t) ==
    /\ pc[t] = "idle" /\ isGoToSleep = 0
    /\ t = Receiver => connected
    /\ Goto(t, "claim")
    /\ UNCHANGED <<gpiov, flags, gpio74, up, connected, restarts>>

\* The flag says "awake" before anything has been switched on.
Claim(t) ==
    /\ pc[t] = "claim"
    /\ isGoToSleep' = 1
    /\ Goto(t, "source")
    /\ UNCHANGED <<gpiov, wakeupSource, gpio74, up, connected, restarts>>

\* Mutant of SetSource: "other", which TBoxDataPool.h lists and nobody sets.
SetOtherSource(t) ==
    /\ pc[t] = "source"
    /\ wakeupSource' = 3
    /\ Goto(t, "wakeLock")
    /\ UNCHANGED <<gpiov, isGoToSleep, gpio74, up, connected, restarts>>

SetSource(t) ==
    /\ pc[t] = "source"
    /\ wakeupSource' = Source[t]
    /\ Goto(t, "wakeLock")
    /\ UNCHANGED <<gpiov, isGoToSleep, gpio74, up, connected, restarts>>

-----------------------------------------------------------------------------
(* CFAWACP's main loop, the MCU and the monitor.                           *)

\* Not connected and not awake: one more round of the sleep branch.
SeeNotAwake ==
    /\ pc[Main] = "idle" /\ ~connected /\ isGoToSleep # 1
    /\ Goto(Main, "release")
    /\ UNCHANGED <<gpiov, flags, gpio74, up, connected, restarts>>

\* system_power_sleep("FC_LOCK")
system_power_sleep ==
    /\ pc[Main] = "release"
    /\ up' = up \ {"FC_LOCK"}
    /\ Goto(Main, "idle")
    /\ UNCHANGED <<gpiov, flags, gpio74, connected, restarts>>

\* Not connected and awake: connect to the TSP and log in.
Connect ==
    /\ pc[Main] = "idle" /\ ~connected /\ isGoToSleep = 1
    /\ connected' = TRUE
    /\ UNCHANGED <<gpiov, flags, gpio74, up, pc, restarts>>

\* The connection is lost, or closed after the third heartbeat of a sleep.
Disconnect ==
    /\ pc[Main] = "idle" /\ connected
    /\ connected' = FALSE
    /\ UNCHANGED <<gpiov, flags, gpio74, up, pc, restarts>>

\* The MCU raises or lowers its line.
MCU ==
    /\ line' = 1 - line
    /\ edge' = TRUE
    /\ UNCHANGED <<waiting, flags, gpio74, up, connected, pc, restarts>>

\* The process dies and monitorTbox starts it again: its variables start
\* anew, the wake locks and what else is switched on stay.
Restart ==
    /\ restarts < MaxRestarts
    /\ restarts' = restarts + 1
    /\ edge' = TRUE /\ waiting' = FALSE
    /\ isGoToSleep' = -1 /\ wakeupSource' = -1
    /\ connected' = FALSE
    /\ pc' = [t \in Threads |-> "idle"]
    /\ UNCHANGED <<line, gpio74, up>>

-----------------------------------------------------------------------------
Wake(t) == WakeLock(t) \/ WakeCodec(t) \/ WakeUart(t) \/ WakeFlag(t)

GpioThread ==
    \/ PollEdge \/ ReadLine \/ PollTimeout \/ ReadLineAgain
    \/ Unlock74 \/ SleepSource
    \/ SleepFlag \/ SleepCodec \/ SleepUart \/ SleepUnlock
    \/ Wake(Gpio)

Next ==
    \/ GpioThread
    \/ \E t \in Wakers : SeeAsleep(t) \/ Claim(t) \/ SetSource(t) \/ Wake(t)
    \/ SeeNotAwake \/ system_power_sleep \/ Connect \/ Disconnect
    \/ MCU \/ Restart

Spec == Init /\ [][Next]_vars

-----------------------------------------------------------------------------
(* Properties.                                                             *)

\* While the GPIO thread waits for two seconds to pass, GPIO74 keeps the
\* kernel from suspending, in which time would stand still: the lock is
\* released only when the wait is over and sleep has been decided.
WaitHoldsLock ==
    waiting =>
        \/ gpio74
        \/ pc[Gpio] \in {"sleepSource", "sleepFlag", "sleepCodec", "sleepUart",
                         "sleepUnlock"}

\* A wake-up by the GPIO is recorded only while GPIO74 is held: whatever the
\* other wakers write, a T-Box that believes the vehicle awake cannot suspend.
GpioWakeHoldsLock ==
    wakeupSource = 0 => gpio74 \/ pc[Gpio] = "sleepSource"

\* The GPIO's lock covers whatever the GPIO thread waits for and has recorded
\* (GpioWake.cpp:359-378).
GpioLockHeld == WaitHoldsLock /\ GpioWakeHoldsLock

\* No edge is lost: once the GPIO thread waits for the next one, a high line
\* has woken the T-Box and holds its lock, whichever way the line went before,
\* whatever the other wakers do and after any restart.
HighLineIsAwake ==
    pc[Gpio] = "idle" /\ line = 1 /\ ~edge =>
        isGoToSleep = 1 /\ gpio74 /\ ~waiting

\* No thread is inside lowPowerMode, about to enter it or about to unlock.
Settled == \A t \in Threads : pc[t] = "idle"

\* An awake T-Box is locked awake, by its own lock or at least by the GPIO's.
\* (Comments in lowPowerMode, GpioWake.cpp: "go to sleep, unlock system" and
\* "wake up sys, lock system".)
\* The code does not keep this: README, Known deviations.
AwakeIsLocked == Settled /\ isGoToSleep = 1 => "FC_LOCK" \in up \/ gpio74

\* The login to the TSP starts only when the wake-up has been completed.
\* (Comment in lowPowerMode, GpioWake.cpp: the wake flag is set last, so that
\* the login starts when the wake-up has run to its end.)
\* The code does not keep this: README, Known deviations.
LoginAfterWake ==
    [][~connected /\ connected' => "uart" \in up]_vars

\* The GPIO thread goes on: an edge wakes the kernel, and from there to the
\* end of its reaction GPIO74, or FC_LOCK, keeps it awake.
Fairness == WF_vars(GpioThread)

FairSpec == Spec /\ Fairness

\* A line that stays high wakes the T-Box for good.
HighLineWakes == <>[](line = 1) => <>[](isGoToSleep = 1 /\ gpio74)

\* A line that stays low is in the end not held awake by the GPIO.
LowLineReleases == <>[](line = 0) => <>[](~gpio74)
=============================================================================
