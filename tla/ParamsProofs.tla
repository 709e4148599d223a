---------------------------- MODULE ParamsProofs ----------------------------
(***************************************************************************)
(* What holds of Params for every set of threads and VINs, every number of *)
(* days, restarts and logins: the types, that the files hold what was      *)
(* promised, and that login numbers go up.                                 *)
(***************************************************************************)
EXTENDS Params, TLAPS

USE ParamsAssumption DEF ParamsAssumption

\* How far a start has come, and what is there then.
Started ==
    /\ boot # "up" => link = "down" /\ dial = "idle" /\ rx = "none"
    /\ boot = "up" => file # NoFile
    /\ boot = "create" => file = Zero

\* A structure whose number is not below that of the last login, or above it.
Ahead(r) ==
    \/ setBack
    \/ r.day > lastLogin[1]
    \/ r.day = lastLogin[1] /\ r.serial >= lastLogin[2]
Beyond(r) ==
    \/ setBack
    \/ r.day > lastLogin[1]
    \/ r.day = lastLogin[1] /\ r.serial > lastLogin[2]

\* A number belongs to a day that has come, and neither memory nor file is behind
\* the last login; a number that has been counted is above it, and one that is
\* about to be sent is in the file.
Numbered ==
    /\ handle.day = 0 => handle.serial = 0
    /\ file.day = 0 => file.serial = 0
    /\ handle.day <= today /\ file.day <= today
    /\ Ahead(file) /\ (boot = "up" => Ahead(handle))
    /\ dial \in {"save", "login"} => Beyond(handle)
    /\ dial = "login" => file.day = handle.day /\ file.serial = handle.serial

\* What the server was told is in force is in force, and it was not told of
\* parameters never initialised.
Told ==
    /\ owed # "none" /\ boot = "up" /\ ~cut => handle.par = owed
    /\ rx = "answer" => handle.par # "blank"
    /\ owed # "blank"

\* Where parameters that were never initialised can come from.
BlankFile == file.par = "blank" => interrupted \/ boot = "create"

\* What the file of the connection holds of the parameters.
SettingsInv ==
    SettingsOwed /\ Told /\ SettingsSurvive /\ BlankFile /\ BlankOnlyInterrupted

SessionInv == Started /\ Numbered /\ SettingsInv

\* The structure in memory is what the threads have asked for; whoever is not
\* writing has had it written.
PoolInv == para = asked /\ ItemsSaved

\* While the VIN is being written it is the one in memory, unless it has been
\* replaced, and that cannot happen any more once the file is empty.
VinInv ==
    /\ VinSaved
    /\ mcu # "idle" /\ ~replaced => conf = vin
    /\ mcu = "write" => confFile = Blank

Inv == TypeOK /\ SessionInv /\ PoolInv /\ VinInv

-----------------------------------------------------------------------------
(* Types                                                                   *)

LEMMA TypeInit == Init => TypeOK
<1> SUFFICES ASSUME Init PROVE TypeOK
  OBVIOUS
<1>1. FlagTypes
  BY DEF Init, FlagTypes
<1>2. Zero \in Handle
  BY DEF Zero, Handle, Settings
<1>3. lastLogin \in (0..Days) \X (0..MaxSerial+1)
  BY DEF Init
<1>4. DataTypes
  BY <1>2, <1>3 DEF Init, DataTypes
<1> QED
  BY <1>1, <1>4 DEF TypeOK

\* The next number of a handle that holds one.
LEMMA SerialBound ==
    ASSUME TypeOK, Numbered
    PROVE  NextSerial \in 1..MaxSerial+1
<1>1. handle.day \in 0..Days /\ handle.serial \in 0..MaxSerial+1
  BY DEF TypeOK, DataTypes, Handle
<1> QED
  BY <1>1 DEF NextSerial, AtLimit, Numbered

\* A handle that is changed in part is a handle.
LEMMA HandleStep ==
    ASSUME TypeOK, Numbered
    PROVE  /\ [handle EXCEPT !.day = today, !.serial = NextSerial] \in Handle
           /\ \A p \in {"default", "new"} : [handle EXCEPT !.par = p] \in Handle
<1>1. handle \in Handle /\ today \in 1..Days
  BY DEF TypeOK, DataTypes
<1>2. NextSerial \in 0..MaxSerial+1
  BY SerialBound
<1>3. today \in 0..Days
  BY <1>1
<1>4. [handle EXCEPT !.day = today, !.serial = NextSerial] \in Handle
  <2> DEFINE n == NextSerial
  <2>1. n \in 0..MaxSerial+1
    BY <1>2
  <2> HIDE DEF n
  <2>2. [handle EXCEPT !.day = today, !.serial = n] \in Handle
    BY <1>1, <1>3, <2>1 DEF Handle
  <2> QED
    BY <2>2 DEF n
<1>5. \A p \in {"default", "new"} : [handle EXCEPT !.par = p] \in Handle
  BY <1>1 DEF Handle, Settings
<1> QED
  BY <1>4, <1>5

LEMMA TypeSession ==
    ASSUME TypeOK, Started, Numbered, SessionStep
    PROVE  TypeOK'
<1>1. UNCHANGED <<today, pool, config, world>>
  BY DEF SessionStep, ReadHandle, InitHandle, Dial, Count, Save, LogIn,
         Disconnect, ChangeParams, AnswerSet, AnswerFails, StoreParams,
         LoginNewServer, AnotherLogin, KeepParams, TellRefused, RevertFails,
         ReadBack, world
<1>2. FlagTypes'
  BY <1>1 DEF SessionStep, ReadHandle, InitHandle, Dial, Count, Save, LogIn,
         Disconnect, ChangeParams, AnswerSet, AnswerFails, StoreParams,
         LoginNewServer, AnotherLogin, KeepParams, TellRefused, RevertFails,
         ReadBack, world, config, login, promise,
         TypeOK, FlagTypes
<1>3. SUFFICES /\ boot' \in {"read", "create", "up"}
               /\ handle' \in Handle /\ file' \in Handle \cup {NoFile}
               /\ lastLogin' \in (0..Days) \X (0..MaxSerial+1)
               /\ link' \in {"down", "up"} /\ SettoLoginState' \in 0..1
               /\ dial' \in {"idle", "count", "save", "login"}
               /\ rx' \in {"none", "recv", "answer", "store", "storeServer",
                           "relogin", "verdict", "readBack"}
               /\ owed' \in Settings \cup {"none"}
  BY <1>1, <1>2, <1>3 DEF TypeOK, DataTypes, pool, config, world
<1>4. Zero \in Handle /\ Factory \in Handle
  BY DEF Zero, Factory, Handle, Settings
<1>5. handle \in Handle /\ file \in Handle \cup {NoFile}
  BY DEF TypeOK, DataTypes
<1> USE DEF TypeOK, DataTypes, login, promise
<1>6. CASE ReadHandle
  BY <1>4, <1>6 DEF ReadHandle
<1>7. CASE InitHandle
  BY <1>4, <1>7 DEF InitHandle
<1>8. CASE Dial
  BY <1>8 DEF Dial
<1>9. CASE Count
  <2>1. handle' \in Handle
    BY <1>9, HandleStep DEF Count
  <2> QED
    BY <1>9, <2>1 DEF Count
<1>10. CASE Save
  BY <1>10 DEF Save
<1>11. CASE LogIn
  <2>1. handle.day \in 0..Days /\ handle.serial \in 0..MaxSerial+1
    BY <1>5 DEF Handle
  <2>2. lastLogin' \in (0..Days) \X (0..MaxSerial+1)
    BY <1>11, <2>1 DEF LogIn
  <2> QED
    BY <1>11, <2>2 DEF LogIn
<1>12. CASE Disconnect
  BY <1>12 DEF Disconnect
<1>13. CASE \E p \in {"default", "new"} : ChangeParams(p)
  BY <1>13, HandleStep DEF ChangeParams
<1>14. CASE AnswerSet
  <2>1. handle.par \in Settings
    BY <1>5 DEF Handle
  <2> QED
    BY <1>14, <2>1 DEF AnswerSet
<1>15. CASE AnswerFails
  BY <1>15 DEF AnswerFails
<1>16. CASE StoreParams
  BY <1>16 DEF StoreParams
<1>17. CASE LoginNewServer \/ AnotherLogin
  BY <1>17 DEF LoginNewServer, AnotherLogin
<1>18. CASE KeepParams
  BY <1>18 DEF KeepParams
<1>19. CASE TellRefused \/ RevertFails
  BY <1>19 DEF TellRefused, RevertFails
<1>20. CASE ReadBack
  BY <1>20 DEF ReadBack, Started
<1> QED
  BY <1>6, <1>7, <1>8, <1>9, <1>10, <1>11, <1>12, <1>13, <1>14, <1>15, <1>16,
     <1>17, <1>18, <1>19, <1>20 DEF SessionStep

LEMMA TypeReborn ==
    ASSUME TypeOK, Restart \/ FactoryReset
    PROVE  TypeOK'
<1>1. FlagTypes'
  <2>1. replaced' = replaced /\ (setBack' = setBack \/ setBack' = FALSE)
    BY DEF Restart, FactoryReset, Reborn
  <2>2. interrupted' \in BOOLEAN /\ cut' \in BOOLEAN
    BY DEF Restart, FactoryReset, TypeOK, FlagTypes
  <2> QED
    BY <2>1, <2>2 DEF TypeOK, FlagTypes
<1>2. Zero \in Handle
  BY DEF Zero, Handle, Settings
<1>3. restarts' \in 0..MaxRestarts
  BY DEF Restart, FactoryReset, TypeOK, DataTypes
<1>4. /\ file' \in Handle \cup {NoFile}
      /\ lastLogin' \in (0..Days) \X (0..MaxSerial+1)
      /\ owed' \in Settings \cup {"none"}
  BY DEF Restart, FactoryReset, TypeOK, DataTypes
<1>5. asked' \in [Setters -> 0..1]
  BY DEF Restart, FactoryReset, Reborn, TypeOK, DataTypes
<1>6. vin' \in Vins \cup {Blank}
  BY DEF Restart, FactoryReset, Reborn, TypeOK, DataTypes
<1> QED
  BY <1>1, <1>2, <1>3, <1>4, <1>5, <1>6
     DEF Restart, FactoryReset, Reborn, TypeOK, DataTypes

LEMMA TypeStep == TypeOK /\ Started /\ Numbered /\ [Next]_vars => TypeOK'
<1> SUFFICES ASSUME TypeOK, Started, Numbered, [Next]_vars PROVE TypeOK'
  OBVIOUS
<1>1. CASE SessionStep
  BY <1>1, TypeSession
<1>2. CASE PoolStep
  <2>1. UNCHANGED <<boot, session>> /\ UNCHANGED <<config, world>>
    BY <1>2 DEF PoolStep, updatePara, SetItem
  <2>2. FlagTypes'
    BY <2>1 DEF session, login, promise, config, world, TypeOK, FlagTypes
  <2>3. DataTypes'
    BY <1>2, <2>1 DEF PoolStep, updatePara, SetItem, session, login, promise,
                      config, world, TypeOK, DataTypes
  <2> QED
    BY <2>2, <2>3 DEF TypeOK
<1>3. CASE ConfigStep
  <2>1. UNCHANGED <<boot, session>> /\ UNCHANGED <<pool, world>>
    BY <1>3 DEF ConfigStep, SetVin, Truncate, WriteVin, getTboxConfigInfo
  <2>2. replaced' \in BOOLEAN
    BY <1>3 DEF ConfigStep, SetVin, Truncate, WriteVin, getTboxConfigInfo, TypeOK,
                FlagTypes
  <2>3. FlagTypes'
    BY <2>1, <2>2 DEF session, login, promise, world, TypeOK, FlagTypes
  <2>4. DataTypes'
    BY <1>3, <2>1 DEF ConfigStep, SetVin, Truncate, WriteVin, getTboxConfigInfo,
                      session, login, promise, pool, world, TypeOK, DataTypes
  <2> QED
    BY <2>3, <2>4 DEF TypeOK
<1>4. CASE NewDay \/ UNCHANGED vars
  <2>1. /\ UNCHANGED <<boot, session>> /\ UNCHANGED <<pool, config>>
        /\ UNCHANGED <<restarts, interrupted>> /\ today' \in 1..Days
    BY <1>4 DEF NewDay, vars, world, TypeOK, DataTypes
  <2>2. FlagTypes'
    BY <2>1 DEF session, login, promise, config, TypeOK, FlagTypes
  <2>3. DataTypes'
    BY <2>1 DEF session, login, promise, pool, config, TypeOK, DataTypes
  <2> QED
    BY <2>2, <2>3 DEF TypeOK
<1>5. CASE Restart \/ FactoryReset
  BY <1>5, TypeReborn
<1> QED
  BY <1>1, <1>2, <1>3, <1>4, <1>5 DEF Next

-----------------------------------------------------------------------------
(* The login number                                                        *)

\* The number that is counted next is above that of the last login: it is
\* another day's, or the next of the same day, or the limit has been reached.
LEMMA NextIsBeyond ==
    ASSUME TypeOK, Numbered, boot = "up"
    PROVE  \/ setBack \/ AtLimit
           \/ today > lastLogin[1]
           \/ today = lastLogin[1] /\ NextSerial > lastLogin[2]
<1> DEFINE d == handle.day
           n == handle.serial
           a == lastLogin[1]
           b == lastLogin[2]
<1>1. d \in 0..Days /\ n \in 0..MaxSerial+1
  BY DEF TypeOK, DataTypes, Handle
<1>2. a \in 0..Days /\ b \in 0..MaxSerial+1 /\ today \in 1..Days
  BY DEF TypeOK, DataTypes
<1>3. setBack \/ d > a \/ (d = a /\ n >= b)
  BY DEF Numbered, Ahead
<1>4. d <= today
  BY DEF Numbered
<1>5. d = today /\ ~AtLimit => NextSerial = n + 1
  BY DEF NextSerial
<1> HIDE DEF d, n, a, b
<1>6. setBack \/ AtLimit \/ today > a \/ (today = a /\ NextSerial > b)
  <2>1. CASE d = today
    BY <1>1, <1>2, <1>3, <1>5, <2>1
  <2>2. CASE d # today
    BY <1>1, <1>2, <1>3, <1>4, <2>2
  <2> QED
    BY <2>1, <2>2
<1> QED
  BY <1>6 DEF a, b

\* What Count leaves in memory.
LEMMA Counted ==
    ASSUME TypeOK, Count
    PROVE  /\ handle'.par = handle.par
           /\ handle'.day = today /\ handle'.serial = NextSerial
           /\ today \in 1..Days
<1>1. handle \in Handle /\ today \in 1..Days
  BY DEF TypeOK, DataTypes
<1>2. handle' = [handle EXCEPT !.day = today, !.serial = NextSerial]
  BY DEF Count
<1> QED
  BY <1>1, <1>2 DEF Handle

\* What a set command leaves in memory.
LEMMA Changed ==
    ASSUME TypeOK, NEW p \in {"default", "new"}, ChangeParams(p)
    PROVE  /\ handle'.par = p
           /\ handle'.day = handle.day /\ handle'.serial = handle.serial
<1>1. handle \in Handle
  BY DEF TypeOK, DataTypes
<1>2. handle' = [handle EXCEPT !.par = p]
  BY DEF ChangeParams
<1> QED
  BY <1>1, <1>2 DEF Handle

LEMMA InitSession == Init => SessionInv
  BY DEF Init, SessionInv, Started, Numbered, Ahead, SettingsInv, SettingsOwed,
         Told, SettingsSurvive, BlankFile, BlankOnlyInterrupted, Zero, NoFile

LEMMA SessionFrame ==
    ASSUME SessionStep
    PROVE  UNCHANGED <<today, restarts, interrupted>> /\ UNCHANGED <<pool, config>>
  BY DEF SessionStep, ReadHandle, InitHandle, Dial, Count, Save, LogIn,
         Disconnect, ChangeParams, AnswerSet, AnswerFails, StoreParams,
         LoginNewServer, AnotherLogin, KeepParams, TellRefused, RevertFails,
         ReadBack, world

LEMMA StartedKept ==
    ASSUME TypeOK, Started, SessionStep
    PROVE  Started'
<1>1. handle # NoFile
  BY DEF TypeOK, DataTypes, Handle, Settings, NoFile
<1> USE DEF Started, login, promise
<1>2. CASE ReadHandle \/ InitHandle
  BY <1>2 DEF ReadHandle, InitHandle, Zero, Factory, NoFile, TypeOK, DataTypes
<1>3. CASE Dial \/ Count \/ Save \/ LogIn \/ Disconnect
  BY <1>1, <1>3 DEF Dial, Count, Save, LogIn, Disconnect, TypeOK, DataTypes
<1>4. CASE \E p \in {"default", "new"} : ChangeParams(p)
  BY <1>1, <1>4 DEF ChangeParams, TypeOK, DataTypes
<1>5. CASE AnswerSet \/ AnswerFails \/ StoreParams
  BY <1>1, <1>5 DEF AnswerSet, AnswerFails, StoreParams, TypeOK, DataTypes
<1>6. CASE LoginNewServer \/ AnotherLogin \/ KeepParams
  BY <1>1, <1>6 DEF LoginNewServer, AnotherLogin, KeepParams, TypeOK, DataTypes
<1>7. CASE TellRefused \/ RevertFails \/ ReadBack
  BY <1>7 DEF TellRefused, RevertFails, ReadBack, TypeOK, DataTypes
<1> QED
  BY <1>2, <1>3, <1>4, <1>5, <1>6, <1>7 DEF SessionStep

LEMMA NumberedKept ==
    ASSUME TypeOK, Started, Numbered, SessionStep
    PROVE  Numbered'
<1>1. today' = today
  BY SessionFrame
<1>2. boot # "up" => dial = "idle" /\ rx = "none"
  BY DEF Started
<1> USE DEF login, promise
<1>3. CASE ReadHandle \/ InitHandle
  <2>1. today \in Nat
    BY DEF TypeOK, DataTypes
  <2>2. dial' = "idle"
    BY <1>2, <1>3 DEF ReadHandle, InitHandle
  <2>3. CASE ReadHandle
    BY <1>1, <1>3, <2>1, <2>2, <2>3
       DEF ReadHandle, Numbered, Ahead, Zero, NoFile
  <2>4. CASE InitHandle
    BY <1>1, <1>3, <2>1, <2>2, <2>4
       DEF InitHandle, Started, Numbered, Ahead, Zero, Factory
  <2> QED
    BY <1>3, <2>3, <2>4
<1>4. CASE Dial
  BY <1>1, <1>4 DEF Dial, Numbered, Ahead, Beyond
<1>5. CASE Count
  <2>1. boot = "up" /\ boot' = "up" /\ dial' = "save" /\ file' = file
        /\ lastLogin' = lastLogin /\ setBack' = (setBack \/ AtLimit)
    BY <1>2, <1>5 DEF Count
  <2>2. /\ handle'.day = today /\ handle'.serial = NextSerial
        /\ today \in 1..Days
    BY <1>5, Counted
  <2>3. lastLogin[2] \in Nat /\ NextSerial \in Nat
    BY SerialBound DEF TypeOK, DataTypes
  <2>4. setBack' \/ today > lastLogin[1] \/ (today = lastLogin[1] /\ NextSerial > lastLogin[2])
    BY <2>1, NextIsBeyond
  <2>5. Beyond(handle)'
    BY <2>1, <2>2, <2>4 DEF Beyond
  <2>6. Ahead(handle)'
    BY <2>1, <2>2, <2>3, <2>4 DEF Ahead
  <2>7. Ahead(file)'
    BY <2>1 DEF Numbered, Ahead
  <2> QED
    BY <1>1, <2>1, <2>2, <2>5, <2>6, <2>7 DEF Numbered
<1>6. CASE Save
  BY <1>1, <1>2, <1>6 DEF Save, Numbered, Ahead, Beyond
<1>7. CASE LogIn
  <2>1. boot = "up" /\ boot' = "up" /\ dial' = "idle"
        /\ handle' = handle /\ file' = file
    BY <1>2, <1>7 DEF LogIn
  <2>2. file.day = handle.day /\ file.serial = handle.serial
    BY <1>7 DEF LogIn, Numbered
  <2>3. CASE link = "up"
    <3>1. lastLogin'[1] = handle.day /\ lastLogin'[2] = handle.serial
      BY <1>7, <2>3 DEF LogIn
    <3>2. handle.serial \in Nat
      BY DEF TypeOK, DataTypes, Handle
    <3>3. Ahead(handle)' /\ Ahead(file)'
      BY <2>1, <2>2, <3>1, <3>2 DEF Ahead
    <3> QED
      BY <1>1, <2>1, <3>3 DEF Numbered
  <2>4. CASE link # "up"
    BY <1>1, <1>7, <2>1, <2>4 DEF LogIn, Numbered, Ahead
  <2> QED
    BY <2>3, <2>4
<1>8. CASE Disconnect
  BY <1>1, <1>8 DEF Disconnect, Numbered, Ahead, Beyond
<1>9. ASSUME NEW p \in {"default", "new"}, ChangeParams(p)
      PROVE  Numbered'
  <2>1. handle'.day = handle.day /\ handle'.serial = handle.serial
    BY <1>9, Changed
  <2>2. boot = "up" /\ boot' = "up" /\ file' = handle /\ dial' = dial
        /\ lastLogin' = lastLogin /\ setBack' = setBack
    BY <1>2, <1>9 DEF ChangeParams
  <2> QED
    BY <1>1, <2>1, <2>2 DEF Numbered, Ahead, Beyond
<1>10. CASE AnswerSet \/ AnswerFails
  BY <1>1, <1>10 DEF AnswerSet, AnswerFails, Numbered, Ahead, Beyond
<1>11. CASE StoreParams \/ KeepParams
  BY <1>1, <1>2, <1>11 DEF StoreParams, KeepParams, Numbered, Ahead, Beyond
<1>12. CASE LoginNewServer \/ AnotherLogin
  BY <1>1, <1>12 DEF LoginNewServer, AnotherLogin, Numbered, Ahead, Beyond
<1>13. CASE TellRefused \/ RevertFails
  BY <1>1, <1>13 DEF TellRefused, RevertFails, Numbered, Ahead, Beyond
<1>14. CASE ReadBack
  <2>1. boot = "up" /\ boot' = "up" /\ handle' = file /\ file' = file
        /\ dial' = dial /\ lastLogin' = lastLogin
        /\ setBack' = (setBack \/ dial = "save")
    BY <1>2, <1>14 DEF ReadBack
  <2> QED
    BY <1>1, <2>1 DEF Numbered, Ahead, Beyond
<1> QED
  BY <1>3, <1>4, <1>5, <1>6, <1>7, <1>8, <1>9, <1>10, <1>11, <1>12, <1>13, <1>14
     DEF SessionStep

-----------------------------------------------------------------------------
(* The parameters of the connection                                        *)

LEMMA SettingsKept ==
    ASSUME TypeOK, Started, SettingsInv, SessionStep
    PROVE  SettingsInv'
<1>1. UNCHANGED <<today, restarts, interrupted>>
  BY SessionFrame
<1>2. boot # "up" => dial = "idle" /\ rx = "none" /\ link = "down"
  BY DEF Started
<1>3. boot \in {"read", "create", "up"}
  BY DEF TypeOK, DataTypes
<1> USE DEF SettingsInv, SettingsOwed, Told, SettingsSurvive, BlankFile,
            BlankOnlyInterrupted, login, promise
<1>4. CASE ReadHandle
  BY <1>1, <1>2, <1>4 DEF ReadHandle, Zero, NoFile
<1>5. CASE InitHandle
  BY <1>1, <1>2, <1>5 DEF InitHandle, Started, Zero, Factory
<1>6. CASE Dial
  BY <1>1, <1>6 DEF Dial
<1>7. CASE Count
  BY <1>1, <1>7, Counted DEF Count
<1>8. CASE Save
  BY <1>1, <1>2, <1>3, <1>8 DEF Save
<1>9. CASE LogIn
  BY <1>1, <1>9 DEF LogIn
<1>10. CASE Disconnect
  BY <1>1, <1>10 DEF Disconnect
<1>11. ASSUME NEW p \in {"default", "new"}, ChangeParams(p)
       PROVE  SettingsInv'
  <2>1. boot = "up" /\ boot' = "up" /\ file' = handle /\ rx' = "answer"
        /\ owed' = "none" /\ handle'.par = p
    BY <1>2, <1>11, Changed DEF ChangeParams
  <2> QED
    BY <1>1, <2>1
<1>12. CASE AnswerSet
  BY <1>1, <1>12 DEF AnswerSet
<1>13. CASE AnswerFails
  BY <1>1, <1>13 DEF AnswerFails
<1>14. CASE StoreParams
  BY <1>1, <1>2, <1>3, <1>14 DEF StoreParams
<1>15. CASE LoginNewServer \/ AnotherLogin
  BY <1>1, <1>15 DEF LoginNewServer, AnotherLogin
<1>16. CASE KeepParams
  BY <1>1, <1>2, <1>3, <1>16 DEF KeepParams
<1>17. CASE TellRefused \/ RevertFails
  BY <1>1, <1>17 DEF TellRefused, RevertFails
<1>18. CASE ReadBack
  BY <1>1, <1>2, <1>3, <1>18 DEF ReadBack
<1> QED
  BY <1>4, <1>5, <1>6, <1>7, <1>8, <1>9, <1>10, <1>11, <1>12, <1>13, <1>14, <1>15,
     <1>16, <1>17, <1>18 DEF SessionStep

LEMMA SessionReborn ==
    ASSUME TypeOK, SessionInv, Restart \/ FactoryReset
    PROVE  SessionInv'
<1>1. /\ boot' = "read" /\ link' = "down" /\ dial' = "idle" /\ rx' = "none"
      /\ handle' = Zero /\ today' = today
  BY DEF Restart, FactoryReset, Reborn
<1>2. today \in Nat
  BY DEF TypeOK, DataTypes
<1>3. Started' /\ SettingsSurvive' /\ BlankOnlyInterrupted'
  BY <1>1 DEF Started, SettingsSurvive, BlankOnlyInterrupted
<1>4. CASE Restart
  <2>1. /\ file' = file /\ lastLogin' = lastLogin /\ setBack' = setBack
        /\ owed' = owed /\ interrupted' = (interrupted \/ boot = "create")
        /\ cut' = (cut \/ (rx \in {"store", "storeServer"} /\ file.par # owed))
    BY <1>4 DEF Restart
  <2>2. Numbered'
    BY <1>1, <1>2, <2>1 DEF SessionInv, Numbered, Ahead, Zero
  <2>3. BlankFile' /\ SettingsOwed' /\ Told'
    BY <1>1, <2>1 DEF SessionInv, SettingsInv, BlankFile, SettingsOwed, Told
  <2> QED
    BY <1>3, <2>2, <2>3 DEF SessionInv, SettingsInv
<1>5. CASE FactoryReset
  <2>1. file' = NoFile /\ lastLogin' = <<0, 0>> /\ owed' = "none"
    BY <1>5 DEF FactoryReset
  <2>2. Numbered'
    BY <1>1, <1>2, <2>1 DEF Numbered, Ahead, Zero, NoFile
  <2>3. BlankFile' /\ SettingsOwed' /\ Told'
    BY <1>1, <2>1 DEF BlankFile, SettingsOwed, Told, NoFile
  <2> QED
    BY <1>3, <2>2, <2>3 DEF SessionInv, SettingsInv
<1> QED
  BY <1>4, <1>5

-----------------------------------------------------------------------------
(* The items and the configuration                                         *)

LEMMA InitPool == Init => PoolInv /\ VinInv
  BY DEF Init, PoolInv, ItemsSaved, VinInv, VinSaved

LEMMA PoolKept ==
    ASSUME TypeOK, PoolInv, PoolStep
    PROVE  PoolInv'
<1>1. para \in [Setters -> 0..1] /\ setter \in [Setters -> {"idle", "write"}]
  BY DEF TypeOK, DataTypes
<1>2. ASSUME NEW s \in Setters, updatePara(s)
      PROVE  PoolInv'
  BY <1>1, <1>2 DEF updatePara, PoolInv, ItemsSaved
<1>3. ASSUME NEW s \in Setters, NEW v \in 0..1, SetItem(s, v)
      PROVE  PoolInv'
  BY <1>1, <1>3 DEF SetItem, PoolInv, ItemsSaved
<1> QED
  BY <1>2, <1>3 DEF PoolStep

LEMMA VinKept ==
    ASSUME TypeOK, VinInv, ConfigStep
    PROVE  VinInv'
<1>1. mcu \in {"idle", "set", "write"}
  BY DEF TypeOK, DataTypes
<1> USE DEF VinInv, VinSaved
<1>2. ASSUME NEW v \in Vins, SetVin(v)
      PROVE  VinInv'
  BY <1>2 DEF SetVin
<1>3. CASE Truncate
  BY <1>3 DEF Truncate
<1>4. CASE WriteVin
  BY <1>4 DEF WriteVin
<1>5. CASE getTboxConfigInfo
  BY <1>1, <1>5 DEF getTboxConfigInfo
<1> QED
  BY <1>2, <1>3, <1>4, <1>5 DEF ConfigStep

LEMMA PoolReborn ==
    ASSUME TypeOK, PoolInv, VinInv, Restart \/ FactoryReset
    PROVE  PoolInv' /\ VinInv'
<1>1. Reborn
  BY DEF Restart, FactoryReset
<1>2. ItemsSaved /\ setter \in [Setters -> {"idle", "write"}]
      /\ paraFile \in [Setters -> 0..1]
  BY DEF PoolInv, TypeOK, DataTypes
<1>3. \A s \in Setters :
         paraFile[s] = IF setter[s] = "write" THEN paraFile[s] ELSE asked[s]
  BY <1>2 DEF ItemsSaved
<1>4. paraFile' = paraFile /\ para' = paraFile
      /\ asked' = [s \in Setters |->
                      IF setter[s] = "write" THEN paraFile[s] ELSE asked[s]]
  BY <1>1 DEF Reborn
<1>5. asked' = paraFile
  BY <1>2, <1>3, <1>4
<1>6. PoolInv'
  BY <1>4, <1>5 DEF PoolInv, ItemsSaved
<1>7. VinInv'
  BY <1>1 DEF Reborn, VinInv, VinSaved
<1> QED
  BY <1>6, <1>7

-----------------------------------------------------------------------------
(* The theorems                                                            *)

LEMMA InvInit == Init => Inv
  BY TypeInit, InitSession, InitPool DEF Inv

LEMMA InvStep == Inv /\ [Next]_vars => Inv'
<1> SUFFICES ASSUME Inv, [Next]_vars PROVE Inv'
  OBVIOUS
<1>1. TypeOK'
  BY TypeStep DEF Inv, SessionInv
<1>2. CASE SessionStep
  <2>1. SessionInv'
    BY <1>2, StartedKept, NumberedKept, SettingsKept DEF Inv, SessionInv
  <2>2. UNCHANGED <<pool, config>>
    BY <1>2, SessionFrame
  <2>3. PoolInv' /\ VinInv'
    BY <2>2 DEF Inv, PoolInv, ItemsSaved, VinInv, VinSaved, pool, config
  <2> QED
    BY <1>1, <2>1, <2>3 DEF Inv
<1>3. ASSUME UNCHANGED <<boot, session>>, today' >= today, today' \in Nat,
             interrupted' = interrupted
      PROVE  SessionInv'
  <2>1. Started' /\ SettingsInv'
    BY <1>3 DEF Inv, SessionInv, session, login, promise, Started, SettingsInv,
                SettingsOwed, Told, SettingsSurvive, BlankFile, BlankOnlyInterrupted
  <2>2. today \in Nat /\ handle.day \in Nat /\ file.day \in Nat
    BY DEF Inv, TypeOK, DataTypes, Handle, NoFile
  <2>3. Numbered'
    BY <1>3, <2>2 DEF Inv, SessionInv, session, login, promise, Numbered, Ahead, Beyond
  <2> QED
    BY <2>1, <2>3 DEF SessionInv
<1>4. today \in Nat
  BY DEF Inv, TypeOK, DataTypes
<1>5. CASE PoolStep
  <2>1. UNCHANGED <<boot, session, today, interrupted>> /\ UNCHANGED config
    BY <1>5 DEF PoolStep, updatePara, SetItem, world
  <2>2. VinInv'
    BY <2>1 DEF Inv, VinInv, VinSaved, config
  <2>3. SessionInv'
    BY <1>3, <1>4, <2>1
  <2> QED
    BY <1>1, <1>5, <2>2, <2>3, PoolKept DEF Inv
<1>6. CASE ConfigStep
  <2>1. UNCHANGED <<boot, session, today, interrupted>> /\ UNCHANGED pool
    BY <1>6 DEF ConfigStep, SetVin, Truncate, WriteVin, getTboxConfigInfo, world
  <2>2. PoolInv'
    BY <2>1 DEF Inv, PoolInv, ItemsSaved, pool
  <2>3. SessionInv'
    BY <1>3, <1>4, <2>1
  <2> QED
    BY <1>1, <1>6, <2>2, <2>3, VinKept DEF Inv
<1>7. CASE NewDay \/ UNCHANGED vars
  <2>1. /\ UNCHANGED <<boot, session, interrupted>> /\ UNCHANGED <<pool, config>>
        /\ today' = today + 1 \/ today' = today
    BY <1>7 DEF NewDay, vars, world
  <2>2. PoolInv' /\ VinInv'
    BY <2>1 DEF Inv, PoolInv, ItemsSaved, VinInv, VinSaved, pool, config
  <2>3. today' >= today /\ today' \in Nat
    BY <1>4, <2>1
  <2>4. SessionInv'
    BY <1>3, <2>1, <2>3
  <2> QED
    BY <1>1, <2>2, <2>4 DEF Inv
<1>8. CASE Restart \/ FactoryReset
  BY <1>1, <1>8, SessionReborn, PoolReborn DEF Inv
<1> QED
  BY <1>2, <1>5, <1>6, <1>7, <1>8 DEF Next

\* The variables keep their types: a start never reads a file that is not
\* there, and no login number passes the limit at which it starts again
\* (GBT32960.cpp:287-403, 490-576).
THEOREM TypeCorrect == Spec => []TypeOK
<1>1. Inv => TypeOK
  BY DEF Inv
<1> QED
  BY InvInit, InvStep, <1>1, PTL DEF Spec

\* Whichever threads set parameters, items and the VIN, and wherever the
\* process dies, the files hold what was promised, but for a death between the
\* answer and the store and a reader between the setting of the VIN and the
\* truncation (GBT32960.cpp:2563-2779, TBoxDataPool.cpp:214-365, 469-552).
THEOREM FilesCorrect == Spec => []FilesCurrent
<1>1. Inv => FilesCurrent
  BY DEF Inv, SessionInv, SettingsInv, PoolInv, VinInv, FilesCurrent
<1> QED
  BY InvInit, InvStep, <1>1, PTL DEF Spec

\* The numbers of the logins that are sent go up within a day, over any number
\* of deaths of the process between counting, saving and sending, as long as
\* none has been read back or has reached the limit (GBT32960.cpp:351-388).
THEOREM SerialCorrect == Spec => SerialFresh
<1>1. ASSUME Inv, LogIn, link = "up", ~setBack
      PROVE  \/ lastLogin'[1] > lastLogin[1]
             \/ lastLogin'[1] = lastLogin[1] /\ lastLogin'[2] > lastLogin[2]
  <2>1. lastLogin'[1] = handle.day /\ lastLogin'[2] = handle.serial
    BY <1>1 DEF LogIn
  <2>2. Beyond(handle)
    BY <1>1 DEF LogIn, Inv, SessionInv, Numbered
  <2> QED
    BY <1>1, <2>1, <2>2 DEF Beyond
<1>2. Inv /\ [Next]_vars =>
        [LogIn /\ link = "up" /\ ~setBack =>
            \/ lastLogin'[1] > lastLogin[1]
            \/ lastLogin'[1] = lastLogin[1] /\ lastLogin'[2] > lastLogin[2]]_vars
  BY <1>1
<1> QED
  BY InvInit, InvStep, <1>2, PTL DEF Spec, SerialFresh
=============================================================================
