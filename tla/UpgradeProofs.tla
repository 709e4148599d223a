--------------------------- MODULE UpgradeProofs ---------------------------
(***************************************************************************)
(* What holds of Upgrade for every set of programs, every number of pieces *)
(* and every number of crashes and power cuts: the types, and, when the    *)
(* monitor does not count before the boot script has ended, that a program *)
(* that stays up is always there.                                          *)
(***************************************************************************)
EXTENDS Upgrade, TLAPS

USE UpgradeAssumption

\* One script at a time: it runs only while no process does.
Quiet(s) == script[s] \in {"idle", "done"}
OneScript ==
    /\ script["monitor"] # "idle" => script["boot"] = "done"
    /\ \A s \in Starters : ~Quiet(s) => NoProcess

\* The files, between two commands.
FilesGood ==
    /\ backup # NoFile => Runs(backup)
    /\ new # NoFile /\ app # NoFile => Runs(app)
    /\ Runs(app) \/ Runs(backup)
    /\ \A s \in Starters : proc[s] # None => Runs(app)

\* What a script has tested is still so when it acts on it.
Tested ==
    \A s \in Starters :
        /\ script[s] = "backup" => Runs(app)
        /\ script[s] \in {"install", "restore"} => app = NoFile
        /\ script[s] = "remove" => Runs(backup)

Safe == OneScript /\ FilesGood /\ Tested

-----------------------------------------------------------------------------
\* A file that runs is a file.
LEMMA RunsIsFile == ~Runs(NoFile)
<1>1. \A v \in Versions \ Broken : Whole(v).image # NoFile.image
  BY DEF Whole, NoFile
<1> QED
  BY <1>1 DEF Runs

\* An image is a file, and appending a piece to a file gives one.
LEMMA WholeIsFile ==
    ASSUME NEW v \in Versions
    PROVE  Whole(v) \in File
<1>1. [i \in 1..Pieces |-> i] \in Seq(0..Pieces)
  <2>1. [i \in 1..Pieces |-> i] \in [1..Pieces -> 0..Pieces]
    OBVIOUS
  <2> QED
    BY <2>1
<1> QED
  BY <1>1 DEF Whole, File

LEMMA StoredIsFile ==
    ASSUME TypeOK, NEW piece \in 0..Pieces
    PROVE  Stored(new, mcu.image, piece) \in File
<1>1. mcu.image \in Versions
  BY DEF TypeOK
<1>2. new.pieces \in Seq(0..Pieces)
  <2>1. CASE new = NoFile
    BY <2>1 DEF NoFile
  <2>2. CASE new # NoFile
    BY <2>2 DEF TypeOK, File
  <2> QED
    BY <2>1, <2>2
<1>3. Append(new.pieces, piece) \in Seq(0..Pieces)
  BY <1>2
<1> QED
  BY <1>1, <1>3 DEF Stored, File

-----------------------------------------------------------------------------
(* Types                                                                   *)

LEMMA TypeInit == Init => TypeOK
<1> SUFFICES ASSUME Init PROVE TypeOK
  OBVIOUS
<1>1. Whole(First) \in File /\ NoFile \in File
  BY WholeIsFile DEF File
<1> QED
  BY <1>1 DEF Init, TypeOK, Starters, Commands

LEMMA TypeScript ==
    ASSUME TypeOK, NEW s \in Starters, Script(s)
    PROVE  TypeOK'
<1>1. NoFile \in File
  BY DEF File
<1>2. ASSUME NEW command \in Commands, Goto(s, command),
             app' \in File, backup' \in File, new' \in File
      PROVE  TypeOK'
  BY <1>2 DEF Goto, TypeOK, Commands
<1>3. CASE Test(s)
  BY <1>2, <1>3 DEF Test, TypeOK, files, Commands
<1>4. CASE TestApp(s)
  BY <1>2, <1>4 DEF TestApp, TypeOK, files, Commands
<1>5. CASE KeepBackup(s)
  BY <1>1, <1>2, <1>5 DEF KeepBackup, TypeOK, files, Commands
<1>6. CASE Install(s)
  BY <1>1, <1>2, <1>6 DEF Install, TypeOK, files, Commands
<1>7. CASE TestBackup(s)
  BY <1>2, <1>7 DEF TestBackup, TypeOK, files, Commands
<1>8. CASE Remove(s)
  BY <1>1, <1>2, <1>8 DEF Remove, TypeOK, files, Commands
<1>9. CASE Restore(s)
  BY <1>1, <1>2, <1>9 DEF Restore, TypeOK, files, Commands
<1>10. CASE Run(s)
  <2>1. Runs(app) => app.image \in Versions
    BY DEF Runs, Whole
  <2>2. /\ proc' \in [Starters -> Versions \cup {None}]
        /\ crc32' \in [Starters -> Versions \cup {None}]
        /\ script' \in [Starters -> Commands \cup {"idle"}]
    BY <1>10, <2>1 DEF Run, TypeOK, Commands
  <2> QED
    BY <1>10, <2>2 DEF Run, TypeOK, files
<1> QED
  BY <1>3, <1>4, <1>5, <1>6, <1>7, <1>8, <1>9, <1>10 DEF Script

LEMMA TypeStep == TypeOK /\ [Next]_vars => TypeOK'
<1> SUFFICES ASSUME TypeOK, [Next]_vars PROVE TypeOK'
  OBVIOUS
<1>1. NoFile \in File
  BY DEF File
<1>2. ASSUME NEW s \in Starters, NEW v \in Versions, UpgradeInfo(s, v)
      PROVE  TypeOK'
  BY <1>1, <1>2 DEF UpgradeInfo, TypeOK
<1>3. ASSUME NEW s \in Starters, NEW piece \in 0..Pieces,
             NEW answered \in BOOLEAN, UpgradeData(s, piece, answered)
      PROVE  TypeOK'
  <2>1. new' \in File
    BY <1>3, StoredIsFile DEF UpgradeData
  <2>2. mcu' \in [image : Versions, next : 1..Pieces+1,
                  stage : {"idle", "sending", "good", "bad"}]
    BY <1>3 DEF UpgradeData, TypeOK
  <2> QED
    BY <1>3, <2>1, <2>2 DEF UpgradeData, TypeOK
<1>4. ASSUME NEW s \in Starters, UpgradeComplete(s) PROVE TypeOK'
  BY <1>1, <1>4 DEF UpgradeComplete, TypeOK
<1>5. ASSUME NEW s \in Starters, UpgradeCheck(s) PROVE TypeOK'
  BY <1>1, <1>5 DEF UpgradeCheck, TypeOK
<1>6. CASE MonitorCounts
  BY <1>6 DEF MonitorCounts, TypeOK, files, Commands, Starters
<1>7. CASE MonitorCollects
  BY <1>7 DEF MonitorCollects, TypeOK, files, Starters
<1>8. ASSUME NEW s \in Starters, Script(s) PROVE TypeOK'
  BY <1>8, TypeScript
<1>9. ASSUME NEW s \in Starters, Dies(s) PROVE TypeOK'
  BY <1>9 DEF Dies, TypeOK, files
<1>10. CASE PowerCut
  BY <1>10 DEF PowerCut, TypeOK, files, Commands, Starters
<1>11. CASE UNCHANGED vars
  BY <1>11 DEF vars, TypeOK
<1> QED
  BY <1>2, <1>3, <1>4, <1>5, <1>6, <1>7, <1>8, <1>9, <1>10, <1>11 DEF Next

\* The variables keep their types, whatever is sent, crashes or is cut.
THEOREM TypeCorrect == Spec => []TypeOK
  BY TypeInit, TypeStep, PTL DEF Spec

-----------------------------------------------------------------------------
(* The working copy                                                        *)

LEMMA SafeInit == Init => Safe
<1> SUFFICES ASSUME Init PROVE Safe
  OBVIOUS
<1>1. Runs(app)
  BY DEF Init, Runs
<1>2. OneScript
  BY DEF Init, OneScript, Quiet, NoProcess, Starters
<1>3. FilesGood
  BY <1>1 DEF Init, FilesGood, Starters
<1>4. Tested
  BY DEF Init, Tested, Starters
<1> QED
  BY <1>2, <1>3, <1>4 DEF Safe

\* While a process runs no script does anything.
LEMMA ProcessQuiet ==
    ASSUME Safe, NEW s \in Starters, proc[s] # None
    PROVE  \A t \in Starters : Quiet(t)
  BY DEF Safe, OneScript, NoProcess

\* A command of a script that runs no process: the other script is quiet.
LEMMA SafeGoto ==
    ASSUME TypeOK, Safe, NEW s \in Starters, ~Quiet(s),
           NEW command \in Commands, Goto(s, command), FilesGood',
           command = "backup" => Runs(app'),
           command \in {"install", "restore"} => app' = NoFile,
           command = "remove" => Runs(backup)'
    PROVE  Safe'
<1>1. \A t \in Starters \ {s} : Quiet(t)
  BY DEF Safe, OneScript, Quiet, Starters
<1>2. script'[s] = command /\ \A t \in Starters \ {s} : script'[t] = script[t]
  BY DEF Goto, TypeOK
<1>3. NoProcess /\ NoProcess'
  BY DEF Goto, Safe, OneScript, NoProcess
<1>4. OneScript'
  <2>1. (script["monitor"] # "idle" => script["boot"] = "done")'
    <3>1. CASE s = "monitor"
      BY <3>1, <1>2 DEF Safe, OneScript, Quiet, Starters
    <3>2. CASE s = "boot"
      BY <3>2, <1>2 DEF Safe, OneScript, Quiet, Starters
    <3> QED
      BY <3>1, <3>2 DEF Starters
  <2> QED
    BY <2>1, <1>3 DEF OneScript
<1>5. Tested'
  <2> SUFFICES ASSUME NEW t \in Starters
               PROVE  (/\ script[t] = "backup" => Runs(app)
                       /\ script[t] \in {"install", "restore"} => app = NoFile
                       /\ script[t] = "remove" => Runs(backup))'
    BY DEF Tested
  <2>1. CASE t = s
    BY <2>1, <1>2 DEF Runs
  <2>2. CASE t # s
    BY <2>2, <1>1, <1>2 DEF Quiet
  <2> QED
    BY <2>1, <2>2
<1> QED
  BY <1>4, <1>5 DEF Safe

\* The files and the processes are as before, and so are they good.
LEMMA FilesKept ==
    ASSUME FilesGood, UNCHANGED <<app, backup, new>>,
           \A s \in Starters : proc'[s] = None \/ proc'[s] = proc[s]
    PROVE  FilesGood'
  BY DEF FilesGood, Runs

LEMMA SafeScript ==
    ASSUME TypeOK, Safe, NEW s \in Starters, Script(s)
    PROVE  Safe'
<1>1. ~Quiet(s)
  BY DEF Script, Quiet, Test, TestApp, KeepBackup, Install, TestBackup, Remove,
         Restore, Run
<1>2. NoProcess
  BY <1>1 DEF Safe, OneScript
<1>3. CASE Test(s)
  <2>1. FilesGood'
    BY <1>3, FilesKept DEF Test, Goto, files, Safe
  <2> QED
    BY <1>1, <1>3, <2>1, SafeGoto DEF Test, Commands
<1>4. CASE TestApp(s)
  <2>1. FilesGood'
    BY <1>4, FilesKept DEF TestApp, Goto, files, Safe
  <2>2. new # NoFile /\ app # NoFile => Runs(app')
    BY <1>4 DEF TestApp, files, Safe, FilesGood
  <2> QED
    BY <1>1, <1>4, <2>1, <2>2, SafeGoto DEF TestApp, Commands, files
<1>5. CASE KeepBackup(s)
  <2>1. Runs(app) /\ app # NoFile
    BY <1>5, RunsIsFile DEF KeepBackup, Safe, Tested
  <2>2. /\ Goto(s, "install")
        /\ backup' = app /\ app' = NoFile /\ new' = new
    BY <1>5, <2>1 DEF KeepBackup
  <2>3. FilesGood'
    BY <1>2, <2>1, <2>2 DEF FilesGood, Goto, NoProcess, Runs
  <2> QED
    BY <1>1, <2>2, <2>3, SafeGoto DEF Commands
<1>6. CASE Install(s)
  <2>1. Runs(backup)
    BY <1>6, RunsIsFile DEF Install, Safe, Tested, FilesGood
  <2>2. backup' = backup /\ (new' = NoFile \/ app' = NoFile)
    BY <1>6 DEF Install, files, Safe, Tested
  <2>3. FilesGood'
    <3>1. proc' = proc
      BY <1>6 DEF Install, Goto
    <3> QED
      BY <1>2, <2>1, <2>2, <3>1 DEF FilesGood, NoProcess, Runs
  <2> QED
    BY <1>1, <1>6, <2>3, SafeGoto DEF Install, Commands
<1>7. CASE TestBackup(s)
  <2>1. FilesGood'
    BY <1>7, FilesKept DEF TestBackup, Goto, files, Safe
  <2>2. backup # NoFile => Runs(backup)'
    BY <1>7 DEF TestBackup, files, Safe, FilesGood, Runs
  <2> QED
    BY <1>1, <1>7, <2>1, <2>2, SafeGoto DEF TestBackup, Commands
<1>8. CASE Remove(s)
  <2>1. Runs(backup)
    BY <1>8 DEF Remove, Safe, Tested
  <2>2. FilesGood'
    BY <1>2, <1>8, <2>1 DEF Remove, Goto, FilesGood, NoProcess, Runs
  <2> QED
    BY <1>1, <1>8, <2>2, SafeGoto DEF Remove, Commands
<1>9. CASE Restore(s)
  <2>1. Runs(backup) /\ backup # NoFile
    BY <1>9, RunsIsFile DEF Restore, Safe, Tested, FilesGood
  <2>2. /\ Goto(s, "run")
        /\ app' = backup /\ backup' = NoFile /\ new' = new
    BY <1>9, <2>1 DEF Restore
  <2>3. FilesGood'
    BY <1>2, <2>1, <2>2 DEF FilesGood, Goto, NoProcess, Runs
  <2> QED
    BY <1>1, <2>2, <2>3, SafeGoto DEF Commands
<1>10. CASE Run(s)
  <2>1. script'[s] = "done"
        /\ \A t \in Starters \ {s} : script'[t] = script[t] /\ Quiet(t)
    BY <1>1, <1>10 DEF Run, TypeOK, Safe, OneScript, Quiet, Starters
  <2>2. \A t \in Starters : Quiet(t)'
    BY <2>1 DEF Quiet
  <2>3. OneScript'
    <3>1. (script["monitor"] # "idle" => script["boot"] = "done")'
      <4>1. CASE s = "boot"
        BY <4>1, <2>1
      <4>2. CASE s = "monitor"
        BY <4>2, <1>1, <2>1 DEF Safe, OneScript, Quiet, Starters
      <4> QED
        BY <4>1, <4>2 DEF Starters
    <3> QED
      BY <2>2, <3>1 DEF OneScript
  <2>4. Tested'
    BY <2>2 DEF Tested, Quiet
  <2>5. \A t \in Starters : proc'[t] # None => Runs(app)
    BY <1>2, <1>10 DEF Run, TypeOK, NoProcess
  <2>6. FilesGood'
    BY <1>10, <2>5 DEF Run, files, FilesGood, Safe, Runs
  <2> QED
    BY <2>3, <2>4, <2>6 DEF Safe
<1> QED
  BY <1>3, <1>4, <1>5, <1>6, <1>7, <1>8, <1>9, <1>10 DEF Script

\* A message of the MCU reaches a process: the scripts are quiet, and app runs.
LEMMA SafeMessage ==
    ASSUME Safe, NEW s \in Starters, proc[s] # None,
           UNCHANGED <<app, backup, script>>,
           \A t \in Starters : proc'[t] = None \/ proc'[t] = proc[t]
    PROVE  Safe'
<1>1. \A t \in Starters : Quiet(t) /\ Quiet(t)'
  BY ProcessQuiet DEF Quiet
<1>2. Runs(app)
  BY DEF Safe, FilesGood
<1>3. OneScript'
  BY <1>1 DEF OneScript, Safe
<1>4. FilesGood'
  BY <1>2 DEF Safe, FilesGood, Runs
<1>5. Tested'
  BY <1>1 DEF Tested, Quiet
<1> QED
  BY <1>3, <1>4, <1>5 DEF Safe

LEMMA SafeStep ==
    ASSUME ~BootOverlap
    PROVE  TypeOK /\ Safe /\ [Next]_vars => Safe'
<1> SUFFICES ASSUME TypeOK, Safe, [Next]_vars PROVE Safe'
  OBVIOUS
<1>1. ASSUME NEW s \in Starters, NEW v \in Versions, UpgradeInfo(s, v)
      PROVE  Safe'
  BY <1>1, SafeMessage DEF UpgradeInfo
<1>2. ASSUME NEW s \in Starters, NEW piece \in 0..Pieces,
             NEW answered \in BOOLEAN, UpgradeData(s, piece, answered)
      PROVE  Safe'
  BY <1>2, SafeMessage DEF UpgradeData
<1>3. ASSUME NEW s \in Starters, UpgradeComplete(s) PROVE Safe'
  BY <1>3, SafeMessage DEF UpgradeComplete
<1>4. ASSUME NEW s \in Starters, UpgradeCheck(s) PROVE Safe'
  <2>1. \A t \in Starters : proc'[t] = None \/ proc'[t] = proc[t]
    BY <1>4 DEF UpgradeCheck, TypeOK
  <2> QED
    BY <1>4, <2>1, SafeMessage DEF UpgradeCheck
<1>5. CASE MonitorCounts
  <2>1. FilesGood'
    BY <1>5, FilesKept DEF MonitorCounts, files, Safe
  <2>2. script["boot"] = "done" /\ Quiet("monitor") /\ proc' = proc
    BY <1>5 DEF MonitorCounts, Quiet
  <2>3. CASE NoProcess
    <3>1. /\ script'["boot"] = "done"
          /\ script'["monitor"] \in {"test", "testBackup"}
      BY <1>5, <2>2, <2>3 DEF MonitorCounts, TypeOK, Starters
    <3>2. OneScript'
      BY <2>2, <2>3, <3>1 DEF OneScript, NoProcess
    <3>3. Tested'
      BY <3>1 DEF Tested, Starters
    <3> QED
      BY <2>1, <3>2, <3>3 DEF Safe
  <2>4. CASE ~NoProcess
    <3>1. script' = script
      BY <1>5, <2>4 DEF MonitorCounts
    <3>2. OneScript'
      BY <2>2, <3>1 DEF Safe, OneScript, NoProcess, Quiet
    <3>3. Tested'
      BY <1>5, <3>1 DEF MonitorCounts, files, Safe, Tested, Runs
    <3> QED
      BY <2>1, <3>2, <3>3 DEF Safe
  <2> QED
    BY <2>3, <2>4
<1>6. CASE MonitorCollects
  <2>1. FilesGood'
    BY <1>6, FilesKept DEF MonitorCollects, files, Safe
  <2>2. script'["monitor"] = "idle" /\ script'["boot"] = script["boot"]
    BY <1>6 DEF MonitorCollects, TypeOK, Starters
  <2>3. script["boot"] = "done"
    BY <1>6 DEF MonitorCollects, Safe, OneScript
  <2>4. OneScript' /\ Tested'
    BY <2>2, <2>3 DEF OneScript, Tested, Quiet, Starters
  <2> QED
    BY <2>1, <2>4 DEF Safe
<1>7. ASSUME NEW s \in Starters, Script(s) PROVE Safe'
  BY <1>7, SafeScript
<1>8. ASSUME NEW s \in Starters, Dies(s) PROVE Safe'
  <2>1. \A t \in Starters : proc'[t] = None \/ proc'[t] = proc[t]
    BY <1>8 DEF Dies, TypeOK
  <2> QED
    BY <1>8, <2>1, SafeMessage DEF Dies, files
<1>9. CASE PowerCut
  <2>1. script'["boot"] = "test" /\ script'["monitor"] = "idle"
    BY <1>9 DEF PowerCut, Starters
  <2>2. \A s \in Starters : proc'[s] = None
    BY <1>9 DEF PowerCut
  <2>3. OneScript' /\ Tested'
    BY <2>1, <2>2 DEF OneScript, Tested, NoProcess, Starters
  <2>4. FilesGood'
    BY <1>9, <2>2, FilesKept DEF PowerCut, files, Safe
  <2> QED
    BY <2>3, <2>4 DEF Safe
<1>10. CASE UNCHANGED vars
  BY <1>10 DEF vars, Safe, OneScript, Quiet, NoProcess, FilesGood, Tested, Runs
<1> QED
  BY <1>1, <1>2, <1>3, <1>4, <1>5, <1>6, <1>7, <1>8, <1>9, <1>10 DEF Next

\* When the monitor starts counting only after the boot script has ended, a
\* program that stays up is among the three files at every moment, whatever
\* is sent and wherever the process dies or the power is cut.
THEOREM WorkingCopySafe ==
    ASSUME ~BootOverlap
    PROVE  Spec => []WorkingCopyKept
<1>1. Safe => WorkingCopyKept
  BY DEF Safe, FilesGood, WorkingCopyKept
<1>2. TypeOK /\ Safe /\ [Next]_vars => Safe'
  BY SafeStep
<1> QED
  BY TypeInit, TypeStep, SafeInit, <1>1, <1>2, PTL DEF Spec

-----------------------------------------------------------------------------
(* Whole images                                                            *)

\* The contents a file has when no process has died on the way.
IsWhole(f) == f = NoFile \/ \E v \in Versions : f = Whole(v)

\* What is stored belongs to the image the MCU sends; and while nothing dies,
\* a transfer has its process, and what a process leaves behind is whole.
OneImage == new # NoFile => new.image = mcu.image

Orderly ==
    /\ IsWhole(app) /\ IsWhole(backup)
    /\ NoProcess => IsWhole(new) /\ mcu.stage = "idle"
    /\ mcu.stage = "good" => new = Whole(mcu.image)
    /\ mcu.stage = "bad" => new = NoFile

WholeInv == OneImage /\ (deaths = 0 => Orderly)

LEMMA WholeInit == Init => WholeInv
<1> SUFFICES ASSUME Init PROVE WholeInv
  OBVIOUS
<1>1. IsWhole(app) /\ IsWhole(backup) /\ IsWhole(new)
  BY DEF Init, IsWhole
<1> QED
  BY <1>1 DEF Init, WholeInv, OneImage, Orderly

\* The MCU's messages to a process.
LEMMA WholeMessage ==
    ASSUME TypeOK, WholeInv, NEW s \in Starters,
           \/ \E v \in Versions : UpgradeInfo(s, v)
           \/ \E piece \in 0..Pieces, answered \in BOOLEAN :
                  UpgradeData(s, piece, answered)
           \/ UpgradeComplete(s)
    PROVE  WholeInv'
<1>1. proc[s] # None /\ UNCHANGED <<app, backup, proc, deaths>>
  BY DEF UpgradeInfo, UpgradeData, UpgradeComplete
<1>2. ~NoProcess'
  BY <1>1 DEF NoProcess
<1>3. SUFFICES /\ OneImage'
               /\ deaths = 0 => /\ mcu'.stage = "good" => new' = Whole(mcu'.image)
                                /\ mcu'.stage = "bad" => new' = NoFile
  BY <1>1, <1>2 DEF WholeInv, Orderly, IsWhole
<1>4. ASSUME NEW v \in Versions, UpgradeInfo(s, v)
      PROVE  OneImage' /\ mcu'.stage = "sending"
  BY <1>4 DEF UpgradeInfo, OneImage
<1>5. ASSUME NEW piece \in 0..Pieces, NEW answered \in BOOLEAN,
             UpgradeData(s, piece, answered)
      PROVE  OneImage' /\ mcu'.stage = "sending"
  <2>1. mcu'.image = mcu.image /\ mcu'.stage = "sending"
    BY <1>5 DEF UpgradeData, TypeOK
  <2>2. new'.image = mcu.image
    BY <1>5 DEF UpgradeData, Stored
  <2> QED
    BY <2>1, <2>2 DEF OneImage
<1>6. CASE UpgradeComplete(s)
  <2>1. mcu'.image = mcu.image
    BY <1>6 DEF UpgradeComplete, TypeOK
  <2>2. CASE CrcMatches(s)
    <3>1. new' = new /\ new = Whole(crc32[s]) /\ mcu'.stage = "good"
      BY <1>6, <2>2 DEF UpgradeComplete, CrcMatches, TypeOK
    <3>2. crc32[s] \in Versions
      BY <2>2 DEF CrcMatches, TypeOK
    <3>3. new # NoFile /\ new.image = crc32[s]
      BY <3>1, <3>2 DEF Whole, NoFile
    <3>4. crc32[s] = mcu.image
      BY <3>3 DEF WholeInv, OneImage
    <3>5. OneImage'
      BY <2>1, <3>1 DEF WholeInv, OneImage
    <3> QED
      BY <2>1, <3>1, <3>4, <3>5
  <2>3. CASE ~CrcMatches(s)
    BY <1>6, <2>3 DEF UpgradeComplete, TypeOK, OneImage
  <2> QED
    BY <2>2, <2>3
<1> QED
  BY <1>4, <1>5, <1>6

\* The process ends with the transfer.
LEMMA WholeCheck ==
    ASSUME TypeOK, WholeInv, NEW s \in Starters, UpgradeCheck(s)
    PROVE  WholeInv'
<1>1. mcu'.image = mcu.image /\ mcu'.stage = "idle"
      /\ UNCHANGED <<app, backup, deaths>>
  BY DEF UpgradeCheck, TypeOK
<1>2. OneImage'
  BY <1>1 DEF UpgradeCheck, WholeInv, OneImage
<1>3. ASSUME deaths = 0 PROVE IsWhole(new')
  <2>1. CASE mcu.stage = "good"
    BY <1>3, <2>1 DEF UpgradeCheck, WholeInv, Orderly, IsWhole, TypeOK
  <2>2. CASE mcu.stage # "good"
    BY <2>2 DEF UpgradeCheck, IsWhole
  <2> QED
    BY <2>1, <2>2
<1> QED
  BY <1>1, <1>2, <1>3 DEF WholeInv, Orderly, IsWhole

\* A script moves whole files about.
LEMMA WholeScript ==
    ASSUME TypeOK, Safe, WholeInv, NEW s \in Starters, Script(s)
    PROVE  WholeInv'
<1>1. ~Quiet(s)
  BY DEF Script, Quiet, Test, TestApp, KeepBackup, Install, TestBackup, Remove,
         Restore, Run
<1>2. NoProcess
  BY <1>1 DEF Safe, OneScript
<1>3. /\ UNCHANGED <<mcu, deaths>>
      /\ new' \in {new, NoFile}
      /\ app' \in {app, backup, new, NoFile}
      /\ backup' \in {app, backup, NoFile}
  BY DEF Script, Test, TestApp, KeepBackup, Install, TestBackup, Remove,
         Restore, Run, Goto, files
<1>4. OneImage'
  BY <1>3 DEF WholeInv, OneImage
<1>5. deaths = 0 => IsWhole(app') /\ IsWhole(backup') /\ IsWhole(new')
  BY <1>2, <1>3 DEF WholeInv, Orderly, IsWhole
<1>6. deaths = 0 => mcu.stage = "idle"
  BY <1>2 DEF WholeInv, Orderly
<1> QED
  BY <1>3, <1>4, <1>5, <1>6 DEF WholeInv, Orderly, IsWhole

LEMMA WholeStep == TypeOK /\ Safe /\ WholeInv /\ [Next]_vars => WholeInv'
<1> SUFFICES ASSUME TypeOK, Safe, WholeInv, [Next]_vars PROVE WholeInv'
  OBVIOUS
<1>1. ASSUME NEW s \in Starters, NEW v \in Versions, UpgradeInfo(s, v)
      PROVE  WholeInv'
  BY <1>1, WholeMessage
<1>2. ASSUME NEW s \in Starters, NEW piece \in 0..Pieces,
             NEW answered \in BOOLEAN, UpgradeData(s, piece, answered)
      PROVE  WholeInv'
  BY <1>2, WholeMessage
<1>3. ASSUME NEW s \in Starters, UpgradeComplete(s) PROVE WholeInv'
  BY <1>3, WholeMessage
<1>4. ASSUME NEW s \in Starters, UpgradeCheck(s) PROVE WholeInv'
  BY <1>4, WholeCheck
<1>5. ASSUME UNCHANGED <<app, backup, new, proc, mcu, deaths>> PROVE WholeInv'
  BY <1>5 DEF WholeInv, OneImage, Orderly, IsWhole, NoProcess
<1>6. CASE MonitorCounts \/ MonitorCollects \/ UNCHANGED vars
  BY <1>5, <1>6 DEF MonitorCounts, MonitorCollects, files, vars
<1>7. ASSUME NEW s \in Starters, Script(s) PROVE WholeInv'
  BY <1>7, WholeScript
<1>8. ASSUME PowerCut \/ \E s \in Starters : Dies(s) PROVE WholeInv'
  <2>1. deaths' # 0 /\ UNCHANGED <<new, mcu>>
    BY <1>8 DEF PowerCut, Dies, files, TypeOK
  <2> QED
    BY <2>1 DEF WholeInv, OneImage
<1> QED
  BY <1>1, <1>2, <1>3, <1>4, <1>6, <1>7, <1>8 DEF Next

\* As long as nothing dies, only images that are whole are installed, whatever
\* the MCU announces, sends, repeats and confirms (mcuUart.cpp:4161-4402,
\* monitor.sh): a transfer is checked before its process ends, and no script
\* moves a file while a process may still write to it.
THEOREM OnlyWholeInstalled ==
    ASSUME ~BootOverlap
    PROVE  Spec => []InstalledWhole
<1>1. TypeOK /\ Safe /\ WholeInv /\ [Next]_vars => (TypeOK /\ Safe /\ WholeInv)'
  BY TypeStep, SafeStep, WholeStep
<1>2. Init => TypeOK /\ Safe /\ WholeInv
  BY TypeInit, SafeInit, WholeInit
<1>3. WholeInv => InstalledWhole
  BY DEF WholeInv, Orderly, IsWhole, InstalledWhole
<1> QED
  BY <1>1, <1>2, <1>3, PTL DEF Spec
=============================================================================
