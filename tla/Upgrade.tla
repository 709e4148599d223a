------------------------------ MODULE Upgrade ------------------------------
(***************************************************************************)
(* A new T-Box program that the MCU sends over the UART, and what keeps    *)
(* the T-Box alive when it is no good:                                     *)
(*   - mcuUart.cpp stores the pieces in /data/LteUpgrade.bin (new), checks *)
(*     the CRC and exits when the MCU confirms;                            *)
(*   - monitorTbox.c counts the tbox processes once a second and, when     *)
(*     there is none, runs monitor.sh: at first to install what is in new  *)
(*     or to start /data/tbox (app) again, after five times in vain to go  *)
(*     back to /data/backupTbox (backup);                                  *)
(*   - start_tbox runs the same script when the T-Box boots and starts the *)
(*     monitor 0.1 s later, without waiting for the script.                *)
(* The scripts run one command at a time. The process may die at any step, *)
(* and the power may be cut at any step: the files remain.                 *)
(***************************************************************************)
EXTENDS Integers, Sequences

CONSTANTS
    Versions,     \* programs the MCU may send
    First,        \* the one the T-Box leaves the factory with
    Broken,       \* those that end as soon as they are started
    Pieces,       \* pieces an image is sent in
    Tries,        \* starts in vain before the old version is restored (5)
    MaxImages,    \* bound: images announced
    MaxDeaths,    \* bound: crashes of the process and power cuts
    MaxTorn,      \* bound: pieces in a file more than the image has
    BootOverlap,  \* the monitor may count while the boot script still runs
    None          \* no image

ASSUME UpgradeAssumption ==
    /\ First \in Versions \ Broken /\ Broken \subseteq Versions
    /\ None \notin Versions
    /\ Pieces \in Nat \ {0} /\ Tries \in Nat \ {0}
    /\ MaxImages \in Nat /\ MaxDeaths \in Nat /\ MaxTorn \in Nat
    /\ BootOverlap \in BOOLEAN

Starters == {"boot", "monitor"}

VARIABLES
    app, backup, new,  \* the three files
    proc,              \* starter -> image its tbox process runs
    crc32,             \* starter -> image announced to that process
    script,            \* starter -> next command of its monitor.sh
    times,             \* monitorTbox: starts in a row without a process
    mcu,               \* the MCU: the image it sends, the piece, the stage
    images, deaths     \* counters of the bounds

files == <<app, backup, new>>
vars == <<app, backup, new, proc, crc32, script, times, mcu, images, deaths>>

NoFile == [image |-> None, pieces |-> <<>>]
Whole(v) == [image |-> v, pieces |-> [i \in 1..Pieces |-> i]]
Torn == 0   \* what a failed write() left of a piece

\* A file that stays up when it is started.
Runs(f) == \E v \in Versions \ Broken : f = Whole(v)

File == [image : Versions, pieces : Seq(0..Pieces)] \cup {NoFile}

Commands == {"done", "test", "testApp", "backup", "install", "run",
             "testBackup", "remove", "restore"}

TypeOK ==
    /\ app \in File /\ backup \in File /\ new \in File
    /\ proc \in [Starters -> Versions \cup {None}]
    /\ crc32 \in [Starters -> Versions \cup {None}]
    /\ script \in [Starters -> Commands \cup {"idle"}]
    /\ times \in 0..Tries
    /\ mcu \in [image : Versions, next : 1..Pieces+1,
                stage : {"idle", "sending", "good", "bad"}]
    /\ images \in 0..MaxImages /\ deaths \in 0..MaxDeaths

Init ==
    /\ app = Whole(First) /\ backup = NoFile /\ new = NoFile
    /\ proc = [s \in Starters |-> None]
    /\ crc32 = [s \in Starters |-> None]
    /\ script = [boot |-> "test", monitor |-> "idle"]
    /\ times = 0
    /\ mcu = [image |-> First, next |-> 1, stage |-> "idle"]
    /\ images = 0 /\ deaths = 0

NoProcess == \A s \in Starters : proc[s] = None

-----------------------------------------------------------------------------
(* The transfer. The MCU (outside the repository) sends the pieces in      *)
(* order and repeats what was not answered; it goes on when the process    *)
(* that answers is another one.                                            *)

\* unpack_MCU_SND_Upgrade_Info(): a file left over is removed.
UpgradeInfo(s, v) ==
    /\ proc[s] # None /\ images < MaxImages
    /\ new' = NoFile
    /\ crc32' = [crc32 EXCEPT ![s] = v]
    /\ mcu' = [image |-> v, next |-> 1, stage |-> "sending"]
    /\ images' = images + 1
    /\ UNCHANGED <<app, backup, proc, script, times, deaths>>

\* storageFile(): what is written goes to the end of the file.
Stored(f, v, piece) == [image |-> v, pieces |-> Append(f.pieces, piece)]

\* unpack_MCU_SND_Upgrade_Data(). An answer that is lost, or that says the
\* write failed, makes the MCU send the piece again.
UpgradeData(s, piece, answered) ==
    /\ proc[s] # None /\ mcu.stage = "sending" /\ mcu.next <= Pieces
    /\ piece \in {mcu.next, Torn} /\ (answered => piece # Torn)
    /\ Len(new.pieces) < Pieces + MaxTorn
    /\ new' = Stored(new, mcu.image, piece)
    /\ mcu' = IF answered THEN [mcu EXCEPT !.next = @ + 1] ELSE mcu
    /\ UNCHANGED <<app, backup, proc, crc32, script, times, images, deaths>>

\* Mutant of CrcMatches: the image is not compared.
CrcUnchecked(s) == crc32[s] # None /\ new.image = crc32[s]

\* crc == crc32: the file is the image that was announced.
CrcMatches(s) == crc32[s] # None /\ new = Whole(crc32[s])

\* unpack_MCU_SND_Upgrade_CMPL(): a file that does not match is removed.
UpgradeComplete(s) ==
    /\ proc[s] # None /\ mcu.stage = "sending" /\ mcu.next > Pieces
    /\ IF CrcMatches(s)
       THEN new' = new /\ mcu' = [mcu EXCEPT !.stage = "good"]
       ELSE new' = NoFile /\ mcu' = [mcu EXCEPT !.stage = "bad"]
    /\ UNCHANGED <<app, backup, proc, crc32, script, times, images, deaths>>

\* unpack_MCU_Upgrade_Check(): the MCU repeats the result; the process ends,
\* or removes the file.
UpgradeCheck(s) ==
    /\ proc[s] # None /\ mcu.stage \in {"good", "bad"}
    /\ mcu' = [mcu EXCEPT !.stage = "idle"]
    /\ IF mcu.stage = "good"
       THEN proc' = [proc EXCEPT ![s] = None] /\ new' = new
       ELSE proc' = proc /\ new' = NoFile
    /\ UNCHANGED <<app, backup, crc32, script, times, images, deaths>>

-----------------------------------------------------------------------------
(* monitorTbox.c                                                           *)

\* Mutant of MonitorCounts: the old version is never restored.
MonitorNeverGoesBack ==
    /\ script["monitor"] = "idle"
    /\ BootOverlap \/ script["boot"] = "done"
    /\ IF NoProcess
       THEN script' = [script EXCEPT !["monitor"] = "test"] /\ times' = times
       ELSE times' = 0 /\ script' = script
    /\ UNCHANGED <<files, proc, crc32, mcu, images, deaths>>

\* Mutant of MonitorCounts: a new image does not come before the old version.
MonitorCountsTimes ==
    /\ script["monitor"] = "idle"
    /\ BootOverlap \/ script["boot"] = "done"
    /\ IF NoProcess
       THEN /\ script' = [script EXCEPT !["monitor"] =
                  IF times < Tries THEN "test" ELSE "testBackup"]
            /\ times' = times
       ELSE times' = 0 /\ script' = script
    /\ UNCHANGED <<files, proc, crc32, mcu, images, deaths>>

\* Once a second: count the processes; with none, fork the script.
MonitorCounts ==
    /\ script["monitor"] = "idle"
    /\ BootOverlap \/ script["boot"] = "done"
    /\ IF NoProcess
       THEN /\ script' = [script EXCEPT !["monitor"] =
                  IF new # NoFile \/ times < Tries THEN "test" ELSE "testBackup"]
            /\ times' = times
       ELSE times' = 0 /\ script' = script
    /\ UNCHANGED <<files, proc, crc32, mcu, images, deaths>>

\* wait(): the script has ended.
MonitorCollects ==
    /\ script["monitor"] = "done"
    /\ script' = [script EXCEPT !["monitor"] = "idle"]
    /\ times' = IF times < Tries THEN times + 1 ELSE 0
    /\ UNCHANGED <<files, proc, crc32, mcu, images, deaths>>

-----------------------------------------------------------------------------
(* monitor.sh start 0 (test .. run) and start 1 (testBackup .. run). With  *)
(* set -e a command that fails ends the script.                            *)

Goto(s, command) ==
    /\ script' = [script EXCEPT ![s] = command]
    /\ UNCHANGED <<proc, crc32, times, mcu, images, deaths>>

Test(s) ==
    /\ script[s] = "test"
    /\ Goto(s, IF new # NoFile THEN "testApp" ELSE "run")
    /\ UNCHANGED files

\* [ -e $AppProgram ], after the chmod of the new program, which fails if
\* the file has gone.
TestApp(s) ==
    /\ script[s] = "testApp"
    /\ Goto(s, IF new = NoFile THEN "done"
               ELSE IF app # NoFile THEN "backup" ELSE "install")
    /\ UNCHANGED files

\* mv $AppProgram $BackupProgram
KeepBackup(s) ==
    /\ script[s] = "backup"
    /\ IF app = NoFile
       THEN Goto(s, "done") /\ UNCHANGED files
       ELSE /\ Goto(s, "install")
            /\ backup' = app /\ app' = NoFile /\ new' = new

\* mv $NewProgram $AppProgram
Install(s) ==
    /\ script[s] = "install"
    /\ IF new = NoFile
       THEN Goto(s, "done") /\ UNCHANGED files
       ELSE /\ Goto(s, "run")
            /\ app' = new /\ new' = NoFile /\ backup' = backup

\* Mutant of TestBackup: the backup is not looked for.
BackupUntested(s) ==
    /\ script[s] = "testBackup"
    /\ Goto(s, "remove")
    /\ UNCHANGED files

TestBackup(s) ==
    /\ script[s] = "testBackup"
    /\ Goto(s, IF backup # NoFile THEN "remove" ELSE "run")
    /\ UNCHANGED files

\* rm -rf $AppProgram
Remove(s) ==
    /\ script[s] = "remove"
    /\ Goto(s, "restore")
    /\ app' = NoFile /\ UNCHANGED <<backup, new>>

\* mv $BackupProgram $AppProgram
Restore(s) ==
    /\ script[s] = "restore"
    /\ IF backup = NoFile
       THEN Goto(s, "done") /\ UNCHANGED files
       ELSE /\ Goto(s, "run")
            /\ app' = backup /\ backup' = NoFile /\ new' = new

\* $AppProgram &: a program that is broken or cut short ends at once.
Run(s) ==
    /\ script[s] = "run"
    /\ script' = [script EXCEPT ![s] = "done"]
    /\ proc' = [proc EXCEPT ![s] = IF Runs(app) THEN app.image ELSE None]
    /\ crc32' = [crc32 EXCEPT ![s] = None]
    /\ UNCHANGED <<files, times, mcu, images, deaths>>

Script(s) ==
    \/ Test(s) \/ TestApp(s) \/ KeepBackup(s) \/ Install(s)
    \/ TestBackup(s) \/ Remove(s) \/ Restore(s) \/ Run(s)

-----------------------------------------------------------------------------
(* Failures                                                                *)

\* The process dies: a crash, or the pkill of a factory reset.
Dies(s) ==
    /\ proc[s] # None /\ deaths < MaxDeaths
    /\ proc' = [proc EXCEPT ![s] = None]
    /\ deaths' = deaths + 1
    /\ UNCHANGED <<files, crc32, script, times, mcu, images>>

\* The power is cut, or the T-Box reboots; start_tbox runs.
PowerCut ==
    /\ deaths < MaxDeaths
    /\ proc' = [s \in Starters |-> None]
    /\ script' = [boot |-> "test", monitor |-> "idle"]
    /\ times' = 0
    /\ deaths' = deaths + 1
    /\ UNCHANGED <<files, crc32, mcu, images>>

-----------------------------------------------------------------------------
Next ==
    \/ \E s \in Starters, v \in Versions : UpgradeInfo(s, v)
    \/ \E s \in Starters, piece \in 0..Pieces, answered \in BOOLEAN :
           UpgradeData(s, piece, answered)
    \/ \E s \in Starters : UpgradeComplete(s) \/ UpgradeCheck(s)
    \/ MonitorCounts \/ MonitorCollects
    \/ \E s \in Starters : Script(s)
    \/ \E s \in Starters : Dies(s)
    \/ PowerCut

Spec == Init /\ [][Next]_vars

\* The monitor is polled and a command of a script ends.
FairSpec ==
    /\ Spec
    /\ WF_vars(MonitorCounts) /\ WF_vars(MonitorCollects)
    /\ \A s \in Starters : WF_vars(Script(s))

-----------------------------------------------------------------------------
\* A program that stays up is among the three files at every moment: whatever
\* is installed, removed or cut short, the T-Box can be brought back
\* (monitor.sh:52-57, 69-76).
WorkingCopyKept == Runs(app) \/ Runs(backup) \/ Runs(new)

\* As long as no process dies, only whole images are installed, the MCU hears
\* good news only of a whole image, and a file it hears bad news of is gone
\* (mcuUart.cpp:4279-4300).
InstalledWhole ==
    deaths = 0 => /\ app \in {NoFile} \cup {Whole(v) : v \in Versions}
                  /\ mcu.stage = "good" => new = Whole(mcu.image)
                  /\ mcu.stage = "bad" => new = NoFile

\* A T-Box without a process has one again, whatever was installed: what does
\* not stay up is replaced by the backup (monitorTbox.c:41-78).
ServiceResumes == NoProcess ~> ~NoProcess

\* An image that is whole, that works and that the process left behind when it
\* ended runs, unless something dies again (monitor.sh:44-63).
ImageTakesOver ==
    \A v \in Versions \ Broken :
        (NoProcess /\ new = Whole(v) /\ deaths = MaxDeaths)
            ~> (\E s \in Starters : proc[s] = v)
=============================================================================
