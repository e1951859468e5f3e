-------------------------- MODULE PgUpgradeProofs --------------------------
(***************************************************************************)
(* What nsctl db upgrade keeps, for any data, any faults and any number of *)
(* runs of the command: the directory is emptied of what the dump has, the *)
(* data stays within reach, and what the command reports is true.          *)
(***************************************************************************)
EXTENDS PgUpgrade, TLAPS

-----------------------------------------------------------------------------
(* The steps, by their places in AllSteps                                  *)

\* There are ten steps, and this is their order.
LEMMA Places ==
  /\ Len(AllSteps) = 10
  /\ AllSteps[1] = "pull"
  /\ AllSteps[2] = "remove-helper"
  /\ AllSteps[3] = "inventory"
  /\ AllSteps[4] = "backup"
  /\ AllSteps[5] = "dump"
  /\ AllSteps[6] = "check-dump"
  /\ AllSteps[7] = "wipe"
  /\ AllSteps[8] = "restore"
  /\ AllSteps[9] = "verify"
  /\ AllSteps[10] = "drop-dump"
  BY DEF AllSteps

\* No step comes twice: a step that is left is left at its place.
LEMMA LeftIs ==
  ASSUME TypeOK
  PROVE
    /\ Left("inventory") <=> 3 \in run.steps
    /\ Left("backup") <=> 4 \in run.steps
    /\ Left("dump") <=> 5 \in run.steps
    /\ Left("check-dump") <=> 6 \in run.steps
    /\ Left("wipe") <=> 7 \in run.steps
    /\ Left("restore") <=> 8 \in run.steps
    /\ Left("verify") <=> 9 \in run.steps
    /\ Left("drop-dump") <=> 10 \in run.steps
<1>1. run.steps \subseteq 1..10
  BY Places DEF TypeOK, Migrations
<1>2. \A i \in run.steps : i \in {1, 2, 3, 4, 5, 6, 7, 8, 9, 10}
  BY <1>1
<1> QED
  BY <1>2, Places DEF Left

\* So is a step that will be left.
LEMMA LeftWillBe ==
  ASSUME TypeOK'
  PROVE
    /\ Left("inventory")' <=> 3 \in run'.steps
    /\ Left("backup")' <=> 4 \in run'.steps
    /\ Left("dump")' <=> 5 \in run'.steps
    /\ Left("check-dump")' <=> 6 \in run'.steps
    /\ Left("wipe")' <=> 7 \in run'.steps
    /\ Left("restore")' <=> 8 \in run'.steps
    /\ Left("verify")' <=> 9 \in run'.steps
    /\ Left("drop-dump")' <=> 10 \in run'.steps
<1>1. run'.steps \subseteq 1..10
  BY Places DEF TypeOK, Migrations
<1>2. \A i \in run'.steps : i \in {1, 2, 3, 4, 5, 6, 7, 8, 9, 10}
  BY <1>1
<1> QED
  BY <1>2, Places DEF Left

\* The step at a place is the next one of a run.
At(i) == run.on /\ run.due = None /\ i \in run.steps /\ \A j \in run.steps : i <= j

\* It is done, and a stage is due.
Goes(i, stage, inv) ==
  /\ At(i) /\ said' = said
  /\ run' = [on |-> TRUE, steps |-> run.steps \ {i}, due |-> stage, inv |-> inv]

\* The step that is being done is the first that is left.
LEMMA DoingIs ==
  ASSUME TypeOK
  PROVE
    /\ Doing("pull") <=> At(1)
    /\ Doing("remove-helper") <=> At(2)
    /\ Doing("inventory") <=> At(3)
    /\ Doing("backup") <=> At(4)
    /\ Doing("dump") <=> At(5)
    /\ Doing("check-dump") <=> At(6)
    /\ Doing("wipe") <=> At(7)
    /\ Doing("restore") <=> At(8)
    /\ Doing("verify") <=> At(9)
    /\ Doing("drop-dump") <=> At(10)
<1>1. run.steps \subseteq 1..10
  BY Places DEF TypeOK, Migrations
<1>2. \A i \in run.steps : i \in {1, 2, 3, 4, 5, 6, 7, 8, 9, 10}
  BY <1>1
<1> QED
  BY <1>2, Places DEF Doing, NextIs, First, At

\* The stage at which each step is already done.
LEMMA DoneAts ==
  /\ DoneAt("pull") = 0 /\ DoneAt("remove-helper") = 0 /\ DoneAt("inventory") = 2
  /\ DoneAt("backup") = 1 /\ DoneAt("dump") = 3 /\ DoneAt("check-dump") = 4
  /\ DoneAt("wipe") = 3 /\ DoneAt("restore") = 4 /\ DoneAt("verify") = 5
  /\ DoneAt("drop-dump") = 0
  BY DEF DoneAt, None, BackedUp, Dumped, Wiped, Restored, Verified

\* What a plan has left to do of a migration that reached a stage.
LEMMA StepsIs ==
  ASSUME NEW stage \in Stages, NEW keepDump \in BOOLEAN
  PROVE  /\ Steps(stage, keepDump) \subseteq 1..Len(AllSteps)
         /\ 3 \in Steps(stage, keepDump) <=> stage < Dumped
         /\ 4 \in Steps(stage, keepDump) <=> stage < BackedUp
         /\ 5 \in Steps(stage, keepDump) <=> stage < Wiped
         /\ 6 \in Steps(stage, keepDump) <=> stage < Restored
         /\ 7 \in Steps(stage, keepDump) <=> stage < Wiped
         /\ 8 \in Steps(stage, keepDump) <=> stage < Restored
         /\ 9 \in Steps(stage, keepDump) <=> stage < Verified
<1>1. stage \in 0..5
  BY DEF Stages, None, Verified
<1>2. ASSUME NEW i \in 1..10, NEW n \in 1..5,
             AllSteps[i] # "drop-dump", DoneAt(AllSteps[i]) = n
      PROVE  i \in Steps(stage, keepDump) <=> stage < n
  <2>1. i \in Steps(stage, keepDump)
          <=> DoneAt(AllSteps[i]) = None \/ stage < DoneAt(AllSteps[i])
    BY <1>2, Places DEF Steps
  <2>2. n # None
    BY DEF None
  <2> QED
    BY <1>2, <2>1, <2>2
<1>3. 3 \in Steps(stage, keepDump) <=> stage < 2
  <2>1. AllSteps[3] # "drop-dump" /\ DoneAt(AllSteps[3]) = 2
    BY Places, DoneAts
  <2> QED
    BY <1>2, <2>1
<1>4. 4 \in Steps(stage, keepDump) <=> stage < 1
  <2>1. AllSteps[4] # "drop-dump" /\ DoneAt(AllSteps[4]) = 1
    BY Places, DoneAts
  <2> QED
    BY <1>2, <2>1
<1>5. 5 \in Steps(stage, keepDump) <=> stage < 3
  <2>1. AllSteps[5] # "drop-dump" /\ DoneAt(AllSteps[5]) = 3
    BY Places, DoneAts
  <2> QED
    BY <1>2, <2>1
<1>6. 6 \in Steps(stage, keepDump) <=> stage < 4
  <2>1. AllSteps[6] # "drop-dump" /\ DoneAt(AllSteps[6]) = 4
    BY Places, DoneAts
  <2> QED
    BY <1>2, <2>1
<1>7. 7 \in Steps(stage, keepDump) <=> stage < 3
  <2>1. AllSteps[7] # "drop-dump" /\ DoneAt(AllSteps[7]) = 3
    BY Places, DoneAts
  <2> QED
    BY <1>2, <2>1
<1>8. 8 \in Steps(stage, keepDump) <=> stage < 4
  <2>1. AllSteps[8] # "drop-dump" /\ DoneAt(AllSteps[8]) = 4
    BY Places, DoneAts
  <2> QED
    BY <1>2, <2>1
<1>9. 9 \in Steps(stage, keepDump) <=> stage < 5
  <2>1. AllSteps[9] # "drop-dump" /\ DoneAt(AllSteps[9]) = 5
    BY Places, DoneAts
  <2> QED
    BY <1>2, <2>1
<1>10. Steps(stage, keepDump) \subseteq 1..Len(AllSteps)
  BY DEF Steps
<1> QED
  BY <1>3, <1>4, <1>5, <1>6, <1>7, <1>8, <1>9, <1>10
  DEF BackedUp, Dumped, Wiped, Restored, Verified

\* A step that is done leaves the others, and the stage it led to due.
LEMMA RestIs ==
  ASSUME TypeOK, NEW i \in 1..10, At(i)
  PROVE  Rest = run.steps \ {i}
<1>1. run.steps \subseteq 1..10
  BY Places DEF TypeOK, Migrations
<1>2. \A j \in run.steps : First(j) <=> j = i
  BY <1>1 DEF First, At
<1> QED
  BY <1>2 DEF Rest

\* What is done of a run, by its place.
LEMMA DoneGoes ==
  ASSUME TypeOK, NEW i \in 1..10, At(i), NEW stage, Done(stage)
  PROVE  Goes(i, stage, run.inv)
<1>1. run' = [run EXCEPT !.steps = run.steps \ {i}, !.due = stage] /\ said' = said
  BY RestIs DEF Done
<1>2. run \in Migrations
  BY DEF TypeOK
<1>3. run.on = TRUE
  BY <1>2 DEF At
<1> QED
  BY <1>1, <1>2, <1>3 DEF Goes, Migrations

\* What a step does to a run: it goes on, or fails.
LEMMA StepsGo ==
  ASSUME TypeOK
  PROVE  /\ Pull => Goes(1, None, run.inv)
         /\ RemoveHelper => Goes(2, None, run.inv)
         /\ Inventory => Goes(3, None, live'.data)
         /\ Backup => At(4) /\ (Goes(4, BackedUp, run.inv) \/ Fails)
         /\ Dump => Goes(5, None, run.inv)
         /\ CheckDump => At(6) /\ IF dump.whole THEN Goes(6, Dumped, run.inv) ELSE Fails
         /\ Wipe => At(7) /\ (Goes(7, Wiped, run.inv) \/ Fails)
         /\ Restore => At(8) /\ (Goes(8, Restored, run.inv) \/ Fails)
         /\ Verify => At(9) /\ (Goes(9, Verified, run.inv) \/ Fails)
         /\ DropDump => Goes(10, None, run.inv)
<1>1. Inventory => Goes(3, None, live'.data)
  <2> SUFFICES ASSUME Inventory PROVE Goes(3, None, live'.data)
    OBVIOUS
  <2>1. At(3) /\ UNCHANGED said
    BY DoingIs DEF Inventory
  <2>2. run' = [run EXCEPT !.steps = run.steps \ {3}, !.inv = live'.data]
    <3>1. run' = [run EXCEPT !.steps = Rest, !.inv = live'.data]
      BY DEF Inventory
    <3>2. Rest = run.steps \ {3}
      BY <2>1, RestIs
    <3> QED
      BY <3>1, <3>2, Zenon
  <2>3. run \in Migrations
    BY DEF TypeOK
  <2>4. run.on = TRUE /\ run.due = None
    BY <2>1, <2>3 DEF At
  <2> QED
    BY <2>1, <2>2, <2>3, <2>4 DEF Goes, Migrations
<1> QED
  BY <1>1, DoingIs, DoneGoes
  DEF Pull, RemoveHelper, Backup, Dump, CheckDump, Wipe, Restore, Verify, DropDump

-----------------------------------------------------------------------------
(* Types                                                                   *)

\* A fault that happens is counted, and is one that may.
LEMMA FaultFits ==
  ASSUME TypeOK, NEW kind, Fault(kind)
  PROVE  /\ faults' \in [left : 0..MaxFaults, met : SUBSET Faults]
         /\ faults'.met = faults.met \cup {kind} /\ faults'.left = faults.left - 1
<1>1. faults \in [left : 0..MaxFaults, met : SUBSET Faults]
  BY DEF TypeOK
<1>2. /\ kind \in Faults /\ faults.left > 0
      /\ faults' = [left |-> faults.left - 1, met |-> faults.met \cup {kind}]
  BY DEF Fault
<1>3. MaxFaults \in Nat
  BY UpgradeAssumption
<1>4. faults.left - 1 \in 0..MaxFaults /\ faults.met \cup {kind} \in SUBSET Faults
  BY <1>1, <1>2, <1>3
<1> QED
  BY <1>2, <1>4

\* A run that goes on is one, and so is none.
LEMMA GoesFits ==
  ASSUME TypeOK, NEW i \in 1..10, NEW stage \in Stages, NEW inv \in Contents,
         Goes(i, stage, inv)
  PROVE  run' \in Migrations /\ said' \in {"quiet", "nothing", "failed", "migrated"}
  BY DEF TypeOK, Goes, Migrations

\* A run that fails is none.
LEMMA FailsFits ==
  ASSUME Fails
  PROVE  run' \in Migrations /\ said' \in {"quiet", "nothing", "failed", "migrated"}
<1>1. None \in Stages /\ {} \in Contents
  BY DEF Stages, None, Verified, Contents
<1> QED
  BY <1>1 DEF Fails, NoRun, Migrations

\* A directory that a server has initialised, or has had already.
LEMMA InitialisedFits ==
  ASSUME TypeOK, NEW major \in Majors
  PROVE  /\ Initialised(major) \in Directories
         /\ Initialised(major).data = IF live.major = "none" THEN {Base} ELSE live.data
         /\ Serves(major) => Initialised(major).major = major
<1>1. live \in Directories
  BY DEF TypeOK
<1> QED
  BY <1>1 DEF Initialised, Serves, Contents, Directories

\* A directory that a dump was replayed into serves the new major.
LEMMA ReplayedFits ==
  ASSUME TypeOK, NEW part \in SUBSET dump.data
  PROVE  /\ Replayed(part) \in Directories
         /\ Replayed(part).major = "new"
         /\ Replayed(part).data
              = ((IF live.major = "none" THEN {Base} ELSE live.data) \ dump.data)
                  \cup part \cup {Base}
<1>1. dump.data \in Contents
  BY DEF TypeOK
<1>2. "new" \in Majors
  BY DEF Majors
<1> QED
  BY <1>1, <1>2, InitialisedFits DEF Replayed, Contents, Directories

\* The stages, by number.
LEMMA StageNumbers ==
  /\ Stages = 0..5 /\ None = 0 /\ BackedUp = 1 /\ Dumped = 2
  /\ Wiped = 3 /\ Restored = 4 /\ Verified = 5
  BY DEF Stages, None, BackedUp, Dumped, Wiped, Restored, Verified

\* What the command is doing is typed again after each of its steps.
LEMMA StepsFit ==
  ASSUME TypeOK,
         \/ Pull \/ RemoveHelper \/ Inventory \/ Backup \/ Dump
         \/ CheckDump \/ Wipe \/ Restore \/ Verify \/ DropDump \/ NoServer
  PROVE  run' \in Migrations /\ said' \in {"quiet", "nothing", "failed", "migrated"}
<1>1. None \in Stages /\ BackedUp \in Stages /\ Dumped \in Stages /\ Wiped \in Stages
      /\ Restored \in Stages /\ Verified \in Stages
  BY StageNumbers
<1>2. run.inv \in Contents
  BY DEF TypeOK, Migrations
<1>3. Inventory => live'.data \in Contents
  <2>1. "old" \in Majors
    BY DEF Majors
  <2>2. Initialised("old") \in Directories
    BY <2>1, InitialisedFits
  <2> QED
    BY <2>2 DEF Inventory, Directories
<1>4. NoServer => Fails
  BY DEF NoServer
<1>5. CASE Pull
  BY <1>5, <1>1, <1>2, StepsGo, GoesFits, FailsFits
<1>6. CASE RemoveHelper
  BY <1>6, <1>1, <1>2, StepsGo, GoesFits, FailsFits
<1>7. CASE Inventory
  BY <1>7, <1>1, <1>3, StepsGo, GoesFits, FailsFits
<1>8. CASE Backup
  BY <1>8, <1>1, <1>2, StepsGo, GoesFits, FailsFits
<1>9. CASE Dump
  BY <1>9, <1>1, <1>2, StepsGo, GoesFits, FailsFits
<1>10. CASE CheckDump
  BY <1>10, <1>1, <1>2, StepsGo, GoesFits, FailsFits
<1>11. CASE Wipe
  BY <1>11, <1>1, <1>2, StepsGo, GoesFits, FailsFits
<1>12. CASE Restore
  BY <1>12, <1>1, <1>2, StepsGo, GoesFits, FailsFits
<1>13. CASE Verify
  BY <1>13, <1>1, <1>2, StepsGo, GoesFits, FailsFits
<1>14. CASE DropDump
  BY <1>14, <1>1, <1>2, StepsGo, GoesFits, FailsFits
<1>15. CASE NoServer
  BY <1>15, <1>4, FailsFits
<1> QED
  BY <1>5, <1>6, <1>7, <1>8, <1>9, <1>10, <1>11, <1>12, <1>13, <1>14, <1>15

\* Every step keeps the types, and that no stage is on record without a backup.
LEMMA TypeOKNext ==
  ASSUME TypeOK, Copied, [Next]_vars
  PROVE  TypeOK'
<1>0. None \in Stages /\ BackedUp \in Stages /\ Dumped \in Stages /\ Wiped \in Stages
      /\ Restored \in Stages /\ Verified \in Stages /\ "old" \in Majors /\ "new" \in Majors
      /\ {} \in Contents
  BY StageNumbers DEF Majors, Contents
<1> USE DEF volumes, user
<1>1. CASE NothingToDo
  BY <1>1, <1>0, FaultFits, InitialisedFits, ReplayedFits DEF NothingToDo, Fails, NoRun, NoManifest, NoDump, Empty, Broken, TypeOK, Copied, Directories, Migrations
<1>2. CASE Begin
  <2>1. PICK m \in {manifest, NoManifest}, again \in {manifest, NoManifest}, keepDump \in BOOLEAN :
          /\ UNCHANGED faults \/ Fault("unread")
          /\ run' = [on |-> TRUE, steps |-> Steps(m.stage, keepDump), due |-> None,
                     inv |-> again.inv]
    BY <1>2 DEF Begin
  <2>2. /\ m.stage \in Stages /\ again.inv \in Contents
        /\ faults \in [left : 0..MaxFaults, met : SUBSET Faults]
    <3>1. manifest.stage \in Stages /\ manifest.inv \in Contents
          /\ faults \in [left : 0..MaxFaults, met : SUBSET Faults]
      BY DEF TypeOK
    <3>2. NoManifest.stage \in Stages /\ NoManifest.inv \in Contents
      BY <1>0 DEF NoManifest
    <3>3. (m = manifest \/ m = NoManifest) /\ (again = manifest \/ again = NoManifest)
      OBVIOUS
    <3> QED
      BY <3>1, <3>2, <3>3
  <2>3. Steps(m.stage, keepDump) \in SUBSET (1..Len(AllSteps))
    BY <2>2, StepsIs
  <2>4. run' \in Migrations
    BY <1>0, <2>1, <2>2, <2>3 DEF Migrations
  <2>5. faults' \in [left : 0..MaxFaults, met : SUBSET Faults]
    BY <2>1, <2>2, FaultFits
  <2> QED
    BY <1>2, <2>4, <2>5 DEF Begin, TypeOK
<1>3. CASE Pull
  BY <1>3, <1>0, StepsFit, FaultFits, InitialisedFits, ReplayedFits DEF Pull, Fails, NoRun, NoManifest, NoDump, Empty, Broken, TypeOK, Copied, Directories, Migrations
<1>4. CASE RemoveHelper
  BY <1>4, <1>0, StepsFit, FaultFits, InitialisedFits, ReplayedFits DEF RemoveHelper, Fails, NoRun, NoManifest, NoDump, Empty, Broken, TypeOK, Copied, Directories, Migrations
<1>5. CASE Inventory
  BY <1>5, <1>0, StepsFit, FaultFits, InitialisedFits, ReplayedFits DEF Inventory, Fails, NoRun, NoManifest, NoDump, Empty, Broken, TypeOK, Copied, Directories, Migrations
<1>6. CASE Backup
  <2>1. faults' \in [left : 0..MaxFaults, met : SUBSET Faults]
    <3>1. UNCHANGED faults \/ Fault("copy")
      BY <1>6 DEF Backup
    <3> QED
      BY <3>1, FaultFits DEF TypeOK
  <2>2. backup' \in [is : {"nothing", "torn", "whole"}, data : Contents] /\ backup'.is # "nothing"
    BY <1>0, <1>6 DEF Backup, TypeOK, Directories, NoDump, NoManifest, Empty, Broken
  <2>3. run' \in Migrations /\ said' \in {"quiet", "nothing", "failed", "migrated"}
    BY <1>6, StepsFit
  <2>4. helper' \in Majors \cup {"none"}
    BY <1>6 DEF Backup, Fails, TypeOK
  <2> QED
    BY <1>6, <2>1, <2>2, <2>3, <2>4 DEF Backup, TypeOK
<1>7. CASE Dump
  <2>1. faults' \in [left : 0..MaxFaults, met : SUBSET Faults]
    <3>1. UNCHANGED faults \/ Fault("dump")
      BY <1>7 DEF Dump
    <3> QED
      BY <3>1, FaultFits DEF TypeOK
  <2>2. dump' \in [whole : BOOLEAN, data : Contents] /\ live' \in Directories
    <3>1. live' \in Directories
      BY <1>0, <1>7, InitialisedFits DEF Dump
    <3>2. live'.data \in Contents
      BY <3>1 DEF Directories
    <3>3. dump' \in {[whole |-> TRUE, data |-> live'.data], NoDump}
      BY <1>7 DEF Dump
    <3>4. CASE dump' = [whole |-> TRUE, data |-> live'.data]
      BY <3>1, <3>2, <3>4
    <3>5. CASE dump' = NoDump
      BY <1>0, <3>1, <3>5 DEF NoDump
    <3> QED
      BY <3>3, <3>4, <3>5
  <2>3. run' \in Migrations /\ said' \in {"quiet", "nothing", "failed", "migrated"}
    BY <1>7, StepsFit
  <2>4. helper' \in Majors \cup {"none"}
    BY <1>7 DEF Dump, Fails, TypeOK
  <2> QED
    BY <1>7, <2>1, <2>2, <2>3, <2>4 DEF Dump, TypeOK
<1>8. CASE CheckDump
  BY <1>8, <1>0, StepsFit, FaultFits, InitialisedFits, ReplayedFits DEF CheckDump, Fails, NoRun, NoManifest, NoDump, Empty, Broken, TypeOK, Copied, Directories, Migrations
<1>9. CASE Wipe
  <2>1. faults' \in [left : 0..MaxFaults, met : SUBSET Faults]
    <3>1. UNCHANGED faults \/ Fault("wipe")
      BY <1>9 DEF Wipe
    <3> QED
      BY <3>1, FaultFits DEF TypeOK
  <2>2. live' \in Directories
    <3>1. live' = live \/ live' = Empty \/ live' = Broken
      BY <1>9 DEF Wipe
    <3>2. Empty \in Directories /\ Broken \in Directories
      BY <1>0 DEF Directories, Empty, Broken
    <3> QED
      BY <3>1, <3>2 DEF TypeOK
  <2>3. run' \in Migrations /\ said' \in {"quiet", "nothing", "failed", "migrated"}
    BY <1>9, StepsFit
  <2>4. helper' \in Majors \cup {"none"}
    BY <1>9 DEF Wipe, Fails, TypeOK
  <2> QED
    BY <1>9, <2>1, <2>2, <2>3, <2>4 DEF Wipe, TypeOK
<1>10. CASE Restore
  BY <1>10, <1>0, StepsFit, FaultFits, InitialisedFits, ReplayedFits DEF Restore, Fails, NoRun, NoManifest, NoDump, Empty, Broken, TypeOK, Copied, Directories, Migrations
<1>11. CASE Verify
  BY <1>11, <1>0, StepsFit, FaultFits, InitialisedFits, ReplayedFits DEF Verify, Fails, NoRun, NoManifest, NoDump, Empty, Broken, TypeOK, Copied, Directories, Migrations
<1>12. CASE DropDump
  <2>1. faults' \in [left : 0..MaxFaults, met : SUBSET Faults]
    <3>1. UNCHANGED faults \/ Fault("kept")
      BY <1>12 DEF DropDump
    <3> QED
      BY <3>1, FaultFits DEF TypeOK
  <2>2. /\ dump' \in [whole : BOOLEAN, data : Contents]
        /\ manifest' \in [stage : Stages, inv : Contents]
        /\ manifest'.stage >= BackedUp => backup'.is # "nothing"
    <3>1. CASE dump' = NoDump /\ manifest' = NoManifest
      BY <1>0, <3>1, StageNumbers DEF NoDump, NoManifest
    <3>2. CASE UNCHANGED <<dump, manifest>>
      BY <1>12, <3>2 DEF DropDump, TypeOK
    <3> QED
      BY <1>12, <3>1, <3>2 DEF DropDump
  <2>3. run' \in Migrations /\ said' \in {"quiet", "nothing", "failed", "migrated"}
    BY <1>12, StepsFit
  <2>4. helper' \in Majors \cup {"none"}
    BY <1>12 DEF DropDump, Fails, TypeOK
  <2> QED
    BY <1>12, <2>1, <2>2, <2>3, <2>4 DEF DropDump, TypeOK
<1>13. CASE NoServer
  BY <1>13, <1>0, StepsFit, FaultFits, InitialisedFits, ReplayedFits DEF NoServer, Fails, NoRun, NoManifest, NoDump, Empty, Broken, TypeOK, Copied, Directories, Migrations
<1>14. CASE Record
  <2>1. CASE /\ manifest' = [stage |-> run.due, inv |-> run.inv]
             /\ run' = [run EXCEPT !.due = None]
             /\ UNCHANGED <<said, helper, faults>>
    <3>1. run \in Migrations /\ run' \in Migrations
      BY <1>0, <2>1 DEF TypeOK, Migrations
    <3>2. manifest' \in [stage : Stages, inv : Contents]
      BY <2>1, <3>1 DEF Migrations
    <3>3. backup.is # "nothing"
      BY <1>14 DEF Record, Copied
    <3> QED
      BY <1>14, <2>1, <3>1, <3>2, <3>3 DEF Record, TypeOK
  <2>2. CASE manifest' = NoManifest /\ Fault("manifest") /\ Fails
    <3>1. manifest' \in [stage : Stages, inv : Contents] /\ manifest'.stage < BackedUp
      BY <1>0, <2>2, StageNumbers DEF NoManifest
    <3> QED
      BY <1>14, <2>2, <3>1, FaultFits, FailsFits, StageNumbers DEF Record, Fails, TypeOK
  <2> QED
    BY <1>14, <2>1, <2>2 DEF Record
<1>15. CASE Finish
  BY <1>15, <1>0, FaultFits, InitialisedFits, ReplayedFits DEF Finish, Fails, NoRun, NoManifest, NoDump, Empty, Broken, TypeOK, Copied, Directories, Migrations
<1>16. CASE Interrupt
  BY <1>16, <1>0, FaultFits, InitialisedFits, ReplayedFits DEF Interrupt, Fails, NoRun, NoManifest, NoDump, Empty, Broken, TypeOK, Copied, Directories, Migrations
<1>17. ASSUME NEW major \in Majors, StartPlatform(major)
       PROVE  TypeOK'
  BY <1>17, <1>0, FaultFits, InitialisedFits, ReplayedFits DEF StartPlatform, Fails, NoRun, NoManifest, NoDump, Empty, Broken, TypeOK, Copied, Directories, Migrations
<1>18. CASE StopPlatform
  BY <1>18, <1>0, FaultFits, InitialisedFits, ReplayedFits DEF StopPlatform, Fails, NoRun, NoManifest, NoDump, Empty, Broken, TypeOK, Copied, Directories, Migrations
<1>19. ASSUME NEW o \in Objects, Use(o)
       PROVE  TypeOK'
  <2>1. uses < MaxUses /\ uses' = uses + 1
    BY <1>19 DEF Use
  <2>2. uses' \in 0..MaxUses
    BY <2>1, UpgradeAssumption DEF TypeOK
  <2>3. held' \in Contents
    BY <1>19 DEF Use, TypeOK, Contents
  <2>4. live' \in Directories
    BY <1>19, <2>3 DEF Use, TypeOK, Directories
  <2> QED
    BY <1>19, <2>2, <2>3, <2>4 DEF Use, TypeOK
<1>20. CASE RollBack
  BY <1>20, <1>0, FaultFits, InitialisedFits, ReplayedFits DEF RollBack, Fails, NoRun, NoManifest, NoDump, Empty, Broken, TypeOK, Copied, Directories, Migrations
<1>21. CASE UNCHANGED vars
  BY <1>21 DEF vars, TypeOK
<1> QED
  BY <1>1, <1>2, <1>3, <1>4, <1>5, <1>6, <1>7, <1>8, <1>9, <1>10, <1>11, <1>12, <1>13, <1>14, <1>15, <1>16, <1>17, <1>18, <1>19, <1>20, <1>21 DEF Next, Command, User
-----------------------------------------------------------------------------
(* The invariant, part by part                                             *)

\* What has happened has happened, so that what is promised only shrinks.
LEMMA PromisesFade ==
  ASSUME TypeOK, [Next]_vars
  PROVE  /\ uses = 0 \/ uses' # 0
         /\ faults.met \subseteq faults'.met
<1>1. faults.met \subseteq faults'.met
  <2>1. UNCHANGED faults \/ \E kind \in AllFaults : Fault(kind)
    BY UpgradeAssumption
    DEF Next, Command, User, NothingToDo, Begin, Pull, RemoveHelper, Inventory, Backup,
        Dump, CheckDump, Wipe, Restore, Verify, DropDump, NoServer, Record, Finish,
        Interrupt, StartPlatform, StopPlatform, Use, RollBack, vars, AllFaults
  <2> QED
    BY <2>1, FaultFits
<1>2. uses = 0 \/ uses' # 0
  <2>1. UNCHANGED uses \/ uses' = uses + 1
    BY DEF Next, Command, User, NothingToDo, Begin, Pull, RemoveHelper, Inventory, Backup,
        Dump, CheckDump, Wipe, Restore, Verify, DropDump, NoServer, Record, Finish,
        Interrupt, StartPlatform, StopPlatform, Use, RollBack, vars, user
  <2>2. uses \in Nat
    BY UpgradeAssumption DEF TypeOK
  <2> QED
    BY <2>1, <2>2
<1> QED
  BY <1>1, <1>2

\* A run that goes on reports nothing, and no database is started beside it but by a fault.
LEMMA RunFitsNext ==
  ASSUME TypeOK, RunFits, [Next]_vars
  PROVE  RunFits'
<1> USE DEF volumes, user
<1>1. CASE NothingToDo
  BY <1>1, FaultFits DEF NothingToDo, RunFits, Fails, NoRun, Goes, At, Doing, TypeOK, Migrations
<1>2. CASE Begin
  BY <1>2, FaultFits DEF Begin, RunFits, Fails, NoRun, Goes, At, Doing, TypeOK, Migrations
<1>3. CASE Pull
  BY <1>3, StepsGo, FaultFits DEF Pull, RunFits, Fails, NoRun, Goes, At, Doing, TypeOK, Migrations
<1>4. CASE RemoveHelper
  BY <1>4, StepsGo, FaultFits DEF RemoveHelper, RunFits, Fails, NoRun, Goes, At, Doing, TypeOK, Migrations
<1>5. CASE Inventory
  BY <1>5, StepsGo, FaultFits DEF Inventory, RunFits, Fails, NoRun, Goes, At, Doing, TypeOK, Migrations
<1>6. CASE Backup
  BY <1>6, StepsGo, FaultFits DEF Backup, RunFits, Fails, NoRun, Goes, At, Doing, TypeOK, Migrations
<1>7. CASE Dump
  BY <1>7, StepsGo, FaultFits DEF Dump, RunFits, Fails, NoRun, Goes, At, Doing, TypeOK, Migrations
<1>8. CASE CheckDump
  BY <1>8, StepsGo, FaultFits DEF CheckDump, RunFits, Fails, NoRun, Goes, At, Doing, TypeOK, Migrations
<1>9. CASE Wipe
  BY <1>9, StepsGo, FaultFits DEF Wipe, RunFits, Fails, NoRun, Goes, At, Doing, TypeOK, Migrations
<1>10. CASE Restore
  BY <1>10, StepsGo, FaultFits DEF Restore, RunFits, Fails, NoRun, Goes, At, Doing, TypeOK, Migrations
<1>11. CASE Verify
  BY <1>11, StepsGo, FaultFits DEF Verify, RunFits, Fails, NoRun, Goes, At, Doing, TypeOK, Migrations
<1>12. CASE DropDump
  BY <1>12, StepsGo, FaultFits DEF DropDump, RunFits, Fails, NoRun, Goes, At, Doing, TypeOK, Migrations
<1>13. CASE NoServer
  BY <1>13, FaultFits DEF NoServer, RunFits, Fails, NoRun, Goes, At, Doing, TypeOK, Migrations
<1>14. CASE Record
  BY <1>14, FaultFits DEF Record, RunFits, Fails, NoRun, Goes, At, Doing, TypeOK, Migrations
<1>15. CASE Finish
  BY <1>15, FaultFits DEF Finish, RunFits, Fails, NoRun, Goes, At, Doing, TypeOK, Migrations
<1>16. CASE Interrupt
  BY <1>16, FaultFits DEF Interrupt, RunFits, Fails, NoRun, Goes, At, Doing, TypeOK, Migrations
<1>17. ASSUME NEW major \in Majors, StartPlatform(major)
       PROVE  RunFits'
  BY <1>17, FaultFits DEF StartPlatform, RunFits, Fails, NoRun, Goes, At, Doing, TypeOK, Migrations
<1>18. CASE StopPlatform
  BY <1>18, FaultFits DEF StopPlatform, RunFits, Fails, NoRun, Goes, At, Doing, TypeOK, Migrations
<1>19. ASSUME NEW o \in Objects, Use(o)
       PROVE  RunFits'
  BY <1>19, FaultFits DEF Use, RunFits, Fails, NoRun, Goes, At, Doing, TypeOK, Migrations
<1>20. CASE RollBack
  BY <1>20, FaultFits DEF RollBack, RunFits, Fails, NoRun, Goes, At, Doing, TypeOK, Migrations
<1>21. CASE UNCHANGED vars
  BY <1>21 DEF vars, RunFits, Fails, NoRun, Goes, At, Doing, TypeOK, Migrations
<1> QED
  BY <1>1, <1>2, <1>3, <1>4, <1>5, <1>6, <1>7, <1>8, <1>9, <1>10, <1>11, <1>12, <1>13, <1>14, <1>15, <1>16, <1>17, <1>18, <1>19, <1>20, <1>21 DEF Next, Command, User

\* Steps are done in order, and a resume takes a tail of them.
LEMMA InOrderNext ==
  ASSUME TypeOK, RunFits, Copied, InOrder, [Next]_vars
  PROVE  InOrder'
<1>0. TypeOK'
  BY TypeOKNext
<1>a. /\ 3 \in run.steps => 5 \in run.steps
      /\ 4 \in run.steps => 6 \in run.steps
      /\ 6 \in run.steps => 8 \in run.steps
      /\ 5 \in run.steps => 7 \in run.steps
      /\ 7 \in run.steps => 8 \in run.steps
      /\ 8 \in run.steps => 9 \in run.steps
      /\ run.on /\ 9 \in run.steps /\ 6 \notin run.steps => Reached >= Dumped
      /\ 7 \in run.steps /\ 6 \notin run.steps => Reached = Dumped
  BY LeftIs DEF InOrder
<1> SUFFICES /\ 3 \in run'.steps => 5 \in run'.steps
             /\ 4 \in run'.steps => 6 \in run'.steps
             /\ 6 \in run'.steps => 8 \in run'.steps
             /\ 5 \in run'.steps => 7 \in run'.steps
             /\ 7 \in run'.steps => 8 \in run'.steps
             /\ 8 \in run'.steps => 9 \in run'.steps
             /\ run'.on /\ 9 \in run'.steps /\ 6 \notin run'.steps => Reached' >= Dumped
             /\ 7 \in run'.steps /\ 6 \notin run'.steps => Reached' = Dumped
  BY <1>0, LeftWillBe DEF InOrder
<1> USE DEF volumes, user
<1>1. CASE NothingToDo
  BY <1>1, <1>a, <1>0, StageNumbers DEF NothingToDo, Fails, NoRun, Goes, At, Reached, RunFits, TypeOK, Migrations, NoManifest
<1>2. CASE Begin
  BY <1>2, <1>a, <1>0, StageNumbers, StepsIs DEF Begin, Fails, NoRun, Goes, At, Reached, RunFits, TypeOK, Migrations, NoManifest
<1>3. CASE Pull
  BY <1>3, <1>a, <1>0, StageNumbers, StepsGo DEF Pull, Fails, NoRun, Goes, At, Reached, RunFits, TypeOK, Migrations, NoManifest
<1>4. CASE RemoveHelper
  BY <1>4, <1>a, <1>0, StageNumbers, StepsGo DEF RemoveHelper, Fails, NoRun, Goes, At, Reached, RunFits, TypeOK, Migrations, NoManifest
<1>5. CASE Inventory
  <2>1. Goes(3, None, live'.data) /\ UNCHANGED manifest
    BY <1>5, StepsGo DEF Inventory
  <2> QED
    BY <2>1, <1>a, StageNumbers DEF Goes, At, Reached
<1>6. CASE Backup
  BY <1>6, <1>a, <1>0, StageNumbers, StepsGo DEF Backup, Fails, NoRun, Goes, At, Reached, RunFits, TypeOK, Migrations, NoManifest
<1>7. CASE Dump
  BY <1>7, <1>a, <1>0, StageNumbers, StepsGo DEF Dump, Fails, NoRun, Goes, At, Reached, RunFits, TypeOK, Migrations, NoManifest
<1>8. CASE CheckDump
  BY <1>8, <1>a, <1>0, StageNumbers, StepsGo DEF CheckDump, Fails, NoRun, Goes, At, Reached, RunFits, TypeOK, Migrations, NoManifest
<1>9. CASE Wipe
  BY <1>9, <1>a, <1>0, StageNumbers, StepsGo DEF Wipe, Fails, NoRun, Goes, At, Reached, RunFits, TypeOK, Migrations, NoManifest
<1>10. CASE Restore
  BY <1>10, <1>a, <1>0, StageNumbers, StepsGo DEF Restore, Fails, NoRun, Goes, At, Reached, RunFits, TypeOK, Migrations, NoManifest
<1>11. CASE Verify
  BY <1>11, <1>a, <1>0, StageNumbers, StepsGo DEF Verify, Fails, NoRun, Goes, At, Reached, RunFits, TypeOK, Migrations, NoManifest
<1>12. CASE DropDump
  BY <1>12, <1>a, <1>0, StageNumbers, StepsGo DEF DropDump, Fails, NoRun, Goes, At, Reached, RunFits, TypeOK, Migrations, NoManifest
<1>13. CASE NoServer
  BY <1>13, <1>a, <1>0, StageNumbers DEF NoServer, Fails, NoRun, Goes, At, Reached, RunFits, TypeOK, Migrations, NoManifest
<1>14. CASE Record
  <2>1. CASE run' = NoRun
    BY <2>1 DEF NoRun
  <2>2. CASE /\ manifest' = [stage |-> run.due, inv |-> run.inv]
             /\ run' = [run EXCEPT !.due = None]
    <3>1. run \in Migrations
      BY DEF TypeOK
    <3>2. run'.on = run.on /\ run'.steps = run.steps /\ run'.due = None
      BY <2>2, <3>1 DEF Migrations
    <3>3. run.due # None /\ manifest'.stage = run.due
      BY <1>14, <2>2 DEF Record
    <3>4. Reached' = Reached
      BY <3>2, <3>3 DEF Reached
    <3> QED
      BY <1>a, <3>2, <3>4
  <2> QED
    BY <1>14, <2>1, <2>2 DEF Record, Fails
<1>15. CASE Finish
  BY <1>15, <1>a, <1>0, StageNumbers DEF Finish, Fails, NoRun, Goes, At, Reached, RunFits, TypeOK, Migrations, NoManifest
<1>16. CASE Interrupt
  BY <1>16, <1>a, <1>0, StageNumbers DEF Interrupt, Fails, NoRun, Goes, At, Reached, RunFits, TypeOK, Migrations, NoManifest
<1>17. ASSUME NEW major \in Majors, StartPlatform(major)
      PROVE  /\ 3 \in run'.steps => 5 \in run'.steps
             /\ 4 \in run'.steps => 6 \in run'.steps
             /\ 6 \in run'.steps => 8 \in run'.steps
             /\ 5 \in run'.steps => 7 \in run'.steps
             /\ 7 \in run'.steps => 8 \in run'.steps
             /\ 8 \in run'.steps => 9 \in run'.steps
             /\ run'.on /\ 9 \in run'.steps /\ 6 \notin run'.steps => Reached' >= Dumped
             /\ 7 \in run'.steps /\ 6 \notin run'.steps => Reached' = Dumped
  BY <1>17, <1>a, <1>0, StageNumbers DEF StartPlatform, Fails, NoRun, Goes, At, Reached, RunFits, TypeOK, Migrations, NoManifest
<1>18. CASE StopPlatform
  BY <1>18, <1>a, <1>0, StageNumbers DEF StopPlatform, Fails, NoRun, Goes, At, Reached, RunFits, TypeOK, Migrations, NoManifest
<1>19. ASSUME NEW o \in Objects, Use(o)
      PROVE  /\ 3 \in run'.steps => 5 \in run'.steps
             /\ 4 \in run'.steps => 6 \in run'.steps
             /\ 6 \in run'.steps => 8 \in run'.steps
             /\ 5 \in run'.steps => 7 \in run'.steps
             /\ 7 \in run'.steps => 8 \in run'.steps
             /\ 8 \in run'.steps => 9 \in run'.steps
             /\ run'.on /\ 9 \in run'.steps /\ 6 \notin run'.steps => Reached' >= Dumped
             /\ 7 \in run'.steps /\ 6 \notin run'.steps => Reached' = Dumped
  BY <1>19, <1>a, <1>0, StageNumbers DEF Use, Fails, NoRun, Goes, At, Reached, RunFits, TypeOK, Migrations, NoManifest
<1>20. CASE RollBack
  BY <1>20, <1>a, <1>0, StageNumbers DEF RollBack, Fails, NoRun, Goes, At, Reached, RunFits, TypeOK, Migrations, NoManifest
<1>21. CASE UNCHANGED vars
  BY <1>21, <1>a DEF vars, Fails, NoRun, Goes, At, Reached, RunFits, TypeOK, Migrations, NoManifest
<1> QED
  BY <1>1, <1>2, <1>3, <1>4, <1>5, <1>6, <1>7, <1>8, <1>9, <1>10, <1>11, <1>12, <1>13, <1>14, <1>15, <1>16, <1>17, <1>18, <1>19, <1>20, <1>21 DEF Next, Command, User

\* Nothing touches the directory before something is in the backup volume.
LEMMA UntouchedNext ==
  ASSUME TypeOK, RunFits, Copied, [Next]_vars
  PROVE  backup'.is = "nothing" =>
           /\ live'.major = "old" /\ live'.data = held' /\ run'.due = None
           /\ run'.on => 4 \in run'.steps
<1>a. backup.is = "nothing" =>
        /\ live.major = "old" /\ live.data = held /\ run.due = None
        /\ run.on => 4 \in run.steps
  BY LeftIs DEF Copied
<1>b. live \in Directories /\ run \in Migrations
  BY DEF TypeOK
<1> USE DEF volumes, user
<1>1. CASE NothingToDo
  BY <1>1, <1>a, <1>b, StageNumbers DEF NothingToDo, Fails, NoRun, Goes, At, RunFits, Serves, Initialised, Directories, Migrations, NoManifest
<1>2. CASE Begin
  <2>1. PICK m \in {manifest, NoManifest}, again \in {manifest, NoManifest}, keepDump \in BOOLEAN :
          run' = [on |-> TRUE, steps |-> Steps(m.stage, keepDump), due |-> None, inv |-> again.inv]
    BY <1>2 DEF Begin
  <2>2. m.stage \in Stages /\ (backup.is = "nothing" => m.stage < BackedUp)
    BY StageNumbers DEF NoManifest, TypeOK
  <2>3. backup.is = "nothing" => 4 \in Steps(m.stage, keepDump)
    BY <2>2, StepsIs
  <2> QED
    BY <1>2, <1>a, <2>1, <2>3 DEF Begin
<1>3. CASE Pull
  BY <1>3, <1>a, <1>b, StageNumbers, StepsGo DEF Pull, Fails, NoRun, Goes, At, RunFits, Serves, Initialised, Directories, Migrations, NoManifest
<1>4. CASE RemoveHelper
  BY <1>4, <1>a, <1>b, StageNumbers, StepsGo DEF RemoveHelper, Fails, NoRun, Goes, At, RunFits, Serves, Initialised, Directories, Migrations, NoManifest
<1>5. CASE Inventory
  <2>1. Goes(3, None, live'.data) /\ UNCHANGED <<backup, held>>
    BY <1>5, StepsGo DEF Inventory
  <2>2. live.major = "old" => live' = live
    BY <1>5 DEF Inventory, Initialised
  <2> QED
    BY <2>1, <2>2, <1>a DEF Goes, At
<1>6. CASE Backup
  BY <1>6, <1>a, <1>b, StageNumbers, StepsGo DEF Backup, Fails, NoRun, Goes, At, RunFits, Serves, Initialised, Directories, Migrations, NoManifest
<1>7. CASE Dump
  BY <1>7, <1>a, <1>b, StageNumbers, StepsGo DEF Dump, Fails, NoRun, Goes, At, RunFits, Serves, Initialised, Directories, Migrations, NoManifest
<1>8. CASE CheckDump
  BY <1>8, <1>a, <1>b, StageNumbers, StepsGo DEF CheckDump, Fails, NoRun, Goes, At, RunFits, Serves, Initialised, Directories, Migrations, NoManifest
<1>9. CASE Wipe
  BY <1>9, <1>a, <1>b, StageNumbers, StepsGo DEF Wipe, Fails, NoRun, Goes, At, RunFits, Serves, Initialised, Directories, Migrations, NoManifest
<1>10. CASE Restore
  BY <1>10, <1>a, <1>b, StageNumbers, StepsGo DEF Restore, Fails, NoRun, Goes, At, RunFits, Serves, Initialised, Directories, Migrations, NoManifest
<1>11. CASE Verify
  BY <1>11, <1>a, <1>b, StageNumbers, StepsGo DEF Verify, Fails, NoRun, Goes, At, RunFits, Serves, Initialised, Directories, Migrations, NoManifest
<1>12. CASE DropDump
  BY <1>12, <1>a, <1>b, StageNumbers, StepsGo DEF DropDump, Fails, NoRun, Goes, At, RunFits, Serves, Initialised, Directories, Migrations, NoManifest
<1>13. CASE NoServer
  BY <1>13, <1>a, <1>b, StageNumbers DEF NoServer, Fails, NoRun, Goes, At, RunFits, Serves, Initialised, Directories, Migrations, NoManifest
<1>14. CASE Record
  BY <1>14, <1>a, <1>b, StageNumbers DEF Record, Fails, NoRun, Goes, At, RunFits, Serves, Initialised, Directories, Migrations, NoManifest
<1>15. CASE Finish
  BY <1>15, <1>a, <1>b, StageNumbers DEF Finish, Fails, NoRun, Goes, At, RunFits, Serves, Initialised, Directories, Migrations, NoManifest
<1>16. CASE Interrupt
  BY <1>16, <1>a, <1>b, StageNumbers DEF Interrupt, Fails, NoRun, Goes, At, RunFits, Serves, Initialised, Directories, Migrations, NoManifest
<1>17. ASSUME NEW major \in Majors, StartPlatform(major)
       PROVE  backup'.is = "nothing" =>
                  /\ live'.major = "old" /\ live'.data = held' /\ run'.due = None
                  /\ run'.on => 4 \in run'.steps
  BY <1>17, <1>a, <1>b, StageNumbers DEF StartPlatform, Fails, NoRun, Goes, At, RunFits, Serves, Initialised, Directories, Migrations, NoManifest
<1>18. CASE StopPlatform
  BY <1>18, <1>a, <1>b, StageNumbers DEF StopPlatform, Fails, NoRun, Goes, At, RunFits, Serves, Initialised, Directories, Migrations, NoManifest
<1>19. ASSUME NEW o \in Objects, Use(o)
       PROVE  backup'.is = "nothing" =>
                  /\ live'.major = "old" /\ live'.data = held' /\ run'.due = None
                  /\ run'.on => 4 \in run'.steps
  BY <1>19, <1>a, <1>b, StageNumbers DEF Use, Fails, NoRun, Goes, At, RunFits, Serves, Initialised, Directories, Migrations, NoManifest
<1>20. CASE RollBack
  BY <1>20, <1>a, <1>b, StageNumbers DEF RollBack, Fails, NoRun, Goes, At, RunFits, Serves, Initialised, Directories, Migrations, NoManifest
<1>21. CASE UNCHANGED vars
  BY <1>21, <1>a, <1>b, StageNumbers DEF vars, Fails, NoRun, Goes, At, RunFits, Serves, Initialised, Directories, Migrations, NoManifest
<1> QED
  BY <1>1, <1>2, <1>3, <1>4, <1>5, <1>6, <1>7, <1>8, <1>9, <1>10, <1>11, <1>12, <1>13, <1>14, <1>15, <1>16, <1>17, <1>18, <1>19, <1>20, <1>21 DEF Next, Command, User

\* Which steps change what.
LEMMA Changes ==
  ASSUME [Next]_vars
  PROVE  /\ Backup \/ UNCHANGED backup
         /\ (\E o \in Objects : Use(o)) \/ RollBack \/ UNCHANGED held
         /\ Dump \/ DropDump \/ UNCHANGED dump
         /\ Record \/ DropDump \/ UNCHANGED manifest
         /\ \/ Inventory \/ Dump \/ Wipe \/ Restore \/ Verify
            \/ \E major \in Majors : StartPlatform(major)
            \/ \E o \in Objects : Use(o)
            \/ RollBack
            \/ UNCHANGED live
  BY DEF Next, Command, User, NothingToDo, Begin, Pull, RemoveHelper, Inventory, Backup,
     Dump, CheckDump, Wipe, Restore, Verify, DropDump, NoServer, Record, Finish,
     Interrupt, StartPlatform, StopPlatform, Use, RollBack, vars, volumes, user

\* What is in the backup volume is what was in the directory before it was touched.
LEMMA CopiesNext ==
  ASSUME TypeOK, Copied, [Next]_vars
  PROVE  /\ backup'.is = "torn" => "copy" \in faults'.met
         /\ Base \in held'
         /\ backup'.is = "whole" => Base \in backup'.data
         /\ Lost' => live'.data = {}
<1>1. /\ backup.is = "nothing" => live.data = held
      /\ backup.is = "torn" => "copy" \in faults.met
      /\ backup.is = "whole" => Base \in backup.data
      /\ Base \in held
  BY DEF Copied
<1>2. faults.met \subseteq faults'.met
  BY PromisesFade
<1>3. /\ backup'.is = "torn" => "copy" \in faults'.met
      /\ backup'.is = "whole" => Base \in backup'.data
  <2>1. CASE Backup
    BY <2>1, <1>1, <1>2, FaultFits DEF Backup
  <2> QED
    BY <2>1, <1>1, <1>2, Changes
<1>4. Base \in held'
  <2>1. CASE \E o \in Objects : Use(o)
    BY <2>1, <1>1, UpgradeAssumption DEF Use
  <2>2. CASE RollBack
    BY <2>2, <1>1 DEF RollBack
  <2> QED
    BY <2>1, <2>2, <1>1, Changes
<1>5. Lost' => live'.data = {}
  <2>1. Lost => live.data = {}
    BY DEF Copied
  <2>2. CASE Inventory \/ Dump \/ Verify \/ \E major \in Majors : StartPlatform(major)
    BY <2>1, <2>2 DEF Inventory, Dump, Verify, StartPlatform, Initialised, Lost, Majors
  <2>3. CASE Wipe
    BY <2>1, <2>3 DEF Wipe, Empty, Broken, Lost
  <2>4. CASE Restore
    BY <2>4, ReplayedFits DEF Restore, Lost
  <2>5. CASE \E o \in Objects : Use(o)
    BY <2>1, <2>5, <1>1 DEF Use, Lost, TypeOK, Directories
  <2>6. CASE RollBack
    BY <2>6 DEF RollBack, Lost
  <2> QED
    BY <2>1, <2>2, <2>3, <2>4, <2>5, <2>6, Changes DEF Lost
<1> QED
  BY <1>3, <1>4, <1>5

\* As long as the user writes nothing, nothing is anywhere that he had not.
LEMMA DataNext ==
  ASSUME TypeOK, Copied, [Next]_vars, uses' = 0
  PROVE  /\ live'.data \subseteq held' /\ dump'.data \subseteq held'
         /\ backup'.is = "whole" => backup'.data = held'
         /\ held' = held
<1>1. /\ uses = 0 /\ live.data \subseteq held /\ dump.data \subseteq held
      /\ backup.is = "whole" => backup.data = held
      /\ backup.is = "nothing" => live.data = held
      /\ Base \in held
  BY PromisesFade DEF Copied, Untouched
<1>2. ~ \E o \in Objects : Use(o)
  BY <1>1 DEF Use
<1>3. held' = held
  BY <1>1, <1>2, Changes DEF RollBack
<1>4. dump'.data \subseteq held
  <2>1. CASE Dump
    <3>1. live'.data \subseteq held
      BY <1>1, <2>1 DEF Dump, Initialised
    <3> QED
      BY <2>1, <3>1 DEF Dump, NoDump
  <2> QED
    BY <2>1, <1>1, Changes DEF DropDump, NoDump
<1>5. live'.data \subseteq held
  <2>1. CASE Inventory \/ Dump \/ Verify \/ \E major \in Majors : StartPlatform(major)
    BY <2>1, <1>1 DEF Inventory, Dump, Verify, StartPlatform, Initialised
  <2>2. CASE Wipe
    BY <2>2, <1>1 DEF Wipe, Empty, Broken
  <2>3. CASE Restore
    <3>1. PICK part \in SUBSET dump.data : live' = Replayed(part)
      BY <2>3 DEF Restore
    <3> QED
      BY <3>1, <1>1, ReplayedFits
  <2>4. CASE RollBack
    BY <2>4, <1>1 DEF RollBack
  <2> QED
    BY <2>1, <2>2, <2>3, <2>4, <1>1, <1>2, Changes
<1>6. backup'.is = "whole" => backup'.data = held
  BY <1>1, Changes DEF Backup
<1> QED
  BY <1>3, <1>4, <1>5, <1>6

\* What is in the volumes was the user's, and comes after the copy.
LEMMA CopiedNext ==
  ASSUME TypeOK, RunFits, Copied, [Next]_vars
  PROVE  Copied'
<1>1. TypeOK'
  BY TypeOKNext
<1> QED
  BY <1>1, LeftWillBe, UntouchedNext, CopiesNext, DataNext DEF Copied, Untouched

\* What becomes of the run.
LEMMA RunMoves ==
  ASSUME TypeOK, [Next]_vars
  PROVE  \/ UNCHANGED run
         \/ run' = NoRun
         \/ Begin
         \/ Record /\ run' = [run EXCEPT !.due = None]
         \/ Pull /\ Goes(1, None, run.inv)
         \/ RemoveHelper /\ Goes(2, None, run.inv)
         \/ Inventory /\ Goes(3, None, live'.data)
         \/ Backup /\ Goes(4, BackedUp, run.inv)
         \/ Dump /\ Goes(5, None, run.inv)
         \/ CheckDump /\ Goes(6, Dumped, run.inv)
         \/ Wipe /\ Goes(7, Wiped, run.inv)
         \/ Restore /\ Goes(8, Restored, run.inv)
         \/ Verify /\ Goes(9, Verified, run.inv)
         \/ DropDump /\ Goes(10, None, run.inv)
<1>1. \/ UNCHANGED run
      \/ run' = NoRun
      \/ Begin
      \/ Record /\ run' = [run EXCEPT !.due = None]
      \/ Pull \/ RemoveHelper \/ Inventory \/ Backup \/ Dump \/ CheckDump
      \/ Wipe \/ Restore \/ Verify \/ DropDump
  BY DEF Next, Command, User, NothingToDo, NoServer, Record, Finish, Interrupt,
     StartPlatform, StopPlatform, Use, RollBack, vars, Fails
<1>2. Fails => run' = NoRun
  BY DEF Fails
<1> QED
  BY <1>1, <1>2, StepsGo

\* Between the dump and the wipe only the user could write, who cannot find his data then.
LEMMA WipeReadyNext ==
  ASSUME TypeOK, RunFits, Copied, InOrder, WipeReady, [Next]_vars
  PROVE  WipeReady'
<1>1. run.on /\ 7 \in run.steps /\ 5 \notin run.steps =>
        /\ live.major = "old"
        /\ (uses = 0 \/ "start" \notin faults.met) /\ dump.whole => live.data \subseteq dump.data
  BY LeftIs DEF WipeReady, Untouched, Never
<1>2. /\ 3 \in run.steps => 5 \in run.steps
      /\ run.on /\ platform # "none" => "start" \in faults.met
  BY LeftIs DEF InOrder, RunFits
<1>3. /\ uses = 0 \/ uses' # 0
      /\ faults.met \subseteq faults'.met
  BY PromisesFade
<1> SUFFICES ASSUME run'.on, 7 \in run'.steps, 5 \notin run'.steps
             PROVE  /\ live'.major = "old"
                    /\ (uses' = 0 \/ "start" \notin faults'.met) /\ dump'.whole
                         => live'.data \subseteq dump'.data
  <2>1. TypeOK'
    BY TypeOKNext
  <2> QED
    BY <2>1, LeftWillBe DEF WipeReady, Untouched, Never
<1>4. CASE Begin
  <2>1. PICK m \in {manifest, NoManifest}, again \in {manifest, NoManifest}, keepDump \in BOOLEAN :
          run' = [on |-> TRUE, steps |-> Steps(m.stage, keepDump), due |-> None, inv |-> again.inv]
    BY <1>4 DEF Begin
  <2>2. m.stage \in Stages
    BY StageNumbers DEF NoManifest, TypeOK
  <2> QED
    BY <2>1, <2>2, StepsIs
<1>5. CASE Dump
  <2>1. live' = Initialised("old") /\ Serves("old")
    BY <1>5 DEF Dump
  <2>2. dump'.whole => dump'.data = live'.data
    BY <1>5 DEF Dump, NoDump
  <2>3. live'.major = "old"
    BY <2>1, InitialisedFits DEF Majors
  <2> QED
    BY <2>2, <2>3
<1>6. CASE \E o \in Objects : Use(o)
  <2>1. /\ uses' = uses + 1 /\ platform # "none" /\ UNCHANGED <<run, faults>>
        /\ live'.major = live.major
    BY <1>6 DEF Use, TypeOK, Directories
  <2>2. uses \in Nat
    BY UpgradeAssumption DEF TypeOK
  <2> QED
    BY <1>1, <1>2, <2>1, <2>2
<1>7. CASE \E major \in Majors : StartPlatform(major)
  <2>1. UNCHANGED <<run, dump, uses>> /\ (live.major = "old" => live' = live)
    BY <1>7 DEF StartPlatform, Initialised
  <2> QED
    BY <1>1, <1>3, <2>1
<1>8. CASE RollBack
  BY <1>8 DEF RollBack
<1>9. CASE Inventory \/ Wipe \/ Restore \/ Verify \/ DropDump
  BY <1>9, <1>2, StepsGo DEF Goes, At, Fails, NoRun
<1>10. CASE UNCHANGED <<live, dump>> /\ ~Begin /\ ~Dump
  <2>1. run.on /\ 7 \in run.steps /\ 5 \notin run.steps
    BY <1>10, RunMoves DEF Goes, At, NoRun, TypeOK, Migrations
  <2> QED
    BY <1>1, <1>3, <1>10, <2>1
<1> QED
  BY <1>4, <1>5, <1>6, <1>7, <1>8, <1>9, <1>10, Changes

\* The places of the steps that a stage makes needless.
LEMMA StagesAheadIs ==
  ASSUME NEW steps \in SUBSET (1..10), NEW stage, NEW due
  PROVE  (\A i \in steps : DoneAt(AllSteps[i]) # None =>
                stage < DoneAt(AllSteps[i]) /\ due < DoneAt(AllSteps[i]))
         <=> /\ 3 \in steps => stage < 2 /\ due < 2
             /\ 4 \in steps => stage < 1 /\ due < 1
             /\ 5 \in steps => stage < 3 /\ due < 3
             /\ 6 \in steps => stage < 4 /\ due < 4
             /\ 7 \in steps => stage < 3 /\ due < 3
             /\ 8 \in steps => stage < 4 /\ due < 4
             /\ 9 \in steps => stage < 5 /\ due < 5
<1>1. \A i \in steps : i \in {1, 2, 3, 4, 5, 6, 7, 8, 9, 10}
  OBVIOUS
<1> QED
  BY <1>1, Places, DoneAts, StageNumbers

\* A resume from a manifest that was read leaves no step of a stage that was reached.
LEMMA StagesAheadNext ==
  ASSUME TypeOK, RunFits, Copied, StagesAhead, [Next]_vars
  PROVE  StagesAhead'
<1> SUFFICES ASSUME "unread" \notin faults'.met
             PROVE  \A i \in run'.steps : DoneAt(AllSteps[i]) # None =>
                      manifest'.stage < DoneAt(AllSteps[i]) /\ run'.due < DoneAt(AllSteps[i])
  BY DEF StagesAhead, Never
<1>1. TypeOK' /\ "unread" \notin faults.met
  BY TypeOKNext, PromisesFade
<1>2. /\ run.steps \in SUBSET (1..10) /\ run'.steps \in SUBSET (1..10)
      /\ run.due \in 0..5 /\ manifest.stage \in 0..5
  BY <1>1, Places, StageNumbers DEF TypeOK, Migrations
<1>3. /\ 3 \in run.steps => manifest.stage < 2 /\ run.due < 2
      /\ 4 \in run.steps => manifest.stage < 1 /\ run.due < 1
      /\ 5 \in run.steps => manifest.stage < 3 /\ run.due < 3
      /\ 6 \in run.steps => manifest.stage < 4 /\ run.due < 4
      /\ 7 \in run.steps => manifest.stage < 3 /\ run.due < 3
      /\ 8 \in run.steps => manifest.stage < 4 /\ run.due < 4
      /\ 9 \in run.steps => manifest.stage < 5 /\ run.due < 5
  <2>1. \A i \in run.steps : DoneAt(AllSteps[i]) # None =>
          manifest.stage < DoneAt(AllSteps[i]) /\ run.due < DoneAt(AllSteps[i])
    BY <1>1 DEF StagesAhead, Never
  <2> QED
    BY <1>2, <2>1, StagesAheadIs
<1> SUFFICES /\ 3 \in run'.steps => manifest'.stage < 2 /\ run'.due < 2
             /\ 4 \in run'.steps => manifest'.stage < 1 /\ run'.due < 1
             /\ 5 \in run'.steps => manifest'.stage < 3 /\ run'.due < 3
             /\ 6 \in run'.steps => manifest'.stage < 4 /\ run'.due < 4
             /\ 7 \in run'.steps => manifest'.stage < 3 /\ run'.due < 3
             /\ 8 \in run'.steps => manifest'.stage < 4 /\ run'.due < 4
             /\ 9 \in run'.steps => manifest'.stage < 5 /\ run'.due < 5
  BY <1>2, StagesAheadIs
<1>4. CASE Begin
  <2>1. PICK m \in {manifest, NoManifest}, again \in {manifest, NoManifest}, keepDump \in BOOLEAN :
          /\ (m = manifest /\ again = manifest) \/ Fault("unread")
          /\ run' = [on |-> TRUE, steps |-> Steps(m.stage, keepDump), due |-> None, inv |-> again.inv]
    BY <1>4 DEF Begin
  <2>2. m = manifest /\ manifest' = manifest
    BY <1>4, <2>1, FaultFits DEF Begin, volumes
  <2>3. manifest.stage \in Stages
    BY DEF TypeOK
  <2> QED
    BY <1>2, <2>1, <2>2, <2>3, StepsIs, StageNumbers
<1>5. CASE Record
  <2>1. CASE /\ manifest' = [stage |-> run.due, inv |-> run.inv]
             /\ run' = [run EXCEPT !.due = None]
    BY <1>2, <1>3, <2>1, StageNumbers DEF TypeOK, Migrations
  <2>2. CASE run' = NoRun
    BY <2>2 DEF NoRun
  <2> QED
    BY <1>5, <2>1, <2>2 DEF Record, Fails
<1>6. CASE DropDump
  BY <1>6, StepsGo DEF Goes, At
<1>7. CASE UNCHANGED manifest /\ ~Begin /\ ~Record
  BY <1>2, <1>3, <1>7, RunMoves, StageNumbers DEF Goes, At, NoRun
<1> QED
  BY <1>4, <1>5, <1>6, <1>7, Changes

\* The invariant by places, of steps and stages.
LEMMA AheadIs ==
  ASSUME TypeOK, StagesAhead, "unread" \notin faults.met
  PROVE  /\ 3 \in run.steps => manifest.stage < 2 /\ run.due < 2
         /\ 4 \in run.steps => manifest.stage < 1 /\ run.due < 1
         /\ 5 \in run.steps => manifest.stage < 3 /\ run.due < 3
         /\ 6 \in run.steps => manifest.stage < 4 /\ run.due < 4
         /\ 7 \in run.steps => manifest.stage < 3 /\ run.due < 3
         /\ 8 \in run.steps => manifest.stage < 4 /\ run.due < 4
         /\ 9 \in run.steps => manifest.stage < 5 /\ run.due < 5
<1>1. run.steps \in SUBSET (1..10)
  BY Places DEF TypeOK, Migrations
<1>2. \A i \in run.steps : DoneAt(AllSteps[i]) # None =>
        manifest.stage < DoneAt(AllSteps[i]) /\ run.due < DoneAt(AllSteps[i])
  BY DEF StagesAhead, Never
<1> QED
  BY <1>1, <1>2, StagesAheadIs

\* The order of the steps, by their places.
LEMMA OrderIs ==
  ASSUME TypeOK, InOrder
  PROVE  /\ 3 \in run.steps => 5 \in run.steps
         /\ 4 \in run.steps => 6 \in run.steps
         /\ 5 \in run.steps => 7 \in run.steps
         /\ 6 \in run.steps => 8 \in run.steps
         /\ 7 \in run.steps => 8 \in run.steps
         /\ 8 \in run.steps => 9 \in run.steps
         /\ run.on /\ run.due = None /\ 9 \in run.steps /\ 6 \notin run.steps
              => manifest.stage >= 2
         /\ run.due = None /\ 7 \in run.steps /\ 6 \notin run.steps => manifest.stage = 2
  BY LeftIs, StageNumbers DEF InOrder, Reached

\* A directory that has everything is served by a server of its major only, and
\* is as it was when a server has been started on it.
LEMMA IntactStays ==
  ASSUME TypeOK, Intact
  PROVE  /\ \A major \in Majors : Initialised(major) = live
         /\ \A major \in Majors : Serves(major) => live.major = major
  BY DEF Intact, Initialised, Serves, Majors

\* A plan that could read the manifest is made of it.
LEMMA BeginReads ==
  ASSUME TypeOK, Begin, "unread" \notin faults'.met
  PROVE  \E keepDump \in BOOLEAN :
           run' = [on |-> TRUE, steps |-> Steps(manifest.stage, keepDump), due |-> None,
                   inv |-> manifest.inv]
<1>1. PICK m \in {manifest, NoManifest}, again \in {manifest, NoManifest}, keepDump \in BOOLEAN :
        /\ (m = manifest /\ again = manifest) \/ Fault("unread")
        /\ run' = [on |-> TRUE, steps |-> Steps(m.stage, keepDump), due |-> None, inv |-> again.inv]
  BY DEF Begin
<1> QED
  BY <1>1, FaultFits

\* The manifest is true of the directory and of what the user has.
LEMMA RecordsTrueNext ==
  ASSUME TypeOK, RunFits, InOrder, Copied, StagesAhead, RecordsTrue, [Next]_vars
  PROVE  RecordsTrue'
<1> SUFFICES ASSUME uses' = 0, "unread" \notin faults'.met, "manifest" \notin faults'.met
             PROVE  /\ manifest'.stage < 2 \/ run'.due = 1 => Intact'
                    /\ manifest'.stage >= 2 => held' \subseteq manifest'.inv
                    /\ run'.on /\ 3 \notin run'.steps => held' \subseteq run'.inv
                    /\ manifest'.stage = 5 \/ (run'.on /\ 9 \notin run'.steps) =>
                         Intact' /\ ("rollback" \notin faults'.met => live'.major = "new")
  <2>1. TypeOK'
    BY TypeOKNext
  <2> QED
    BY <2>1, LeftWillBe, StageNumbers DEF RecordsTrue, Untouched, Never
<1>1. /\ uses = 0 /\ "unread" \notin faults.met /\ "manifest" \notin faults.met
      /\ held' = held /\ live'.data \subseteq held' /\ faults.met \subseteq faults'.met
      /\ backup.is = "whole" => backup.data = held
      /\ Base \in held
      /\ ~ \E o \in Objects : Use(o)
  BY PromisesFade, DataNext, UpgradeAssumption DEF Copied, Untouched, Use, TypeOK
<1>2. /\ manifest.stage < 2 \/ run.due = 1 => Intact
      /\ manifest.stage >= 2 => held \subseteq manifest.inv
      /\ run.on /\ 3 \notin run.steps => held \subseteq run.inv
      /\ manifest.stage = 5 \/ (run.on /\ 9 \notin run.steps) =>
           Intact /\ ("rollback" \notin faults.met => live.major = "new")
  BY <1>1, LeftIs, StageNumbers DEF RecordsTrue, Untouched, Never
<1>3. manifest.stage \in 0..5 /\ run.due \in 0..5 /\ run \in Migrations
  BY StageNumbers DEF TypeOK, Migrations
<1>4. CASE Begin
  <2>1. PICK keepDump \in BOOLEAN :
          run' = [on |-> TRUE, steps |-> Steps(manifest.stage, keepDump), due |-> None,
                  inv |-> manifest.inv]
    BY <1>4, BeginReads
  <2>2. UNCHANGED <<live, manifest>>
    BY <1>4 DEF Begin, volumes
  <2>3. /\ 3 \notin Steps(manifest.stage, keepDump) => manifest.stage >= 2
        /\ 9 \notin Steps(manifest.stage, keepDump) => manifest.stage = 5
    BY <1>3, StepsIs, StageNumbers
  <2> QED
    BY <1>1, <1>2, <1>3, <2>1, <2>2, <2>3, StageNumbers DEF Intact
<1>5. CASE Record
  <2>1. /\ manifest' = [stage |-> run.due, inv |-> run.inv]
        /\ run' = [run EXCEPT !.due = None]
        /\ run.due # None /\ UNCHANGED live
    BY <1>5, FaultFits DEF Record
  <2>2. run' \in Migrations /\ run'.on = run.on /\ run'.steps = run.steps
        /\ run'.inv = run.inv /\ run'.due = 0
    BY <1>3, <2>1, StageNumbers DEF Migrations
  <2>3. run.on
    BY <2>1 DEF RunFits, NoRun
  <2>4. /\ run.due >= 2 => 3 \notin run.steps
        /\ run.due = 5 => 9 \notin run.steps
    BY <1>1, <1>3, AheadIs
  <2> QED
    BY <1>1, <1>2, <1>3, <2>1, <2>2, <2>3, <2>4, StageNumbers DEF Intact
<1>6. CASE DropDump
  <2>1. /\ Goes(10, None, run.inv) /\ UNCHANGED live
        /\ manifest' = NoManifest \/ UNCHANGED manifest
    BY <1>6, StepsGo DEF DropDump
  <2>2. run.on /\ 9 \notin run.steps
    BY <2>1 DEF Goes, At
  <2> QED
    BY <1>1, <1>2, <1>3, <2>1, <2>2, StageNumbers DEF Goes, Intact, NoManifest
<1>7. CASE Verify
  <2>1. At(9) /\ (Goes(9, Verified, run.inv) \/ Fails) /\ UNCHANGED manifest
    BY <1>7, StepsGo DEF Verify
  <2>2. manifest.stage >= 2 /\ manifest.stage < 5 /\ held \subseteq run.inv
    BY <1>1, <1>2, <2>1, OrderIs, AheadIs DEF At
  <2>3. run.inv # {}
    BY <1>1, <2>2
  <2>4. CASE Goes(9, Verified, run.inv)
    <3>1. live' = Initialised("new") /\ Serves("new") /\ run.inv \subseteq live'.data
      BY <1>7, <2>3, <2>4 DEF Verify, Goes, Fails, NoRun
    <3>2. live'.major = "new" /\ live'.data = held
      BY <1>1, <2>2, <3>1, InitialisedFits DEF Majors
    <3> QED
      BY <1>1, <1>2, <2>1, <2>2, <2>4, <3>2, StageNumbers DEF Goes, Intact, Majors
  <2>5. CASE Fails
    BY <1>1, <1>2, <1>3, <2>1, <2>2, <2>5, StageNumbers DEF Fails, NoRun
  <2> QED
    BY <2>1, <2>4, <2>5
<1>8. CASE Wipe \/ Restore
  <2>1. /\ UNCHANGED manifest
        /\ \/ At(7) /\ (Goes(7, Wiped, run.inv) \/ Fails)
           \/ At(8) /\ (Goes(8, Restored, run.inv) \/ Fails)
    BY <1>8, StepsGo DEF Wipe, Restore
  <2>2. /\ run.on /\ 3 \notin run.steps /\ 9 \in run.steps
        /\ manifest.stage >= 2 /\ manifest.stage < 5
    BY <1>1, <1>3, <2>1, OrderIs, AheadIs DEF At
  <2> QED
    BY <1>1, <1>2, <1>3, <2>1, <2>2, StageNumbers DEF Goes, Fails, NoRun
<1>9. CASE Inventory
  <2>1. Goes(3, None, live'.data) /\ live' = Initialised("old") /\ UNCHANGED manifest
    BY <1>9, StepsGo DEF Inventory
  <2>2. Intact
    BY <1>1, <1>2, <2>1, AheadIs DEF Goes, At
  <2>3. live' = live
    BY <2>1, <2>2, IntactStays DEF Majors
  <2> QED
    BY <1>1, <1>2, <2>1, <2>2, <2>3, StageNumbers DEF Goes, At, Intact
<1>10. CASE Dump
  <2>1. Goes(5, None, run.inv) /\ live' = Initialised("old") /\ UNCHANGED manifest
    BY <1>10, StepsGo DEF Dump
  <2>2. manifest.stage < 3 /\ 9 \in run.steps
    BY <1>1, <2>1, AheadIs, OrderIs DEF Goes, At
  <2>3. Intact => live' = live
    BY <2>1, IntactStays DEF Majors
  <2> QED
    BY <1>1, <1>2, <1>3, <2>1, <2>2, <2>3, StageNumbers DEF Goes, At, Intact
<1>11. CASE \E major \in Majors : StartPlatform(major)
  <2>1. UNCHANGED <<run, manifest>> /\ \E major \in Majors : live' = Initialised(major)
    BY <1>11 DEF StartPlatform
  <2>2. Intact => live' = live
    BY <2>1, IntactStays
  <2> QED
    BY <1>1, <1>2, <2>1, <2>2 DEF Intact
<1>12. CASE RollBack
  <2>1. /\ live' = [major |-> "old", data |-> backup.data] /\ backup.is = "whole"
        /\ "rollback" \in faults'.met /\ UNCHANGED <<run, manifest>>
    BY <1>12, FaultFits DEF RollBack
  <2> QED
    BY <1>1, <1>2, <2>1 DEF Intact, Majors
<1>13. CASE UNCHANGED <<live, manifest>> /\ ~Begin /\ ~Record
  <2>1. run'.due = 1 => run.due = 1 \/ manifest.stage < 2
    BY <1>1, <1>3, <1>13, RunMoves, AheadIs, StageNumbers DEF Goes, At, NoRun
  <2>2. /\ run'.on => run.on /\ (9 \notin run'.steps => 9 \notin run.steps \/ Verify)
        /\ run'.on /\ 3 \notin run'.steps => Inventory \/ (3 \notin run.steps /\ run'.inv = run.inv)
    BY <1>3, <1>13, RunMoves DEF Goes, At, NoRun
  <2> QED
    BY <1>1, <1>2, <1>7, <1>9, <1>13, <2>1, <2>2 DEF Intact
<1> QED
  BY <1>1, <1>4, <1>5, <1>6, <1>7, <1>8, <1>9, <1>10, <1>11, <1>12, <1>13, Changes

\* What a manifest that is never lost says, by places.
LEMMA RecordsAre ==
  ASSUME TypeOK, RecordsTrue, uses = 0, "unread" \notin faults.met,
         "manifest" \notin faults.met
  PROVE  /\ manifest.stage < 2 \/ run.due = 1 => Intact
         /\ manifest.stage >= 2 => held \subseteq manifest.inv
         /\ run.on /\ 3 \notin run.steps => held \subseteq run.inv
         /\ manifest.stage = 5 \/ (run.on /\ 9 \notin run.steps) =>
              Intact /\ ("rollback" \notin faults.met => live.major = "new")
  BY LeftIs, StageNumbers DEF RecordsTrue, Untouched, Never

\* A report is made of a manifest that is true.
LEMMA ReportIsTrueNext ==
  ASSUME TypeOK, RunFits, Copied, RecordsTrue, ReportIsTrue, [Next]_vars
  PROVE  ReportIsTrue'
<1> SUFFICES ASSUME uses' = 0, "unread" \notin faults'.met, "manifest" \notin faults'.met
             PROVE  /\ said' = "migrated" /\ "rollback" \notin faults'.met
                         => live'.major = "new" /\ held' \subseteq live'.data
                    /\ said' = "nothing" => held' \subseteq live'.data
  BY DEF ReportIsTrue, Untouched, Never
<1>1. /\ uses = 0 /\ "unread" \notin faults.met /\ "manifest" \notin faults.met
      /\ held' = held /\ faults.met \subseteq faults'.met
  BY PromisesFade, DataNext, UpgradeAssumption DEF TypeOK
<1>2. CASE NothingToDo
  <2>1. ~Planned(manifest) /\ UNCHANGED live /\ said' = "nothing"
    BY <1>2, FaultFits DEF NothingToDo, volumes
  <2>2. manifest.stage = 0 \/ manifest.stage = 5
    BY <2>1, StageNumbers DEF Planned, Resumable, TypeOK
  <2>3. Intact
    BY <1>1, <2>2, RecordsAre
  <2> QED
    BY <1>1, <2>1, <2>3 DEF Intact
<1>3. CASE Finish
  <2>1. run.on /\ run.steps = {} /\ UNCHANGED live /\ said' = "migrated"
    BY <1>3 DEF Finish, volumes
  <2> QED
    BY <1>1, <2>1, RecordsAre DEF Intact
<1>4. CASE UNCHANGED <<live, said>> /\ ~run.on
  BY <1>1, <1>4 DEF ReportIsTrue, Untouched, Never
<1>5. CASE said' \in {"quiet", "failed"}
  BY <1>5
<1>6. CASE run.on /\ UNCHANGED said
  BY <1>6 DEF RunFits
<1>7. \/ NothingToDo \/ Finish
      \/ UNCHANGED <<live, said>> /\ ~run.on
      \/ said' \in {"quiet", "failed"}
      \/ run.on /\ UNCHANGED said
  <2>1. CASE \/ Pull \/ RemoveHelper \/ Inventory \/ Backup \/ Dump \/ CheckDump
             \/ Wipe \/ Restore \/ Verify \/ DropDump
    BY <2>1, StepsGo DEF Goes, At, Fails
  <2>2. CASE Begin \/ NoServer \/ Interrupt \/ RollBack \/ StopPlatform \/ UNCHANGED vars
    BY <2>2 DEF Begin, NoServer, Interrupt, RollBack, StopPlatform, vars, volumes, Fails
  <2>3. CASE \/ \E major \in Majors : StartPlatform(major)
             \/ \E o \in Objects : Use(o)
    BY <2>3 DEF StartPlatform, Use
  <2>4. CASE Record
    BY <2>4 DEF Record, Fails, RunFits, NoRun
  <2> QED
    BY <2>1, <2>2, <2>3, <2>4 DEF Next, Command, User
<1> QED
  BY <1>2, <1>3, <1>4, <1>5, <1>6, <1>7

\* The directory is emptied of what the dump has, and the dump outlives that.
LEMMA ForwardNext ==
  ASSUME TypeOK, RunFits, InOrder, Copied, WipeReady, StagesAhead, RecordsTrue, Forward,
         [Next]_vars
  PROVE  Forward'
<1> SUFFICES ASSUME uses' = 0, "crash" \notin faults'.met, "unrecorded" \notin faults'.met,
                    "start" \notin faults'.met, "unread" \notin faults'.met,
                    "manifest" \notin faults'.met
             PROVE  /\ live'.major = "none" => run'.on /\ 7 \notin run'.steps
                    /\ live'.major = "old" => Intact'
                    /\ (\/ ~Intact'
                        \/ manifest'.stage \in {3, 4} \/ run'.due \in {3, 4}
                        \/ run'.on /\ 7 \notin run'.steps /\ 9 \in run'.steps)
                          => Has'
  <2>1. TypeOK'
    BY TypeOKNext
  <2> QED
    BY <2>1, LeftWillBe, StageNumbers DEF Forward, Untouched, Never, Has
<1>1. /\ uses = 0 /\ "unread" \notin faults.met /\ "manifest" \notin faults.met
      /\ "crash" \notin faults.met /\ "unrecorded" \notin faults.met /\ "start" \notin faults.met
      /\ held' = held
      /\ backup.is = "whole" => backup.data = held
      /\ backup.is = "nothing" => live.major = "old"
      /\ Base \in held
      /\ ~ \E o \in Objects : Use(o)
  BY PromisesFade, DataNext, UpgradeAssumption DEF Copied, Untouched, Use, TypeOK
<1>2. /\ live.major = "none" => run.on /\ 7 \notin run.steps
      /\ live.major = "old" => Intact
      /\ (\/ ~Intact
          \/ manifest.stage \in {3, 4} \/ run.due \in {3, 4}
          \/ run.on /\ 7 \notin run.steps /\ 9 \in run.steps)
            => Has
  BY <1>1, LeftIs, StageNumbers DEF Forward, Untouched, Never, Has
<1>3. manifest.stage \in 0..5 /\ run.due \in 0..5 /\ run \in Migrations
  BY StageNumbers DEF TypeOK, Migrations
<1>4. /\ run.on /\ 9 \notin run.steps => Intact
      /\ run.on /\ 3 \notin run.steps => held \subseteq run.inv
  BY <1>1, RecordsAre
<1>5. held' = held /\ dump' = dump /\ Has => Has'
  BY DEF Has
<1>6. held' = held /\ UNCHANGED live => (Intact' <=> Intact)
  BY DEF Intact
<1>7. CASE Begin
  <2>1. PICK keepDump \in BOOLEAN :
          run' = [on |-> TRUE, steps |-> Steps(manifest.stage, keepDump), due |-> None,
                  inv |-> manifest.inv]
    BY <1>7, BeginReads
  <2>2. UNCHANGED <<live, dump, manifest>> /\ ~run.on
    BY <1>7 DEF Begin, volumes
  <2>3. 7 \notin Steps(manifest.stage, keepDump) /\ 9 \in Steps(manifest.stage, keepDump)
          => manifest.stage \in {3, 4}
    BY <1>3, StepsIs, StageNumbers
  <2> QED
    BY <1>1, <1>2, <1>3, <1>5, <1>6, <2>1, <2>2, <2>3, StageNumbers
<1>8. CASE Record
  <2>1. /\ manifest' = [stage |-> run.due, inv |-> run.inv]
        /\ run' = [run EXCEPT !.due = None] /\ UNCHANGED <<live, dump>>
    BY <1>8, FaultFits DEF Record
  <2>2. run'.on = run.on /\ run'.steps = run.steps /\ run'.due = 0
    BY <1>3, <2>1, StageNumbers DEF Migrations
  <2> QED
    BY <1>1, <1>2, <1>5, <1>6, <2>1, <2>2
<1>9. CASE DropDump
  <2>1. /\ Goes(10, None, run.inv) /\ UNCHANGED live
        /\ manifest' = NoManifest \/ UNCHANGED <<manifest, dump>>
    BY <1>9, StepsGo DEF DropDump
  <2>2. run.on /\ 9 \notin run.steps /\ Intact
    BY <1>4, <2>1 DEF Goes, At
  <2>3. live.major \in Majors
    BY <2>2 DEF Intact
  <2> QED
    BY <1>1, <1>2, <1>3, <1>5, <1>6, <2>1, <2>2, <2>3, StageNumbers DEF Goes, NoManifest, Majors
<1>10. CASE Inventory \/ Dump
  <2>1. /\ \/ Goes(3, None, live'.data) /\ UNCHANGED dump
           \/ Goes(5, None, run.inv)
        /\ Serves("old") /\ live' = Initialised("old") /\ UNCHANGED manifest
    BY <1>10, StepsGo DEF Inventory, Dump
  <2>2. 7 \in run.steps /\ manifest.stage < 3
    BY <1>1, <1>3, <2>1, OrderIs, AheadIs DEF Goes, At
  <2>3. Intact
    BY <1>2, <2>1, <2>2 DEF Serves
  <2>4. live' = live /\ live.major \in Majors
    BY <2>1, <2>3, IntactStays DEF Majors, Intact
  <2> QED
    BY <1>1, <1>2, <1>3, <1>6, <2>1, <2>2, <2>3, <2>4, StageNumbers DEF Goes, Majors
<1>11. CASE Wipe
  <2>1. At(7) /\ (Goes(7, Wiped, run.inv) \/ Fails) /\ UNCHANGED <<dump, manifest>>
    BY <1>11, StepsGo DEF Wipe
  <2>2. Left("wipe") /\ ~Left("dump") /\ run.on
    BY <2>1, LeftIs DEF At
  <2>3. live.major = "old" /\ (dump.whole => live.data \subseteq dump.data)
    BY <1>1, <2>2 DEF WipeReady, Untouched
  <2>4. Intact
    BY <1>2, <2>3
  <2>5. dump.whole => Has
    BY <2>3, <2>4 DEF Intact, Has
  <2>6. \/ Fails /\ UNCHANGED live
        \/ dump.whole /\ live' = Empty /\ Goes(7, Wiped, run.inv)
        \/ dump.whole /\ live' = Broken /\ Fails
    <3>1. Done(Wiped) => Goes(7, Wiped, run.inv)
      BY <2>1, DoneGoes
    <3> QED
      BY <1>11, <3>1 DEF Wipe, MayWipe
  <2> QED
    BY <1>1, <1>2, <1>3, <1>5, <1>6, <2>1, <2>3, <2>4, <2>5, <2>6, StageNumbers
    DEF Goes, Fails, NoRun, Empty, Broken
<1>12. CASE Restore
  <2>1. At(8) /\ (Goes(8, Restored, run.inv) \/ Fails) /\ UNCHANGED <<dump, manifest>>
    BY <1>12, StepsGo DEF Restore
  <2>2. live'.major = "new"
    BY <1>12, ReplayedFits DEF Restore
  <2>3. Has
    BY <1>2, <2>1, OrderIs DEF At
  <2> QED
    BY <1>1, <1>5, <2>1, <2>2, <2>3
<1>13. CASE Verify
  <2>1. At(9) /\ (Goes(9, Verified, run.inv) \/ Fails) /\ UNCHANGED <<dump, manifest>>
    BY <1>13, StepsGo DEF Verify
  <2>2. run.inv # {}
    BY <1>1, <1>4, <2>1 DEF At
  <2>3. live'.major = "new"
    BY <1>13, <2>2, InitialisedFits DEF Verify, Majors
  <2>4. Has
    BY <1>2, <2>1 DEF At
  <2> QED
    BY <1>1, <1>5, <2>1, <2>3, <2>4
<1>14. CASE \E major \in Majors : StartPlatform(major)
  <2>1. PICK major \in Majors : StartPlatform(major)
    BY <1>14
  <2>2. ~run.on
    BY <1>1, <2>1, FaultFits DEF StartPlatform
  <2>3. live' = live /\ UNCHANGED <<run, dump, manifest>>
    BY <1>2, <2>1, <2>2 DEF StartPlatform, Initialised
  <2> QED
    BY <1>1, <1>2, <1>5, <1>6, <2>3
<1>15. CASE RollBack
  <2>1. /\ live' = [major |-> "old", data |-> backup.data] /\ backup.is = "whole"
        /\ ~run.on /\ UNCHANGED <<run, dump, manifest>>
    BY <1>15 DEF RollBack
  <2>2. Intact' /\ live'.major = "old"
    BY <1>1, <2>1 DEF Intact, Majors
  <2> QED
    BY <1>1, <1>2, <1>5, <2>1, <2>2
<1>16. CASE NoServer \/ Finish \/ Backup \/ CheckDump
  <2>1. UNCHANGED <<live, dump, manifest>>
    BY <1>16 DEF NoServer, Finish, Backup, CheckDump, volumes
  <2>2. run' = NoRun => live.major # "none"
    <3>1. CASE NoServer
      BY <3>1, OrderIs, DoingIs, <1>2 DEF NoServer, Serves, At
    <3>2. CASE Finish
      BY <3>2, <1>4 DEF Finish, Intact, Majors
    <3>3. CASE Backup
      <4>1. Done(BackedUp) => run' # NoRun
        BY <3>3, StepsGo, DoneGoes DEF Goes, NoRun
      <4> QED
        BY <3>3, <1>1, <4>1 DEF Backup
    <3>4. CASE CheckDump
      BY <3>4, <1>2, StepsGo DEF Has, Goes, NoRun, Fails, Intact, Majors
    <3> QED
      BY <1>16, <3>1, <3>2, <3>3, <3>4
  <2>3. run' = NoRun \/ Goes(4, BackedUp, run.inv) \/ Goes(6, Dumped, run.inv)
    BY <1>16, StepsGo DEF NoServer, Finish, Fails
  <2> QED
    BY <1>1, <1>2, <1>3, <1>5, <1>6, <2>1, <2>2, <2>3, StageNumbers DEF NoRun, Goes, At
<1>17. CASE Pull \/ RemoveHelper
  <2>1. /\ Goes(1, None, run.inv) \/ Goes(2, None, run.inv)
        /\ UNCHANGED <<live, dump, manifest>>
    BY <1>17, StepsGo DEF Pull, RemoveHelper, volumes
  <2> QED
    BY <1>1, <1>2, <1>3, <1>5, <1>6, <2>1, StageNumbers DEF Goes, At
<1>18. CASE UNCHANGED <<live, dump, manifest, run>>
  BY <1>1, <1>2, <1>5, <1>6, <1>18
<1>19. ~Interrupt
  BY FaultFits DEF Interrupt
<1>20. NothingToDo \/ StopPlatform \/ UNCHANGED vars
         => UNCHANGED <<live, dump, manifest, run>>
  BY DEF NothingToDo, StopPlatform, vars, volumes
<1> QED
  BY <1>1, <1>7, <1>8, <1>9, <1>10, <1>11, <1>12, <1>13, <1>14, <1>15, <1>16, <1>17, <1>18,
     <1>19, <1>20 DEF Next, Command, User

\* Before any fault has happened a step was not one.
LEMMA NoFaultYet ==
  ASSUME TypeOK, faults'.left = MaxFaults
  PROVE  \A kind : ~Fault(kind)
<1> SUFFICES ASSUME NEW kind, Fault(kind) PROVE FALSE
  OBVIOUS
<1>1. faults'.left = faults.left - 1 /\ faults.left \in 0..MaxFaults
  BY FaultFits DEF TypeOK
<1> QED
  BY <1>1, UpgradeAssumption

\* Until a fault happens the first run migrates, and the platform runs on what it made.
LEMMA CleanNext ==
  ASSUME TypeOK, RunFits, InOrder, Copied, Clean, [Next]_vars
  PROVE  Clean'
<1> DEFINE Ends == \/ backup.is = "nothing"
                   \/ /\ live.major = "new" /\ held \subseteq live.data
                      /\ manifest.stage = 0 \/ manifest.stage = 5
           Runs == /\ backup.is # "nothing" => Fresh
                   /\ 7 \in run.steps => live.major = "old" /\ live.data = held
                   /\ 3 \notin run.steps => run.inv # {} /\ run.inv \subseteq held
                   /\ 5 \notin run.steps /\ 9 \in run.steps => Has
                   /\ 7 \notin run.steps /\ 8 \in run.steps => live.major = "none"
                   /\ 8 \notin run.steps => live.major = "new" /\ held \subseteq live.data
                   /\ 9 \notin run.steps =>
                        \/ Reached = 5
                        \/ 10 \notin run.steps /\ run.due = 0 /\ manifest.stage = 0
<1>0. TypeOK'
  BY TypeOKNext
<1> SUFFICES ASSUME faults'.left = MaxFaults
             PROVE  faults'.met = {} /\ (~run'.on => Ends') /\ (run'.on => Runs')
  BY <1>0, LeftWillBe, StageNumbers DEF Clean
<1>1. \A kind : ~Fault(kind)
  BY NoFaultYet
<1>2. faults' = faults
  BY <1>1
  DEF Next, Command, User, NothingToDo, Begin, Pull, RemoveHelper, Inventory, Backup,
      Dump, CheckDump, Wipe, Restore, Verify, DropDump, NoServer, Record, Finish,
      Interrupt, StartPlatform, StopPlatform, Use, RollBack, vars
<1>3. faults.met = {} /\ (~run.on => Ends) /\ (run.on => Runs)
  BY <1>2, LeftIs, StageNumbers DEF Clean
<1>4. /\ run.on => platform = "none"
      /\ run \in Migrations /\ live \in Directories
      /\ manifest.stage \in 0..5 /\ run.due \in 0..5 /\ run.on \in BOOLEAN
      /\ Base \in held
      /\ backup.is = "nothing" => live.major = "old" /\ live.data = held
      /\ backup.is = "nothing" => manifest.stage = 0
  BY <1>3, StageNumbers DEF RunFits, TypeOK, Migrations, Copied
<1>5. /\ held' = held /\ dump' = dump => (Has' <=> Has)
      /\ held' = held /\ backup' = backup => (Fresh' <=> Fresh)
      /\ run'.due = run.due /\ manifest' = manifest => Reached' = Reached
      /\ run.due = 0 => Reached = manifest.stage
      /\ run'.due = 5 => Reached' = 5
  BY StageNumbers DEF Has, Fresh, Reached
<1> HIDE DEF Ends, Runs
<1>6. CASE Begin
  <2>1. PICK keepDump \in BOOLEAN :
          run' = [on |-> TRUE, steps |-> Steps(manifest.stage, keepDump), due |-> None,
                  inv |-> manifest.inv]
    BY <1>1, <1>6 DEF Begin
  <2>2. UNCHANGED <<live, dump, backup, manifest, held>> /\ ~run.on /\ Planned(manifest)
    BY <1>1, <1>6 DEF Begin, volumes, user
  <2>3. backup.is = "nothing"
    BY <1>3, <2>2, StageNumbers DEF Ends, Planned, Mismatch, Resumable
  <2>4. \A i \in 3..9 : i \in Steps(manifest.stage, keepDump)
    <3>1. \A i \in 3..9 : i \in {3, 4, 5, 6, 7, 8, 9}
      OBVIOUS
    <3>2. manifest.stage \in Stages /\ manifest.stage = 0
      BY <1>4, <2>3, StageNumbers
    <3> QED
      BY <3>1, <3>2, StepsIs, StageNumbers
  <2> QED
    BY <1>2, <1>3, <1>4, <2>1, <2>2, <2>3, <2>4 DEF Runs
<1>7. CASE Pull \/ RemoveHelper
  <2>1. /\ Goes(1, None, run.inv) \/ Goes(2, None, run.inv)
        /\ UNCHANGED <<live, dump, backup, manifest, held>>
    BY <1>7, StepsGo DEF Pull, RemoveHelper, volumes, user
  <2> QED
    BY <1>2, <1>3, <1>5, <2>1, StageNumbers DEF Runs, Goes, At
<1>8. CASE Inventory
  <2>1. Goes(3, None, live'.data) /\ live' = Initialised("old")
        /\ UNCHANGED <<dump, backup, manifest, held>>
    BY <1>8, StepsGo DEF Inventory, user
  <2>2. 5 \in run.steps /\ 7 \in run.steps /\ 8 \in run.steps /\ 9 \in run.steps
    BY <2>1, OrderIs DEF Goes, At
  <2>3. live' = live /\ live.data = held
    BY <1>3, <2>1, <2>2 DEF Runs, Goes, At, Initialised
  <2> QED
    BY <1>2, <1>3, <1>4, <1>5, <2>1, <2>2, <2>3 DEF Runs, Goes, At
<1>9. CASE Backup
  <2>1. At(4) /\ UNCHANGED <<live, dump, manifest, held>>
    BY <1>9, StepsGo DEF Backup, user
  <2>2. 8 \in run.steps /\ 9 \in run.steps
    BY <2>1, OrderIs DEF At
  <2>3. Goes(4, BackedUp, run.inv) /\ (backup.is # "nothing" => UNCHANGED backup)
        /\ (backup.is = "nothing" => backup' = [is |-> "whole", data |-> live.data])
    BY <1>1, <1>9, <2>1, DoneGoes DEF Backup
  <2>4. Fresh'
    <3>1. backup.is # "nothing" => Fresh
      BY <1>3, <2>1 DEF Runs, At
    <3> QED
      BY <1>4, <1>5, <2>1, <2>3, <3>1 DEF Fresh
  <2> QED
    BY <1>2, <1>3, <1>5, <2>1, <2>2, <2>3, <2>4 DEF Runs, Goes, At
<1>10. CASE Dump
  <2>1. Goes(5, None, run.inv) /\ live' = Initialised("old")
        /\ dump' = [whole |-> TRUE, data |-> live'.data]
        /\ UNCHANGED <<backup, manifest, held>>
    BY <1>1, <1>10, StepsGo DEF Dump, user
  <2>2. 7 \in run.steps /\ 8 \in run.steps /\ 9 \in run.steps
    BY <2>1, OrderIs DEF Goes, At
  <2>3. live' = live /\ live.data = held
    BY <1>3, <2>1, <2>2 DEF Runs, Goes, At, Initialised
  <2>4. Has'
    BY <2>1, <2>3 DEF Has
  <2> QED
    BY <1>2, <1>3, <1>5, <2>1, <2>2, <2>3, <2>4 DEF Runs, Goes, At
<1>11. CASE CheckDump
  <2>1. /\ At(6) /\ IF dump.whole THEN Goes(6, Dumped, run.inv) ELSE Fails
        /\ UNCHANGED <<live, dump, backup, manifest, held>>
    BY <1>11, StepsGo DEF CheckDump, volumes, user
  <2>2. 8 \in run.steps /\ 9 \in run.steps /\ 5 \notin run.steps
    BY <2>1, OrderIs DEF At
  <2>3. dump.whole
    BY <1>3, <2>1, <2>2 DEF Runs, At, Has
  <2> QED
    BY <1>2, <1>3, <1>5, <2>1, <2>2, <2>3 DEF Runs, Goes, At
<1>12. CASE Wipe
  <2>1. At(7) /\ UNCHANGED <<dump, backup, manifest, held>>
    BY <1>12, StepsGo DEF Wipe, user
  <2>2. 8 \in run.steps /\ 9 \in run.steps /\ 5 \notin run.steps
    BY <2>1, OrderIs DEF At
  <2>3. MayWipe
    BY <1>3, <1>4, <2>1, <2>2 DEF Runs, At, Has, MayWipe
  <2>4. Goes(7, Wiped, run.inv) /\ live' = Empty
    BY <1>1, <1>12, <2>1, <2>3, DoneGoes DEF Wipe
  <2> QED
    BY <1>2, <1>3, <1>5, <2>1, <2>2, <2>4 DEF Runs, Goes, At, Empty
<1>13. CASE Restore
  <2>1. At(8) /\ UNCHANGED <<dump, backup, manifest, held>>
    BY <1>13, StepsGo DEF Restore, user
  <2>2. 9 \in run.steps /\ 7 \notin run.steps /\ 5 \notin run.steps
    BY <2>1, OrderIs DEF At
  <2>3. Goes(8, Restored, run.inv) /\ live' = Replayed(dump.data)
    BY <1>1, <1>13, <2>1, DoneGoes DEF Restore
  <2>4. Has /\ run.on
    BY <1>3, <2>1, <2>2 DEF Runs, At
  <2>5. live'.major = "new" /\ held \subseteq live'.data
    BY <2>3, <2>4 DEF Replayed, Has
  <2> QED
    BY <1>2, <1>3, <1>5, <2>1, <2>2, <2>3, <2>4, <2>5 DEF Runs, Goes, At
<1>14. CASE Verify
  <2>1. At(9) /\ UNCHANGED <<dump, backup, manifest, held>>
    BY <1>14, StepsGo DEF Verify, user
  <2>2. 3 \notin run.steps /\ 8 \notin run.steps /\ 7 \notin run.steps /\ run.on
    BY <2>1 DEF At
  <2>3. /\ live.major = "new" /\ held \subseteq live.data
        /\ run.inv # {} /\ run.inv \subseteq held
    BY <1>3, <2>2 DEF Runs
  <2>4. Initialised("new") = live
    BY <2>3 DEF Initialised
  <2>5. Goes(9, Verified, run.inv) /\ live' = live
    BY <1>14, <2>1, <2>3, <2>4, DoneGoes DEF Verify
  <2>6. Reached' = 5
    BY <1>5, <2>5, StageNumbers DEF Goes
  <2> QED
    BY <1>2, <1>3, <1>5, <2>1, <2>2, <2>3, <2>5, <2>6 DEF Runs, Goes
<1>15. CASE DropDump
  <2>1. Goes(10, None, run.inv) /\ manifest' = NoManifest
        /\ UNCHANGED <<live, backup, held>>
    BY <1>1, <1>15, StepsGo DEF DropDump, user
  <2>2. 9 \notin run.steps /\ 8 \notin run.steps /\ 7 \notin run.steps
    BY <2>1 DEF Goes, At
  <2> QED
    BY <1>2, <1>3, <1>5, <2>1, <2>2, StageNumbers DEF Runs, Goes, At, NoManifest
<1>16. ~NoServer
  <2> SUFFICES ASSUME NoServer PROVE FALSE
    OBVIOUS
  <2>1. \/ (At(3) \/ At(5)) /\ ~Serves("old")
        \/ (At(8) \/ At(9)) /\ ~Serves("new")
    BY DoingIs DEF NoServer
  <2>2. At(3) \/ At(5) => 7 \in run.steps /\ run.on
    BY OrderIs DEF At
  <2>3. At(8) \/ At(9) => run.on /\ 7 \notin run.steps
    BY DEF At
  <2> QED
    BY <1>3, <2>1, <2>2, <2>3 DEF Runs, Serves
<1>17. CASE Record
  <2>1. /\ manifest' = [stage |-> run.due, inv |-> run.inv]
        /\ run' = [run EXCEPT !.due = None] /\ run.due # None
        /\ UNCHANGED <<live, dump, backup, held>>
    BY <1>1, <1>17 DEF Record, user
  <2>2. run' \in Migrations /\ run'.on = run.on /\ run'.steps = run.steps
        /\ run'.inv = run.inv /\ run'.due = None
    BY <1>4, <2>1, StageNumbers DEF Migrations, Stages
  <2>3. run.on /\ Reached' = Reached
    BY <2>1, <2>2 DEF RunFits, NoRun, Reached
  <2> QED
    BY <1>2, <1>3, <1>5, <2>1, <2>2, <2>3, StageNumbers DEF Runs
<1>18. CASE Finish
  <2>1. /\ run.on /\ run.due = None /\ run.steps = {} /\ run' = NoRun
        /\ UNCHANGED <<live, dump, backup, manifest, held>>
    BY <1>18 DEF Finish, volumes, user
  <2> QED
    BY <1>2, <1>3, <1>5, <2>1, StageNumbers DEF Runs, Ends, NoRun
<1>19. CASE \E major \in Majors : StartPlatform(major)
  <2>1. PICK major \in Majors : StartPlatform(major)
    BY <1>19
  <2>2. ~run.on /\ live' = Initialised(major) /\ UNCHANGED <<dump, backup, manifest, run, held>>
    BY <1>1, <2>1 DEF StartPlatform
  <2>3. live.major # "none" => live' = live
    BY <2>2 DEF Initialised
  <2> QED
    BY <1>2, <1>3, <1>4, <2>2, <2>3 DEF Ends
<1>20. CASE \E o \in Objects : Use(o)
  <2>1. /\ platform # "none" /\ live' = [live EXCEPT !.data = held']
        /\ UNCHANGED <<dump, backup, manifest, run>>
    BY <1>20 DEF Use
  <2>2. ~run.on /\ live'.major = live.major /\ live'.data = held'
    BY <1>4, <2>1 DEF Directories
  <2> QED
    BY <1>2, <1>3, <2>1, <2>2 DEF Ends
<1>21. CASE UNCHANGED <<live, dump, backup, manifest, run, held>>
  BY <1>2, <1>3, <1>5, <1>21 DEF Ends, Runs
<1>22. ~Interrupt /\ ~RollBack
  BY <1>1 DEF Interrupt, RollBack
<1>23. NothingToDo \/ StopPlatform \/ UNCHANGED vars
         => UNCHANGED <<live, dump, backup, manifest, run, held>>
  BY DEF NothingToDo, StopPlatform, vars, volumes, user
<1> QED
  BY <1>6, <1>7, <1>8, <1>9, <1>10, <1>11, <1>12, <1>13, <1>14, <1>15, <1>16, <1>17, <1>18,
     <1>19, <1>20, <1>21, <1>22, <1>23 DEF Next, Command, User
-----------------------------------------------------------------------------
(* Through two faults                                                      *)

\* Where all of the user's data is to be had, through two faults.
Kept == \/ backup.is = "nothing" \/ Fresh
        \/ held \subseteq live.data
        \/ Has /\ ~AtMost(0) /\ Restoring
        \/ Has /\ ~AtMost(1) /\ Dangling

TwoFaults == AtMost(2) /\ Never({"start", "unrecorded", "restore", "silent"})

\* A step is at most one fault.
LEMMA FaultsCount ==
  ASSUME TypeOK, [Next]_vars
  PROVE  /\ UNCHANGED faults \/ \E kind \in AllFaults : Fault(kind)
         /\ faults.left \in 0..MaxFaults /\ MaxFaults \in Nat
         /\ faults' = faults \/ faults'.left = faults.left - 1
<1>1. UNCHANGED faults \/ \E kind \in AllFaults : Fault(kind)
  BY UpgradeAssumption
  DEF Next, Command, User, NothingToDo, Begin, Pull, RemoveHelper, Inventory, Backup,
      Dump, CheckDump, Wipe, Restore, Verify, DropDump, NoServer, Record, Finish,
      Interrupt, StartPlatform, StopPlatform, Use, RollBack, vars, AllFaults
<1>2. faults.left \in 0..MaxFaults /\ MaxFaults \in Nat
  BY UpgradeAssumption DEF TypeOK
<1> QED
  BY <1>1, <1>2, FaultFits

\* What two faults have kept they had kept before.
LEMMA TwoFaultsFade ==
  ASSUME TypeOK, [Next]_vars, TwoFaults'
  PROVE  /\ TwoFaults
         /\ ~AtMost(0) => ~AtMost(0)'
         /\ ~AtMost(1) => ~AtMost(1)' /\ UNCHANGED faults
         /\ ~AtMost(0) /\ faults' # faults => ~AtMost(1)'
         /\ faults.left = MaxFaults \/ ~AtMost(0)
<1>1. AtMost(2)'
  BY DEF TwoFaults
<1>2. Never({"start", "unrecorded", "restore", "silent"})
  BY PromisesFade DEF TwoFaults, Never
<1>3. /\ AtMost(2)
      /\ ~AtMost(0) => ~AtMost(0)'
      /\ ~AtMost(1) => ~AtMost(1)' /\ UNCHANGED faults
      /\ ~AtMost(0) /\ faults' # faults => ~AtMost(1)'
      /\ faults.left = MaxFaults \/ ~AtMost(0)
  BY <1>1, FaultsCount DEF AtMost
<1> QED
  BY <1>2, <1>3 DEF TwoFaults

\* The next step is the restore, by its place.
LEMMA RestoringIs ==
  ASSUME TypeOK
  PROVE  Restoring <=> /\ run.on /\ live.major = "none" /\ Reached = 3
                       /\ 8 \in run.steps /\ \A j \in run.steps : 8 <= j
<1>1. run.steps \subseteq 1..10
  BY Places DEF TypeOK, Migrations
<1>2. \A i \in run.steps : i \in {1, 2, 3, 4, 5, 6, 7, 8, 9, 10}
  BY <1>1
<1>3. NextIs("restore") <=> 8 \in run.steps /\ \A j \in run.steps : 8 <= j
  BY <1>2, Places DEF NextIs, First
<1> QED
  BY <1>3, StageNumbers DEF Restoring

\* So it will be.
LEMMA WillBeRestoring ==
  ASSUME TypeOK', run'.on, live'.major = "none", Reached' = 3,
         8 \in run'.steps, \A j \in run'.steps : 8 <= j
  PROVE  Restoring'
<1>1. AllSteps[8] = "restore"
  BY Places
<1>2. NextIs("restore")'
  BY <1>1 DEF NextIs, First
<1> QED
  BY <1>2, StageNumbers DEF Restoring

\* The dump brings back what it has.
LEMMA RestoreBrings ==
  ASSUME TypeOK, Copied, Restore, TwoFaults'
  PROVE  /\ Has => held' \subseteq live'.data
         /\ held \subseteq live.data => held' \subseteq live'.data
<1>1. /\ live' = Replayed(dump.data) /\ Serves("new") /\ held' = held
  BY FaultFits DEF Restore, TwoFaults, Never, user
<1>2. held \subseteq live.data => Initialised("new") = live
  BY DEF Copied, Initialised, Lost
<1> QED
  BY <1>1, <1>2 DEF Has, Replayed

\* A backup that holds all is kept, and what is not backed up is not touched.
LEMMA BackedUpKept ==
  ASSUME TypeOK, Copied, [Next]_vars, backup.is = "nothing" \/ Fresh
  PROVE  Kept'
<1>1. CASE \E o \in Objects : Use(o)
  <2>1. held' \subseteq live'.data
    BY <1>1 DEF Use, TypeOK, Directories
  <2> QED
    BY <2>1 DEF Kept
<1>2. CASE RollBack
  BY <1>2 DEF RollBack, Kept
<1>3. CASE Backup
  <2>1. backup.is = "nothing" => held' \subseteq live'.data
    BY <1>3 DEF Backup, Copied, user
  <2>2. Fresh /\ backup.is # "nothing" => Fresh'
    BY <1>3 DEF Backup, Fresh, user
  <2> QED
    BY <2>1, <2>2 DEF Kept, Fresh
<1>4. CASE UNCHANGED <<backup, held>>
  BY <1>4 DEF Kept, Fresh
<1> QED
  BY <1>1, <1>2, <1>3, <1>4, Changes

\* A directory that has all is emptied when the dump has it too, and by a run that
\* had a fault before it, or its backup would hold all.
LEMMA HereKept ==
  ASSUME TypeOK, RunFits, InOrder, Copied, WipeReady, Clean, [Next]_vars, TwoFaults',
         held \subseteq live.data, backup.is # "nothing", ~Fresh
  PROVE  Kept'
<1> SUFFICES \/ held' \subseteq live'.data
             \/ Has' /\ ~AtMost(0)' /\ Restoring'
             \/ Has' /\ ~AtMost(1)' /\ Dangling'
  BY DEF Kept
<1>1. TypeOK' /\ TwoFaults
  BY TypeOKNext, TwoFaultsFade
<1>2. live.major \notin {"none", "broken"}
  BY DEF Copied, Lost
<1>3. CASE Inventory \/ Dump \/ Verify \/ \E major \in Majors : StartPlatform(major)
  <2>1. live' = live /\ held' = held
    BY <1>2, <1>3 DEF Inventory, Dump, Verify, StartPlatform, Initialised, user
  <2> QED
    BY <2>1
<1>4. CASE Wipe
  <2>1. At(7) /\ UNCHANGED <<dump, manifest, held>>
    BY <1>4, StepsGo DEF Wipe, user
  <2>2. run.on /\ 5 \notin run.steps /\ 7 \in run.steps /\ 8 \in run.steps
        /\ 6 \notin run.steps /\ run.due = None /\ \A j \in run.steps : 7 <= j
    BY <2>1, OrderIs DEF At
  <2>3. dump.whole => Has'
    <3>1. Left("wipe") /\ ~Left("dump")
      BY <2>2, LeftIs
    <3>2. dump.whole => live.data \subseteq dump.data
      BY <1>1, <2>2, <3>1 DEF WipeReady, TwoFaults, Never
    <3> QED
      BY <2>1, <3>2 DEF Has
  <2>4. ~AtMost(0)
    <3>1. faults.left # MaxFaults
      BY <2>2 DEF Clean
    <3> QED
      BY <3>1, TwoFaultsFade
  <2>5. CASE UNCHANGED live
    BY <2>1, <2>5
  <2>6. CASE dump.whole /\ live' = Empty /\ Done(Wiped)
    <3>1. Goes(7, Wiped, run.inv)
      BY <2>1, <2>6, DoneGoes
    <3>2. run'.on /\ 8 \in run'.steps /\ run'.due = 3
      BY <2>2, <3>1, StageNumbers DEF Goes
    <3>3. \A j \in run'.steps : 8 <= j
      <4>1. \A j \in run.steps : j \in Int
        BY Places DEF TypeOK, Migrations
      <4> QED
        BY <2>2, <3>1, <4>1 DEF Goes
    <3>4. Reached' = 3 /\ live'.major = "none"
      BY <2>6, <3>2, StageNumbers DEF Reached, Empty
    <3>5. Restoring'
      BY <1>1, <3>2, <3>3, <3>4, WillBeRestoring
    <3> QED
      BY <2>3, <2>4, <2>6, <3>5, TwoFaultsFade
  <2>7. CASE dump.whole /\ Fault("wipe") /\ live' = Broken /\ Fails
    <3>1. manifest.stage = 2
      BY <2>2, OrderIs
    <3>2. faults' # faults
      BY <2>7, FaultFits, FaultsCount
    <3>3. Dangling'
      BY <2>1, <2>7, <3>1, StageNumbers DEF Dangling, Fails, NoRun, Broken
    <3> QED
      BY <2>3, <2>4, <2>7, <3>2, <3>3, TwoFaultsFade
  <2> QED
    BY <1>4, <2>5, <2>6, <2>7 DEF Wipe, MayWipe
<1>5. CASE Restore
  BY <1>5, RestoreBrings
<1>6. CASE \E o \in Objects : Use(o)
  BY <1>6 DEF Use, TypeOK, Directories
<1>7. CASE RollBack
  BY <1>7 DEF RollBack
<1>8. CASE UNCHANGED <<live, held>>
  BY <1>8
<1> QED
  BY <1>3, <1>4, <1>5, <1>6, <1>7, <1>8, Changes

\* A run that has emptied the directory restores it, or a second fault ends it at
\* the stage from which a later run does.
LEMMA RestoringKept ==
  ASSUME TypeOK, RunFits, Copied, [Next]_vars, TwoFaults', Has, ~AtMost(0), Restoring
  PROVE  Kept'
<1> SUFFICES \/ held' \subseteq live'.data
             \/ Has' /\ ~AtMost(0)' /\ Restoring'
             \/ Has' /\ ~AtMost(1)' /\ Dangling'
  BY DEF Kept
<1>1. TypeOK' /\ TwoFaults
  BY TypeOKNext, TwoFaultsFade
<1>2. /\ run.on /\ live.major = "none" /\ Reached = 3
      /\ 8 \in run.steps /\ \A j \in run.steps : 8 <= j
      /\ run \in Migrations
  BY RestoringIs DEF TypeOK
<1>3. platform = "none"
  BY <1>1, <1>2 DEF RunFits, TwoFaults, Never
<1>4. ~AtMost(0)' /\ (faults' # faults => ~AtMost(1)')
  BY TwoFaultsFade
<1>5. CASE Restore
  BY <1>5, RestoreBrings
<1>6. CASE Record
  <2>1. UNCHANGED <<live, dump, held>> /\ run.due # None
    BY <1>6 DEF Record, user
  <2>2. Has'
    BY <2>1 DEF Has
  <2>3. CASE manifest' = [stage |-> run.due, inv |-> run.inv]
             /\ run' = [run EXCEPT !.due = None]
    <3>1. run'.on /\ run'.steps = run.steps /\ run'.due = None
      BY <1>2, <2>3 DEF Migrations
    <3>2. Reached' = 3
      BY <1>2, <2>1, <2>3, <3>1 DEF Reached
    <3>3. Restoring'
      BY <1>1, <1>2, <2>1, <3>1, <3>2, WillBeRestoring
    <3> QED
      BY <1>4, <2>2, <3>3
  <2>4. CASE manifest' = NoManifest /\ Fault("manifest") /\ Fails
    <3>1. Dangling'
      BY <1>2, <2>1, <2>4 DEF Dangling, Fails, NoRun, NoManifest
    <3>2. faults' # faults
      BY <2>4, FaultFits, FaultsCount
    <3> QED
      BY <1>4, <2>2, <3>1, <3>2
  <2> QED
    BY <1>6, <2>3, <2>4 DEF Record
<1>7. CASE Interrupt
  <2>1. UNCHANGED <<live, dump, manifest, held>> /\ run' = NoRun
    BY <1>7 DEF Interrupt, volumes, user
  <2>2. \E kind \in {"crash", "unrecorded"} :
          Fault(kind) /\ (run.due # None => kind = "unrecorded")
    BY <1>7 DEF Interrupt
  <2>3. run.due = None
    BY <2>2, FaultFits DEF TwoFaults, Never
  <2>4. Dangling'
    BY <1>2, <2>1, <2>3, StageNumbers DEF Dangling, NoRun, Reached
  <2>5. faults' # faults
    BY <2>2, FaultFits, FaultsCount
  <2> QED
    BY <1>4, <2>1, <2>4, <2>5 DEF Has
<1>8. CASE UNCHANGED vars
  <2>1. /\ UNCHANGED <<live, dump, held>> /\ run'.on /\ run'.steps = run.steps
        /\ Reached' = 3
    BY <1>2, <1>8 DEF vars, Reached
  <2>2. Restoring'
    BY <1>1, <1>2, <2>1, WillBeRestoring
  <2> QED
    BY <1>4, <2>1, <2>2 DEF Has
<1>9. /\ ~NothingToDo /\ ~Begin /\ ~RollBack /\ ~StopPlatform /\ ~Finish
      /\ ~ \E o \in Objects : Use(o)
  BY <1>2, <1>3 DEF NothingToDo, Begin, RollBack, StopPlatform, Finish, Use
<1>10. ~ \E major \in Majors : StartPlatform(major)
  BY <1>2, FaultFits DEF StartPlatform, TwoFaults, Never
<1>11. /\ ~Pull /\ ~RemoveHelper /\ ~Inventory /\ ~Backup /\ ~Dump /\ ~CheckDump
       /\ ~Wipe /\ ~Verify /\ ~DropDump
  BY <1>2, StepsGo DEF Goes, At
<1>12. ~NoServer
  BY <1>2, DoingIs DEF NoServer, Serves, At
<1> QED
  BY <1>5, <1>6, <1>7, <1>8, <1>9, <1>10, <1>11, <1>12 DEF Next, Command, User

\* A directory that no run dumps again is restored, or stays as it is.
LEMMA DanglingKept ==
  ASSUME TypeOK, RunFits, InOrder, Copied, [Next]_vars, TwoFaults', Has, ~AtMost(1),
         Dangling, backup.is # "nothing"
  PROVE  Kept'
<1> DEFINE Forth == /\ live.major \in {"none", "new"}
                    /\ run.on => 7 \notin run.steps /\ 8 \in run.steps
                    /\ ~run.on => manifest.stage = 0 \/ manifest.stage = 3
           Nowhere == /\ live.major = "broken" /\ manifest.stage = 2 /\ run.due = 0
                      /\ run.on => 5 \in run.steps /\ 4 \notin run.steps /\ 3 \notin run.steps
<1>1. TypeOK' /\ faults' = faults /\ ~AtMost(1)'
  BY TypeOKNext, TwoFaultsFade
<1>2. \A kind : ~Fault(kind)
  BY <1>1, FaultFits, FaultsCount
<1>3. Forth \/ Nowhere
  BY LeftIs, StageNumbers DEF Dangling
<1> SUFFICES \/ held' \subseteq live'.data
             \/ Has' /\ (Forth' \/ Nowhere')
  <2>1. Forth' \/ Nowhere' => Dangling'
    BY <1>1, LeftWillBe, StageNumbers DEF Dangling
  <2> QED
    BY <1>1, <2>1 DEF Kept
<1>4. held' = held /\ dump' = dump => Has'
  BY DEF Has
<1>5. run \in Migrations /\ run.on \in BOOLEAN /\ manifest.stage \in 0..5
  BY StageNumbers DEF TypeOK, Migrations
<1> HIDE DEF Forth, Nowhere
<1>6. CASE Begin
  <2>1. PICK keepDump \in BOOLEAN :
          run' = [on |-> TRUE, steps |-> Steps(manifest.stage, keepDump), due |-> None,
                  inv |-> manifest.inv]
    BY <1>2, <1>6 DEF Begin
  <2>2. UNCHANGED <<live, dump, manifest, held>> /\ ~run.on /\ Planned(manifest)
    BY <1>2, <1>6 DEF Begin, volumes, user
  <2>3. manifest.stage # 0
    BY <1>3, <2>2, StageNumbers DEF Forth, Nowhere, Planned, Mismatch, Resumable
  <2>4. manifest.stage \in Stages
    BY DEF TypeOK
  <2> QED
    BY <1>3, <1>4, <1>5, <2>1, <2>2, <2>3, <2>4, StepsIs, StageNumbers DEF Forth, Nowhere
<1>7. CASE Pull \/ RemoveHelper
  <2>1. /\ Goes(1, None, run.inv) \/ Goes(2, None, run.inv)
        /\ UNCHANGED <<live, dump, manifest, held>>
    BY <1>7, StepsGo DEF Pull, RemoveHelper, volumes, user
  <2> QED
    BY <1>3, <1>4, <2>1, StageNumbers DEF Forth, Nowhere, Goes, At
<1>8. CASE Backup
  <2>1. UNCHANGED <<live, dump, manifest, held>> /\ Goes(4, BackedUp, run.inv)
    BY <1>2, <1>8, StepsGo, DoneGoes DEF Backup, user
  <2> QED
    BY <1>3, <1>4, <2>1 DEF Forth, Nowhere, Goes, At
<1>9. CASE CheckDump
  <2>1. UNCHANGED <<live, dump, manifest, held>> /\ Goes(6, Dumped, run.inv)
    BY <1>9, StepsGo DEF CheckDump, volumes, user, Has
  <2> QED
    BY <1>3, <1>4, <2>1 DEF Forth, Nowhere, Goes, At
<1>10. CASE Restore
  BY <1>10, RestoreBrings
<1>11. CASE NoServer
  <2>1. UNCHANGED <<live, dump, manifest, held>> /\ run' = NoRun
    BY <1>11 DEF NoServer, volumes, user, Fails
  <2>2. \/ (At(3) \/ At(5)) /\ ~Serves("old")
        \/ (At(8) \/ At(9)) /\ ~Serves("new")
    BY <1>11, DoingIs DEF NoServer
  <2>3. ~Forth
    <3>1. At(3) \/ At(5) => run.on /\ 7 \in run.steps
      BY OrderIs DEF At
    <3>2. At(9) => run.on /\ 8 \notin run.steps
      BY DEF At
    <3> QED
      BY <2>2, <3>1, <3>2 DEF Forth, Serves
  <2> QED
    BY <1>3, <1>4, <2>1, <2>3, StageNumbers DEF Nowhere, NoRun
<1>12. CASE Record
  <2>1. UNCHANGED <<live, dump, held>> /\ run.due # None
        /\ run' = [run EXCEPT !.due = None]
    BY <1>2, <1>12 DEF Record, user
  <2>2. run'.on = run.on /\ run'.steps = run.steps
    BY <1>5, <2>1 DEF Migrations
  <2>3. run.on
    BY <2>1 DEF RunFits, NoRun
  <2> QED
    BY <1>3, <1>4, <2>1, <2>2, <2>3, StageNumbers DEF Forth, Nowhere
<1>13. CASE \E major \in Majors : StartPlatform(major)
  <2>1. PICK major \in Majors : StartPlatform(major)
    BY <1>13
  <2>2. /\ ~run.on /\ ~(major = "old" /\ live.major = "none") /\ Serves(major)
        /\ live' = Initialised(major) /\ UNCHANGED <<dump, manifest, run, held>>
    BY <1>2, <2>1 DEF StartPlatform
  <2> QED
    BY <1>3, <1>4, <2>2 DEF Forth, Nowhere, Serves, Initialised, Majors
<1>14. CASE \E o \in Objects : Use(o)
  BY <1>14 DEF Use, TypeOK, Directories
<1>15. CASE UNCHANGED <<live, dump, manifest, run, held>>
  BY <1>3, <1>4, <1>15 DEF Forth, Nowhere
<1>16. NothingToDo \/ StopPlatform \/ UNCHANGED vars
         => UNCHANGED <<live, dump, manifest, run, held>>
  BY DEF NothingToDo, StopPlatform, vars, volumes, user
<1>17. ~Interrupt /\ ~RollBack
  BY <1>2 DEF Interrupt, RollBack
<1>18. ~Inventory /\ ~Dump /\ ~Wipe /\ ~Verify /\ ~DropDump /\ ~Finish
  <2>1. ~Finish
    BY <1>3 DEF Finish, Forth, Nowhere
  <2>2. ~Dump
    <3>1. Dump => At(5) /\ Serves("old")
      BY StepsGo DEF Dump, Goes
    <3>2. At(5) => run.on /\ 7 \in run.steps
      BY OrderIs DEF At
    <3> QED
      BY <1>3, <3>1, <3>2 DEF Forth, Nowhere, Serves
  <2>3. ~Inventory /\ ~Wipe /\ ~Verify /\ ~DropDump
    <3>1. ~At(3)
      <4>1. At(3) => run.on /\ 3 \in run.steps /\ 7 \in run.steps
        BY OrderIs DEF At
      <4> QED
        BY <1>3, <4>1 DEF Forth, Nowhere
    <3>2. ~At(7) /\ ~At(9) /\ ~At(10)
      BY <1>3 DEF Forth, Nowhere, At
    <3> QED
      BY <3>1, <3>2, StepsGo DEF Goes
  <2> QED
    BY <2>1, <2>2, <2>3
<1> QED
  BY <1>6, <1>7, <1>8, <1>9, <1>10, <1>11, <1>12, <1>13, <1>14, <1>15, <1>16, <1>17, <1>18
  DEF Next, Command, User

\* One fault at least makes a backup stale, one more empties the directory for good.
LEMMA TwoFaultsKeepNext ==
  ASSUME TypeOK, RunFits, InOrder, Copied, WipeReady, Clean, TwoFaultsKeep, [Next]_vars
  PROVE  TwoFaultsKeep'
<1> SUFFICES ASSUME TwoFaults' PROVE Kept'
  BY DEF TwoFaultsKeep, TwoFaults, Kept
<1>1. Kept
  BY TwoFaultsFade DEF TwoFaultsKeep, TwoFaults, Kept
<1> QED
  BY <1>1, BackedUpKept, HereKept, RestoringKept, DanglingKept DEF Kept

-----------------------------------------------------------------------------
(* Theorems                                                                *)

\* It holds of the data the first run finds.
LEMMA InitInv ==
  ASSUME Init
  PROVE  IInv
<1>1. PICK data \in SUBSET Objects :
        held = data \cup {Base} /\ live = [major |-> "old", data |-> held]
  BY DEF Init
<1>2. /\ dump = [whole |-> FALSE, data |-> {}] /\ backup = [is |-> "nothing", data |-> {}]
      /\ manifest = [stage |-> 0, inv |-> {}] /\ helper = "none" /\ platform = "none"
      /\ run = [on |-> FALSE, steps |-> {}, due |-> 0, inv |-> {}]
      /\ said = "quiet" /\ uses = 0 /\ faults = [left |-> MaxFaults, met |-> {}]
  BY StageNumbers DEF Init, NoDump, NoBackup, NoManifest, NoRun
<1>3. held \in Contents /\ {} \in Contents
  BY <1>1 DEF Contents
<1>4. TypeOK
  <2>1. live \in Directories /\ run \in Migrations
    BY <1>1, <1>2, <1>3, StageNumbers DEF Directories, Majors, Migrations
  <2>2. uses \in 0..MaxUses /\ faults \in [left : 0..MaxFaults, met : SUBSET Faults]
    BY <1>2, UpgradeAssumption
  <2>3. manifest \in [stage : Stages, inv : Contents] /\ ~(manifest.stage >= BackedUp)
    BY <1>2, <1>3, StageNumbers
  <2>4. dump \in [whole : BOOLEAN, data : Contents]
    BY <1>2, <1>3
  <2> QED
    BY <1>2, <1>3, <2>1, <2>2, <2>3, <2>4 DEF TypeOK
<1>5. RunFits
  BY <1>2, StageNumbers DEF RunFits, NoRun
<1>6. InOrder /\ WipeReady
  BY <1>2, <1>4, LeftIs DEF InOrder, WipeReady
<1>7. Copied
  BY <1>1, <1>2, StageNumbers DEF Copied, Lost
<1>8. StagesAhead
  BY <1>2 DEF StagesAhead
<1>9. Intact
  BY <1>1 DEF Intact, Majors
<1>10. RecordsTrue /\ ReportIsTrue /\ Forward
  BY <1>1, <1>2, <1>9, StageNumbers DEF RecordsTrue, ReportIsTrue, Forward
<1>11. Clean /\ TwoFaultsKeep
  BY <1>2 DEF Clean, TwoFaultsKeep
<1> QED
  BY <1>4, <1>5, <1>6, <1>7, <1>8, <1>10, <1>11 DEF IInv

\* The inductive invariant: what is left to do, and where the data is at each stage.
THEOREM Inductive == Spec => []IInv
<1>1. IInv /\ [Next]_vars => IInv'
  BY TypeOKNext, RunFitsNext, InOrderNext, CopiedNext, WipeReadyNext, StagesAheadNext,
     RecordsTrueNext, ReportIsTrueNext, ForwardNext, CleanNext, TwoFaultsKeepNext DEF IInv
<1> QED
  BY InitInv, <1>1, PTL DEF Spec

\* The volumes hold contents, and no stage is on record without a backup.
THEOREM TypeOKHolds == Spec => []TypeOK
<1>1. IInv => TypeOK
  BY DEF IInv
<1> QED
  BY <1>1, Inductive, PTL

(***************************************************************************)
(* What the command reports is true, whatever failed unseen on the way.    *)
(***************************************************************************)
THEOREM ReportIsTrueHolds == Spec => []ReportIsTrue
<1>1. IInv => ReportIsTrue
  BY DEF IInv
<1> QED
  BY <1>1, Inductive, PTL

(***************************************************************************)
(* What the directory lacks the dump has, as long as no run is cut off and *)
(* every manifest is read back: every resume goes forward.                 *)
(***************************************************************************)
THEOREM ForwardUnlessCutOffHolds == Spec => []ForwardUnlessCutOff
<1>1. IInv => ForwardUnlessCutOff
  <2>1. Intact => held \subseteq live.data
    BY DEF Intact
  <2> QED
    BY <2>1 DEF IInv, Forward, ForwardUnlessCutOff, DumpIsTheWayForward
<1> QED
  BY <1>1, Inductive, PTL

(***************************************************************************)
(* The directory is emptied only of what the dump has, and only while no   *)
(* server holds it: whatever stage a run resumes from, whatever failed.    *)
(***************************************************************************)
THEOREM WipeOnlyProvenHolds == Spec => WipeOnlyProven
<1>1. IInv /\ [Next]_vars =>
        [~Lost /\ Lost' /\ (Untouched \/ Never({"start"}))
          => dump.whole /\ live.data \subseteq dump.data /\ platform = "none"]_vars
  <2> SUFFICES ASSUME IInv, [Next]_vars, ~Lost, Lost', Untouched \/ Never({"start"})
               PROVE  dump.whole /\ live.data \subseteq dump.data /\ platform = "none"
    OBVIOUS
  <2>1. TypeOK
    BY DEF IInv
  <2>2. Wipe
    <3>1. ASSUME NEW major \in Majors, live' = Initialised(major)
          PROVE  FALSE
      BY <3>1, <2>1, InitialisedFits DEF Initialised, Lost, Majors
    <3>2. ~ Restore
      BY <2>1, ReplayedFits DEF Restore, Lost
    <3>3. ~ Verify /\ ~ Inventory /\ ~ Dump /\ ~ \E major \in Majors : StartPlatform(major)
      BY <3>1 DEF Verify, Inventory, Dump, StartPlatform, Majors, Lost
    <3>4. ~ RollBack
      BY DEF RollBack, Lost
    <3>5. ~ \E o \in Objects : Use(o)
      BY <2>1 DEF Use, Lost, TypeOK, Directories
    <3> QED
      BY <3>2, <3>3, <3>4, <3>5, Changes DEF Lost
  <2>3. MayWipe /\ At(7)
    BY <2>1, <2>2, StepsGo DEF Wipe, Lost
  <2>4. Left("wipe") /\ ~Left("dump") /\ run.on
    BY <2>1, <2>3, LeftIs DEF At
  <2> QED
    BY <2>3, <2>4 DEF IInv, WipeReady, MayWipe
<1> QED
  BY <1>1, Inductive, PTL DEF Spec, WipeOnlyProven

(***************************************************************************)
(* All of the user's data is in one of the three volumes: what the first   *)
(* run found, whatever fails or dies and however often the command is run  *)
(* again, unless the copy of the directory was torn; and what he wrote     *)
(* between the runs, through two faults that are not a restore cut short   *)
(* or a stage unrecorded.                                                  *)
(***************************************************************************)
THEOREM RecoverableHolds == Spec => []Recoverable
<1>1. IInv => Recoverable
  <2> SUFFICES ASSUME IInv,
                      \/ Untouched /\ Never({"copy"})
                      \/ AtMost(2) /\ Never({"start", "unrecorded", "restore", "silent"})
               PROVE  Somewhere
    BY DEF Recoverable
  <2>1. backup.is \in {"nothing", "torn", "whole"}
    BY DEF IInv, TypeOK
  <2>2. backup.is = "nothing" => held \subseteq live.data
    BY DEF IInv, Copied
  <2>3. CASE Untouched /\ Never({"copy"})
    BY <2>1, <2>2, <2>3 DEF IInv, Copied, Somewhere, Never
  <2>4. CASE AtMost(2) /\ Never({"start", "unrecorded", "restore", "silent"})
    BY <2>2, <2>4 DEF IInv, TwoFaultsKeep, Fresh, Has, Somewhere
  <2> QED
    BY <2>3, <2>4
<1> QED
  BY <1>1, Inductive, PTL
=============================================================================
