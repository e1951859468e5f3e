----------------------------- MODULE PgUpgrade -----------------------------
(***************************************************************************)
(* nsctl db upgrade: the migration of one PostgreSQL data directory across *)
(* a major version, in place, by stages that a later run resumes.          *)
(*                                                                         *)
(* Three Docker volumes: the live data directory, the dump volume (the SQL *)
(* dump and the stage manifest) and the backup volume (a byte copy of the  *)
(* old directory).  A directory is the major that wrote it and the set of  *)
(* objects it holds (databases and roles with their contents; Base is what *)
(* every initdb makes).  One step of a plan is one or two actions: what it *)
(* does to the volumes, and the record of the stage it reached, between    *)
(* which the command may die.                                              *)
(*                                                                         *)
(* Faults names what may go wrong and MaxFaults how often in a behaviour;  *)
(* MaxUses bounds what the user writes.                                    *)
(***************************************************************************)
EXTENDS Integers, Sequences

CONSTANTS Objects,   \* what the user's cluster may hold
          Base,      \* what every new cluster holds
          Faults,    \* what may go wrong, a subset of AllFaults
          MaxFaults, \* how many times
          MaxUses    \* how many times the user changes his data

AllFaults == {"crash",      \* the command dies, its helper may stay up
              "unrecorded", \* ... between a step and the record of it
              "copy",       \* cp fails partway
              "dump",       \* pg_dumpall leaves a truncated file
              "wipe",       \* rm -rf stops partway
              "restore",    \* psql reports what a restore may not
              "silent",     \* psql restores a part and says nothing
              "manifest",   \* the manifest is cut short as it is written
              "unread",     \* the manifest cannot be read
              "kept",       \* the dump volume cannot be removed
              "start",      \* a database is started while the command runs
              "pin",        \* the old image is started on an emptied directory
              "rollback"}   \* the user copies the backup back, by hand

ASSUME UpgradeAssumption ==
    /\ Base \notin Objects
    /\ Faults \subseteq AllFaults
    /\ MaxFaults \in Nat /\ MaxUses \in Nat

VARIABLES live,     \* the live data directory
          dump,     \* the SQL dump in the dump volume
          backup,   \* the backup volume
          manifest, \* the stage manifest in the dump volume
          helper,   \* the major of the helper server on the live volume
          platform, \* the major of the database Floci runs on it
          run,      \* the migration that runs: steps left, stage due, inventory
          said,     \* what the last command reported
          held,     \* what the user's data is
          uses,
          faults    \* how many may still happen, and which have

vars == <<live, dump, backup, manifest, helper, platform, run, said, held, uses, faults>>

Contents == SUBSET (Objects \cup {Base})
Majors == {"old", "new"}

\* The stages in the order they are reached.
None == 0
BackedUp == 1
Dumped == 2
Wiped == 3
Restored == 4
Verified == 5
Stages == None..Verified

Empty == [major |-> "none", data |-> {}]
Broken == [major |-> "broken", data |-> {}]
NoDump == [whole |-> FALSE, data |-> {}]
NoBackup == [is |-> "nothing", data |-> {}]
NoManifest == [stage |-> None, inv |-> {}]
NoRun == [on |-> FALSE, steps |-> {}, due |-> None, inv |-> {}]

\* Mutant: the dump volume goes when it has been restored, before it is verified.
AllStepsDropFirst ==
    <<"pull", "remove-helper", "inventory", "backup", "dump", "check-dump",
      "wipe", "restore", "drop-dump", "verify">>

\* Mutant: the copy is made when the directory has been emptied.
AllStepsBackupLate ==
    <<"pull", "remove-helper", "inventory", "dump", "check-dump", "wipe",
      "backup", "restore", "verify", "drop-dump">>

\* Every step, with the stage at which it is already done; a step with stage
\* None runs every time.
AllSteps == <<"pull", "remove-helper", "inventory", "backup", "dump",
              "check-dump", "wipe", "restore", "verify", "drop-dump">>

\* Mutant: a dump that was taken is not taken again (the stage at which dump is done).
DoneAtDumped(kind) ==
    CASE kind \in {"inventory", "dump"} -> Dumped
      [] kind = "backup"     -> BackedUp
      [] kind = "check-dump" -> Restored
      [] kind = "wipe"       -> Wiped
      [] kind = "restore"    -> Restored
      [] kind = "verify"     -> Verified
      [] OTHER               -> None

DoneAt(kind) ==
    CASE kind = "inventory"  -> Dumped
      [] kind = "backup"     -> BackedUp
      [] kind = "dump"       -> Wiped
      [] kind = "check-dump" -> Restored
      [] kind = "wipe"       -> Wiped
      [] kind = "restore"    -> Restored
      [] kind = "verify"     -> Verified
      [] OTHER               -> None

\* What is left to do of a migration that reached this stage: places in AllSteps.
Steps(resume, keepDump) ==
    {i \in 1..Len(AllSteps) :
        /\ ~(AllSteps[i] = "drop-dump" /\ keepDump)
        /\ DoneAt(AllSteps[i]) = None \/ resume < DoneAt(AllSteps[i])}

Init == /\ \E data \in SUBSET Objects :
              /\ held = data \cup {Base}
              /\ live = [major |-> "old", data |-> held]
        /\ dump = NoDump /\ backup = NoBackup /\ manifest = NoManifest
        /\ helper = "none" /\ platform = "none" /\ run = NoRun
        /\ said = "quiet" /\ uses = 0 /\ faults = [left |-> MaxFaults, met |-> {}]

Fault(kind) == /\ kind \in Faults /\ faults.left > 0
               /\ faults' = [left |-> faults.left - 1, met |-> faults.met \cup {kind}]

volumes == <<live, dump, backup, manifest>>
user == <<platform, held, uses>>

-----------------------------------------------------------------------------
(* Planning: BuildPlan, Gate and the start of volume().                    *)

\* The detector sees a directory by its PG_VERSION, which neither an emptied
\* directory has nor one that rm -rf stopped in, PG_VERSION sorting first.
Mismatch == live.major = "old"

\* Mutant: a migration is found by its mismatch alone.
ResumableNever(m) == FALSE

\* A migration the detector cannot see, found by the manifest of its dump.
Resumable(m) == m.stage # None /\ m.stage < Verified

\* A manifest that cannot be read is one that is not there.
Planned(m) == Mismatch \/ Resumable(m)

\* The command looks for something to do and finds nothing.
NothingToDo ==
    /\ ~run.on
    /\ \E m \in {manifest, NoManifest} :
          /\ ~Planned(m)
          /\ IF m = manifest THEN UNCHANGED faults ELSE Fault("unread")
    /\ said' = "nothing"
    /\ UNCHANGED <<volumes, helper, user, run>>

\* The plan is made and the gate lets it through: nothing but a helper of ours
\* runs on the volume.  The manifest is read for the plan and once more for the
\* inventory it carries.
Begin ==
    /\ ~run.on /\ platform = "none"
    /\ \E m, again \in {manifest, NoManifest}, keepDump \in BOOLEAN :
          /\ Planned(m)
          /\ IF m = manifest /\ again = manifest THEN UNCHANGED faults ELSE Fault("unread")
          /\ run' = [on |-> TRUE, steps |-> Steps(m.stage, keepDump),
                     due |-> None, inv |-> again.inv]
    /\ said' = "quiet"
    /\ UNCHANGED <<volumes, helper, user>>

-----------------------------------------------------------------------------
(* The steps.  A step that records a stage leaves it due; a step that fails *)
(* ends the command, which removes its helper.                              *)

First(i) == i \in run.steps /\ \A j \in run.steps : i <= j
NextIs(kind) == \E i \in run.steps : First(i) /\ AllSteps[i] = kind
Doing(kind) == run.on /\ run.due = None /\ NextIs(kind)

Rest == {i \in run.steps : ~First(i)}
Done(stage) == /\ run' = [run EXCEPT !.steps = Rest, !.due = stage]
               /\ UNCHANGED said

Fails == run' = NoRun /\ helper' = "none" /\ said' = "failed"

\* What a server of a major does with the directory: an empty one it
\* initialises, one of another major or a broken one it does not start on.
Serves(major) == live.major \in {"none", major}
Initialised(major) ==
    IF live.major = "none" THEN [major |-> major, data |-> {Base}] ELSE live

Pull == Doing("pull") /\ Done(None) /\ UNCHANGED <<volumes, helper, user, faults>>

RemoveHelper == /\ Doing("remove-helper") /\ helper' = "none" /\ Done(None)
                /\ UNCHANGED <<volumes, user, faults>>

Inventory ==
    /\ Doing("inventory") /\ Serves("old")
    /\ live' = Initialised("old")
    /\ helper' = "old"
    /\ run' = [run EXCEPT !.steps = Rest, !.inv = live'.data]
    /\ UNCHANGED <<dump, backup, manifest, user, said, faults>>

\* A backup volume that holds anything is a backup, and is kept.
Backup ==
    /\ Doing("backup")
    /\ \/ /\ backup.is # "nothing"
          /\ Done(BackedUp)
          /\ UNCHANGED <<backup, helper, faults>>
       \/ /\ backup.is = "nothing"
          /\ backup' = [is |-> "whole", data |-> live.data]
          /\ helper' = "none" /\ Done(BackedUp)
          /\ UNCHANGED faults
       \/ /\ backup.is = "nothing"
          /\ Fault("copy")
          /\ backup' = [is |-> "torn", data |-> {}]
          /\ Fails
    /\ UNCHANGED <<live, dump, manifest, user>>

\* pg_dumpall exits 0 on a file the disk cut short.
Dump ==
    /\ Doing("dump") /\ Serves("old")
    /\ live' = Initialised("old")
    /\ helper' = "none" /\ Done(None)
    /\ \/ dump' = [whole |-> TRUE, data |-> live'.data] /\ UNCHANGED faults
       \/ dump' = NoDump /\ Fault("dump")
    /\ UNCHANGED <<backup, manifest, user>>

CheckDump ==
    /\ Doing("check-dump")
    /\ IF dump.whole THEN Done(Dumped) /\ UNCHANGED helper ELSE Fails
    /\ UNCHANGED <<volumes, user, faults>>

\* Mutant: the wipe trusts the gate.
MayWipeGated == dump.whole

MayWipe == dump.whole /\ platform = "none"

Wipe ==
    /\ Doing("wipe")
    /\ \/ ~MayWipe /\ Fails /\ UNCHANGED <<live, faults>>
       \/ /\ MayWipe
          /\ helper' = "none" /\ live' = Empty /\ Done(Wiped)
          /\ UNCHANGED faults
       \/ MayWipe /\ Fault("wipe") /\ live' = Broken /\ Fails
    /\ UNCHANGED <<dump, backup, manifest, user>>

\* The dump drops what it will create, and creates it: what is in neither the
\* part that was replayed nor the rest of the dump stays.
Replayed(part) ==
    [major |-> "new", data |-> (Initialised("new").data \ dump.data) \cup part \cup {Base}]

Restore ==
    /\ Doing("restore") /\ Serves("new")
    /\ \/ live' = Replayed(dump.data) /\ helper' = "new" /\ Done(Restored)
          /\ UNCHANGED faults
       \/ \E part \in SUBSET dump.data :
             /\ live' = Replayed(part)
             /\ \/ Fault("restore") /\ Fails
                \/ Fault("silent") /\ helper' = "new" /\ Done(Restored)
    /\ UNCHANGED <<dump, backup, manifest, user>>

\* Mutant: the restore is judged by its own report alone.
VerifyTrusting == /\ Doing("verify") /\ Done(Verified)
                  /\ UNCHANGED <<volumes, helper, user, faults>>

\* The inventory is looked for again; without one there is nothing to look for.
Verify ==
    /\ Doing("verify")
    /\ \/ /\ run.inv = {}
          /\ Done(Verified)
          /\ UNCHANGED <<live, helper>>
       \/ /\ run.inv # {} /\ Serves("new")
          /\ live' = Initialised("new")
          /\ IF run.inv \subseteq live'.data
             THEN Done(Verified) /\ helper' = "new"
             ELSE Fails
    /\ UNCHANGED <<dump, backup, manifest, user, faults>>

\* The manifest is in the dump volume and goes with it; a volume that cannot be
\* removed is only warned about.
DropDump ==
    /\ Doing("drop-dump")
    /\ helper' = "none" /\ Done(None)
    /\ \/ dump' = NoDump /\ manifest' = NoManifest /\ UNCHANGED faults
       \/ Fault("kept") /\ UNCHANGED <<dump, manifest>>
    /\ UNCHANGED <<live, backup, user>>

\* No server starts on the directory: it is of another major, or broken.
NoServer ==
    /\ \/ (Doing("inventory") \/ Doing("dump")) /\ ~Serves("old")
       \/ (Doing("restore") \/ (Doing("verify") /\ run.inv # {})) /\ ~Serves("new")
    /\ Fails
    /\ UNCHANGED <<volumes, user, faults>>

\* The stage is recorded after its step.
Record ==
    /\ run.due # None
    /\ \/ /\ manifest' = [stage |-> run.due, inv |-> run.inv]
          /\ run' = [run EXCEPT !.due = None]
          /\ UNCHANGED <<said, helper, faults>>
       \/ manifest' = NoManifest /\ Fault("manifest") /\ Fails
    /\ UNCHANGED <<live, dump, backup, user>>

Finish ==
    /\ run.on /\ run.due = None /\ run.steps = {}
    /\ run' = NoRun /\ helper' = "none" /\ said' = "migrated"
    /\ UNCHANGED <<volumes, user, faults>>

\* The command dies or a call of it fails: its helper is removed, or is not.
Interrupt ==
    /\ run.on
    /\ Fault(IF run.due = None THEN "crash" ELSE "unrecorded")
    /\ run' = NoRun /\ said' = "failed"
    /\ helper' \in {helper, "none"}
    /\ UNCHANGED <<volumes, user>>

-----------------------------------------------------------------------------
(* The user and the platform.                                              *)

\* The pre-flight of a start refuses a directory of another major, and only
\* that.  The user may have pinned the old image.
StartPlatform(major) ==
    /\ platform = "none" /\ Serves(major)
    /\ CASE run.on -> Fault("start")
         [] ~run.on /\ major = "old" /\ live.major = "none" -> Fault("pin")
         [] OTHER -> UNCHANGED faults
    /\ platform' = major /\ live' = Initialised(major)
    /\ said' = "quiet"
    /\ UNCHANGED <<dump, backup, manifest, helper, run, held, uses>>

StopPlatform ==
    /\ platform # "none" /\ platform' = "none"
    /\ UNCHANGED <<volumes, helper, run, said, held, uses, faults>>

\* A user who finds his data creates a database or drops one.
Use(o) ==
    /\ platform # "none" /\ uses < MaxUses
    /\ live.data = held
    /\ held' = IF o \in held THEN held \ {o} ELSE held \cup {o}
    /\ live' = [live EXCEPT !.data = held']
    /\ uses' = uses + 1 /\ said' = "quiet"
    /\ UNCHANGED <<dump, backup, manifest, helper, platform, run, faults>>

\* The old directory is copied back, by hand, as the command says it may be.
RollBack ==
    /\ ~run.on /\ platform = "none" /\ helper = "none"
    /\ backup.is = "whole" /\ Fault("rollback")
    /\ live' = [major |-> "old", data |-> backup.data]
    /\ held' = backup.data /\ said' = "quiet"
    /\ UNCHANGED <<dump, backup, manifest, helper, platform, run, uses>>

-----------------------------------------------------------------------------
Command == \/ NothingToDo \/ Begin
           \/ Pull \/ RemoveHelper \/ Inventory \/ Backup \/ Dump \/ CheckDump
           \/ Wipe \/ Restore \/ Verify \/ DropDump \/ NoServer
           \/ Record \/ Finish

User == \/ \E major \in Majors : StartPlatform(major)
        \/ StopPlatform
        \/ \E o \in Objects : Use(o)
        \/ RollBack

Next == Command \/ Interrupt \/ User

Spec == Init /\ [][Next]_vars

\* The user runs the command again after a failure, and stops the platform for
\* it now and then.
FairSpec == Spec /\ SF_vars(Command) /\ WF_vars(StopPlatform)

-----------------------------------------------------------------------------
(* Properties.                                                             *)

Directories == [major : Majors \cup {"none", "broken"}, data : Contents]
Migrations == [on : BOOLEAN, steps : SUBSET (1..Len(AllSteps)), due : Stages, inv : Contents]

\* The volumes hold contents, the manifest a stage and the plan known steps, and
\* no stage is on record without something in the backup volume.
TypeOK ==
    /\ live \in Directories
    /\ dump \in [whole : BOOLEAN, data : Contents]
    /\ backup \in [is : {"nothing", "torn", "whole"}, data : Contents]
    /\ manifest \in [stage : Stages, inv : Contents]
    /\ helper \in Majors \cup {"none"} /\ platform \in Majors \cup {"none"}
    /\ run \in Migrations
    /\ said \in {"quiet", "nothing", "failed", "migrated"}
    /\ manifest.stage >= BackedUp => backup.is # "nothing"
    /\ held \in Contents /\ uses \in 0..MaxUses
    /\ faults \in [left : 0..MaxFaults, met : SUBSET Faults]

Lost == live.major \in {"none", "broken"}

\* Which faults have happened decides what is promised: a property names those
\* under which the code does not keep it.
Never(kinds) == faults.met \cap kinds = {}
AtMost(n) == MaxFaults - faults.left <= n
Untouched == uses = 0

\* The live directory is emptied only when the dump is whole and holds all that
\* is in it, and only while no server holds it: whatever stage a run resumes
\* from and whatever failed before (Executor.wipe, steps).  Not what a database
\* started during the run took in.
WipeOnlyProven ==
    [][~Lost /\ Lost' /\ (Untouched \/ Never({"start"}))
       => /\ dump.whole /\ live.data \subseteq dump.data
          /\ platform = "none"]_vars

\* All of the user's data is to be had somewhere: in the live directory, in a
\* whole dump, or in a whole backup (the three volumes of the package).
Somewhere ==
    \/ held \subseteq live.data
    \/ dump.whole /\ held \subseteq dump.data
    \/ backup.is = "whole" /\ held \subseteq backup.data

\* Whatever fails or dies, and however often the command is run again, the data
\* the first run found is not lost, unless the copy of the directory was torn.
\* Nor is what the user wrote between the runs, through two faults that are not
\* a restore cut short or a stage unrecorded: the dump is taken again.
Recoverable ==
    (\/ Untouched /\ Never({"copy"})
     \/ AtMost(2) /\ Never({"start", "unrecorded", "restore", "silent"}))
      => Somewhere

\* While the live directory lacks some of the data the dump has it, so that a
\* resume forward brings it back ("the dump is the only way forward").
DumpIsTheWayForward ==
    ~(held \subseteq live.data) => dump.whole /\ held \subseteq dump.data

\* So it is as long as no run is cut off and every manifest is read back.
ForwardUnlessCutOff ==
    Untouched /\ Never({"crash", "unrecorded", "start", "unread", "manifest"})
      => DumpIsTheWayForward

\* What the command reports is true, whatever failed unseen on the way: one that
\* says it migrated left a directory of the new major with all the user had, one
\* that found nothing to migrate left no data in a dump beside an empty directory
\* (Executor.verify, resumable, db.go).
ReportIsTrue ==
    Untouched /\ Never({"unread", "manifest"}) =>
      /\ said = "migrated" /\ Never({"rollback"})
           => live.major = "new" /\ held \subseteq live.data
      /\ said = "nothing" => held \subseteq live.data

\* A user who runs the command again gets his data migrated, whatever step had
\* failed: every stage resumes (steps, resumable).  Not after a wipe that stops
\* partway or a restore that failed unseen, which every later run trips over,
\* nor, if a run is cut off or a restore fails, after a second fault.
Migrates ==
    <>(\/ live.major = "new" /\ held \subseteq live.data
          /\ said \in {"migrated", "nothing"}
       \/ ~Untouched
       \/ ~Never({"wipe", "silent", "unrecorded", "manifest", "start"})
       \/ ~AtMost(1) /\ ~Never({"crash", "restore"}))

-----------------------------------------------------------------------------
(* The inductive invariant.                                                *)

Left(kind) == \E i \in run.steps : AllSteps[i] = kind

\* The stage whose step is done, recorded or about to be.
Reached == IF run.due = None THEN manifest.stage ELSE run.due

\* All of the data, and nothing else, is in a directory a server starts on.
Intact == live.major \in Majors /\ live.data = held

\* A migration that runs has said nothing, and a database beside it is a fault.
RunFits == /\ ~run.on => run = NoRun
           /\ run.on => said = "quiet"
           /\ run.on /\ platform # "none" => "start" \in faults.met

\* Steps are left in whole tails, and past its check the dump is on record.
InOrder ==
    /\ Left("inventory") => Left("dump")
    /\ Left("backup") => Left("check-dump")
    /\ Left("check-dump") => Left("restore")
    /\ Left("dump") => Left("wipe")
    /\ Left("wipe") => Left("restore")
    /\ Left("restore") => Left("verify")
    /\ run.on /\ Left("verify") /\ ~Left("check-dump") => Reached >= Dumped
    /\ Left("wipe") /\ ~Left("check-dump") => Reached = Dumped

\* Until something is in the backup volume nothing has touched the directory;
\* what is there is what the user has, unless he has written since.
Copied ==
    /\ backup.is = "nothing" =>
         /\ live.major = "old" /\ live.data = held
         /\ run.due = None
         /\ run.on => Left("backup")
    /\ backup.is = "torn" => "copy" \in faults.met
    /\ Base \in held
    /\ Lost => live.data = {}
    /\ backup.is = "whole" => Base \in backup.data
    /\ Untouched => /\ live.data \subseteq held /\ dump.data \subseteq held
                    /\ backup.is = "whole" => backup.data = held

\* From the dump of a run to its wipe the directory gets nothing more.
WipeReady ==
    run.on /\ Left("wipe") /\ ~Left("dump") =>
      /\ live.major = "old"
      /\ (Untouched \/ Never({"start"})) /\ dump.whole => live.data \subseteq dump.data

\* A step that is left is of a stage not reached.
StagesAhead ==
    Never({"unread"}) =>
      \A i \in run.steps : DoneAt(AllSteps[i]) # None =>
        manifest.stage < DoneAt(AllSteps[i]) /\ run.due < DoneAt(AllSteps[i])

\* What a manifest that is never lost says of the directory and of the data.
RecordsTrue ==
    Untouched /\ Never({"unread", "manifest"}) =>
      /\ manifest.stage < Dumped \/ run.due = BackedUp => Intact
      /\ manifest.stage >= Dumped => held \subseteq manifest.inv
      /\ run.on /\ ~Left("inventory") => held \subseteq run.inv
      /\ manifest.stage = Verified \/ (run.on /\ ~Left("verify")) =>
           Intact /\ (Never({"rollback"}) => live.major = "new")

\* Where the data is, as long as no run is cut off either: no run ends with the
\* directory empty, so that what is not in it is in the dump.
Forward ==
    Untouched /\ Never({"crash", "unrecorded", "start", "unread", "manifest"}) =>
      /\ live.major = "none" => run.on /\ ~Left("wipe")
      /\ live.major = "old" => Intact
      /\ (\/ ~Intact
          \/ {manifest.stage, run.due} \cap {Wiped, Restored} # {}
          \/ run.on /\ ~Left("wipe") /\ Left("verify"))
            => dump.whole /\ held \subseteq dump.data

Fresh == backup.is = "whole" /\ held \subseteq backup.data
Has == dump.whole /\ held \subseteq dump.data

\* Without a fault the first run ends with the data migrated; from then on there
\* is nothing to migrate, and the backup is not kept up.
Clean ==
    faults.left = MaxFaults =>
      /\ faults.met = {}
      /\ ~run.on =>
           \/ backup.is = "nothing"
           \/ /\ live.major = "new" /\ held \subseteq live.data
              /\ manifest.stage \in {None, Verified}
      /\ run.on =>
           /\ backup.is # "nothing" => Fresh
           /\ Left("wipe") => live.major = "old" /\ live.data = held
           /\ ~Left("inventory") => run.inv # {} /\ run.inv \subseteq held
           /\ ~Left("dump") /\ Left("verify") => Has
           /\ ~Left("wipe") /\ Left("restore") => live.major = "none"
           /\ ~Left("restore") => live.major = "new" /\ held \subseteq live.data
           /\ ~Left("verify") =>
                \/ Reached = Verified
                \/ ~Left("drop-dump") /\ run.due = None /\ manifest.stage = None

\* A run that has emptied the directory, and will restore it next.
Restoring == run.on /\ live.major = "none" /\ NextIs("restore") /\ Reached = Wiped

\* No migration dumps this directory again: it goes forward, or nowhere.
Dangling ==
    \/ /\ live.major \in {"none", "new"}
       /\ IF run.on THEN ~Left("wipe") /\ Left("restore")
                    ELSE manifest.stage \in {None, Wiped}
    \/ /\ live.major = "broken" /\ manifest.stage = Dumped /\ run.due = None
       /\ run.on => Left("dump") /\ ~Left("backup") /\ ~Left("inventory")

\* A backup goes stale by one fault at least and the dump is lost by two, so that
\* three are needed to lose what the user has written.
TwoFaultsKeep ==
    AtMost(2) /\ Never({"start", "unrecorded", "restore", "silent"}) =>
      \/ backup.is = "nothing" \/ Fresh
      \/ held \subseteq live.data
      \/ Has /\ ~AtMost(0) /\ Restoring
      \/ Has /\ ~AtMost(1) /\ Dangling

IInv == /\ TypeOK /\ RunFits /\ InOrder /\ Copied /\ WipeReady
        /\ StagesAhead /\ RecordsTrue /\ ReportIsTrue /\ Forward
        /\ Clean /\ TwoFaultsKeep
=============================================================================
