---------------------------- MODULE RuntimeRotate ----------------------------
(****************************************************************************)
(* The operator's tools for the runtime install: runtime_install.main       *)
(* stages a tree and hands it to runtime_backup.rotate, which keeps one     *)
(* sibling backup, and runtime_clean.clean removes that backup on request.  *)
(*                                                                          *)
(* A tree is the set of its files; the digest of rotate tells two trees     *)
(* apart exactly when the sets differ.  A rename is one step.  A move to    *)
(* another file system copies file by file and then removes the source      *)
(* file by file, as shutil.move does, and rmtree removes file by file; both *)
(* can fail or be cut off after any file.  One tool runs at a time.         *)
(****************************************************************************)
EXTENDS Naturals

CONSTANTS
    Versions,   \* builds of the package
    Files,      \* the files of a build
    Absent,     \* no directory at a path
    MaxRuns,    \* bound: installs in a behaviour
    MaxFaults   \* bound: failures and crashes in a behaviour

Whole(v) == {v} \X Files
Trees == SUBSET (Versions \X Files)
Place == Trees \cup {Absent}

ASSUME RotateConfigOK ==
    /\ \A t \in Trees : t # Absent
    /\ MaxRuns \in Nat
    /\ MaxFaults \in Nat

VARIABLES
    \* The file system.
    target,     \* the active install
    previous,   \* its sibling <target>.previous
    staged,     \* the tree the install is given
    \* The tool that runs, or the last one.
    pc,
    private,    \* it staged the tree itself, in its own directory
    elsewhere,  \* the staged tree is on another file system
    status,     \* what rotate returns
    runs, faults,
    \* History, read by the properties only.
    found,      \* the active install that rotate found
    wanted,     \* the staged tree that rotate found
    installed   \* an install has ended, and no backup was removed since

disk == <<target, previous, staged>>
tool == <<private, elsewhere>>
bounds == <<runs, faults>>
history == <<found, wanted, installed>>
vars == <<disk, pc, tool, status, bounds, history>>

Deciding == {"building", "rotate"}
Moving == {"drop_target", "drop_previous", "set_aside", "install",
           "copy", "unstage"}
Returned == {"identical", "rotated", "kept_previous"}

TypeOK ==
    /\ target \in Place
    /\ previous \in Place
    /\ staged \in Place
    /\ found \in Place
    /\ wanted \in Place
    /\ pc \in {"idle", "cleanup", "clean"} \cup Deciding \cup Moving
    /\ status \in {"none", "failed"} \cup Returned
    /\ private \in BOOLEAN
    /\ elsewhere \in BOOLEAN
    /\ installed \in BOOLEAN
    /\ runs \in 0..MaxRuns
    /\ faults \in 0..MaxFaults

Init ==
    /\ target = Absent
    /\ previous = Absent
    /\ staged = Absent
    /\ pc = "idle"
    /\ private = FALSE
    /\ elsewhere = FALSE
    /\ status = "none"
    /\ runs = 0
    /\ faults = 0
    /\ found = Absent
    /\ wanted = Absent
    /\ installed = FALSE

-----------------------------------------------------------------------------
(* The operator, between two tools. *)

\* A build is put where --staged will look for it.
Build(v) ==
    /\ pc = "idle"
    /\ staged' = Whole(v)
    /\ UNCHANGED <<target, previous, pc, tool, status, bounds, history>>

\* A backup the operator finds whole is copied over the active install.
Restore ==
    /\ pc = "idle"
    /\ \E v \in Versions : previous = Whole(v)
    /\ target' = previous
    /\ status' = "none"
    /\ found' = previous
    /\ UNCHANGED <<previous, staged, pc, tool, bounds, wanted, installed>>

-----------------------------------------------------------------------------
(* runtime_install --yes: where the tree comes from. *)

\* A run without a directory of its own installs what the operator built.
InstallStaged ==
    /\ pc = "idle"
    /\ runs < MaxRuns
    /\ pc' = "rotate"
    /\ private' = FALSE
    /\ elsewhere' \in BOOLEAN
    /\ status' = "none"
    /\ runs' = runs + 1
    /\ UNCHANGED <<disk, faults, history>>

\* mkdtemp: from here on the staged tree is the one of this run.
InstallPackage ==
    /\ pc = "idle"
    /\ runs < MaxRuns
    /\ pc' = "building"
    /\ private' = TRUE
    /\ elsewhere' \in BOOLEAN
    /\ staged' = {}
    /\ status' = "none"
    /\ runs' = runs + 1
    /\ UNCHANGED <<target, previous, faults, history>>

PipInstalls(v) ==
    /\ pc = "building"
    /\ staged' = Whole(v)
    /\ pc' = "rotate"
    /\ UNCHANGED <<target, previous, tool, status, bounds, history>>

\* Deviation: the exit status of pip is not looked at.
PipUnchecked(v) ==
    /\ pc = "building"
    /\ staged' \in SUBSET Whole(v)
    /\ pc' = "rotate"
    /\ UNCHANGED <<target, previous, tool, status, bounds, history>>

\* pip stops after some of the files; check=True raises.
PipFails(v) ==
    /\ pc = "building"
    /\ staged' \in SUBSET Whole(v)
    /\ pc' = "cleanup"
    /\ status' = "failed"
    /\ UNCHANGED <<target, previous, tool, bounds, history>>

-----------------------------------------------------------------------------
(* rotate: the decision. *)

\* _validate refuses a staged tree that does not exist.
Refuse ==
    /\ pc = "rotate"
    /\ staged = Absent
    /\ pc' = "cleanup"
    /\ status' = "failed"
    /\ UNCHANGED <<disk, tool, bounds, history>>

Decides(next, result) ==
    /\ pc = "rotate"
    /\ staged # Absent
    /\ pc' = next
    /\ status' = result
    /\ found' = target
    /\ wanted' = staged
    /\ UNCHANGED <<disk, tool, bounds, installed>>

FirstInstall ==
    /\ target = Absent
    /\ Decides("install", "rotated")

\* The staged tree is left to the caller.
Identical ==
    /\ target = staged
    /\ Decides("cleanup", "identical")

\* Deviation: any backup will do.
KeepAnyPrevious ==
    /\ target \notin {Absent, staged}
    /\ previous # Absent
    /\ Decides("drop_target", "kept_previous")

\* keeps_previous: the backup holds the active tree already.
KeepPrevious ==
    /\ target \notin {Absent, staged}
    /\ previous = target
    /\ Decides("drop_target", "kept_previous")

Supersede ==
    /\ target \notin {Absent, staged}
    /\ previous # target
    /\ Decides(IF previous = Absent THEN "set_aside" ELSE "drop_previous",
               "rotated")

-----------------------------------------------------------------------------
(* rotate: the moves. *)

Discard(tree, rest) == tree # {} /\ \E f \in tree : rest = tree \ {f}

DropTarget ==
    /\ pc = "drop_target"
    /\ \/ Discard(target, target') /\ pc' = pc
       \/ target = {} /\ target' = Absent /\ pc' = "install"
    /\ UNCHANGED <<previous, staged, tool, status, bounds, history>>

DropPrevious ==
    /\ pc = "drop_previous"
    /\ \/ Discard(previous, previous') /\ pc' = pc
       \/ previous = {} /\ previous' = Absent /\ pc' = "set_aside"
    /\ UNCHANGED <<target, staged, tool, status, bounds, history>>

\* The two are siblings: a rename.
SetAside ==
    /\ pc = "set_aside"
    /\ previous' = target
    /\ target' = Absent
    /\ pc' = "install"
    /\ UNCHANGED <<staged, tool, status, bounds, history>>

Rename ==
    /\ pc = "install"
    /\ ~elsewhere
    /\ target' = staged
    /\ staged' = Absent
    /\ pc' = "cleanup"
    /\ UNCHANGED <<previous, tool, status, bounds, history>>

\* copytree makes the directory, then copies one file after the other.
MakeDirectory ==
    /\ pc = "install"
    /\ elsewhere
    /\ target' = {}
    /\ pc' = "copy"
    /\ UNCHANGED <<previous, staged, tool, status, bounds, history>>

CopyFile ==
    /\ pc = "copy"
    /\ \/ /\ \E f \in staged \ target : target' = target \cup {f}
          /\ pc' = pc
       \/ /\ target = staged
          /\ target' = target
          /\ pc' = "unstage"
    /\ UNCHANGED <<previous, staged, tool, status, bounds, history>>

Unstage ==
    /\ pc = "unstage"
    /\ \/ Discard(staged, staged') /\ pc' = pc
       \/ staged = {} /\ staged' = Absent /\ pc' = "cleanup"
    /\ UNCHANGED <<target, previous, tool, status, bounds, history>>

\* The private directory goes with the run that made it, whatever it holds.
Leftover == IF private THEN Absent ELSE staged

Cleanup ==
    /\ pc = "cleanup"
    /\ staged' = Leftover
    /\ pc' = "idle"
    /\ installed' = (installed \/ status \in Returned)
    /\ UNCHANGED <<target, previous, tool, status, bounds, found, wanted>>

-----------------------------------------------------------------------------
(* runtime_clean --yes --target <target>.previous *)

Clean ==
    /\ pc = "idle"
    /\ previous # Absent
    /\ pc' = "clean"
    /\ private' = FALSE
    /\ status' = "none"
    /\ found' = Absent
    /\ installed' = FALSE
    /\ UNCHANGED <<disk, elsewhere, bounds, wanted>>

CleanBackup ==
    /\ pc = "clean"
    /\ \/ Discard(previous, previous') /\ pc' = pc
       \/ previous = {} /\ previous' = Absent /\ pc' = "idle"
    /\ UNCHANGED <<target, staged, tool, status, bounds, history>>

-----------------------------------------------------------------------------
(* An OSError ends the rotation where it is, and the private directory is   *)
(* still cleaned up; a killed tool cleans up nothing, and nobody reads its  *)
(* private directory again.                                                 *)

\* Deviation: the error is swallowed.
MoveFailsUnnoticed ==
    /\ pc \in Moving
    /\ faults < MaxFaults
    /\ pc' = "cleanup"
    /\ faults' = faults + 1
    /\ UNCHANGED <<disk, tool, status, runs, history>>

MoveFails ==
    /\ pc \in Moving
    /\ faults < MaxFaults
    /\ pc' = "cleanup"
    /\ status' = "failed"
    /\ faults' = faults + 1
    /\ UNCHANGED <<disk, tool, runs, history>>

Killed ==
    /\ pc # "idle"
    /\ faults < MaxFaults
    /\ staged' = Leftover
    /\ pc' = "idle"
    /\ status' = "failed"
    /\ faults' = faults + 1
    /\ UNCHANGED <<target, previous, tool, runs, history>>

-----------------------------------------------------------------------------
Operator ==
    \/ \E v \in Versions : Build(v)
    \/ Restore
    \/ InstallStaged
    \/ InstallPackage
    \/ Clean

Decide ==
    \/ \E v \in Versions : PipInstalls(v) \/ PipFails(v)
    \/ Refuse
    \/ FirstInstall
    \/ Identical
    \/ KeepPrevious
    \/ Supersede

Move ==
    \/ DropTarget
    \/ DropPrevious
    \/ SetAside
    \/ Rename
    \/ MakeDirectory
    \/ CopyFile
    \/ Unstage
    \/ Cleanup
    \/ CleanBackup

Next == Operator \/ Decide \/ Move \/ MoveFails \/ Killed

Spec == Init /\ [][Next]_vars

-----------------------------------------------------------------------------
(* Properties. *)

\* The install that a rotation finds active stays on the disk with every
\* file, as the active one or as its backup, through every step, failure and
\* crash of the rotation and until the operator removes the backup or the next
\* rotation begins: rotate drops a tree only while its bytes are elsewhere.
ActiveSurvives == found # Absent => found \in {target, previous}

\* An install that reports success has put the staged tree in place with every
\* file, and the install it replaced, if its bytes differ, is the backup;
\* whatever happened in the runs before.
SuccessIsComplete ==
    pc = "idle" /\ status \in Returned =>
        /\ target = wanted
        /\ found \notin {Absent, wanted} => previous = found

\* Once an install has ended, some build is whole on the disk, as the active
\* install, as its backup or as the tree being installed, as long as at most
\* MaxFaults runs failed half-way.
WholeBuildSurvives ==
    installed =>
        \E v \in Versions : Whole(v) \in {target, previous, staged}
=============================================================================
