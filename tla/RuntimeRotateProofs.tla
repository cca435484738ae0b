-------------------------- MODULE RuntimeRotateProofs --------------------------
(****************************************************************************)
(* Theorems about RuntimeRotate, for any builds, any number of files in a   *)
(* build, and any bound on the installs, the failures and the crashes.      *)
(****************************************************************************)
EXTENDS RuntimeRotate, TLAPS

\* A tool that is at work on a path finds a directory there.
AtWork ==
    /\ pc \in {"drop_target", "drop_previous", "set_aside", "copy", "unstage"} =>
          target \in Trees
    /\ pc \in {"drop_previous", "clean"} => previous \in Trees
    /\ pc \in Moving => staged \in Trees

\* Where the install that was found active is while the trees are moved.
Kept ==
    /\ pc \in {"drop_previous", "set_aside"} => target = found
    /\ pc \in {"drop_target", "install", "copy", "unstage"} /\ found # Absent =>
          previous = found
    /\ pc = "clean" => found = Absent
    /\ found # Absent => found \in {target, previous}

\* What has been done of an install.
Progress ==
    /\ pc \in {"drop_target", "drop_previous", "set_aside", "install", "copy"} =>
          staged = wanted
    /\ pc = "unstage" => target = wanted
    /\ pc = "clean" => status \notin Returned
    /\ pc \in {"cleanup", "idle"} /\ status \in Returned =>
          /\ target = wanted
          /\ found \notin {Absent, wanted} => previous = found

IInv == TypeOK /\ AtWork /\ Kept /\ Progress

LEMMA WholeIsTree == ASSUME NEW v \in Versions PROVE SUBSET Whole(v) \subseteq Trees
  BY DEF Whole, Trees

LEMMA AbsentIsNoTree == Absent \notin Trees
  BY RotateConfigOK

LEMMA DiscardLeavesTree ==
    ASSUME NEW tree \in Trees, NEW rest, Discard(tree, rest)
    PROVE  rest \in Trees
  BY DEF Discard, Trees

LEMMA InvInit == Init => IInv
  <1>. SUFFICES ASSUME Init PROVE IInv
    OBVIOUS
  <1>1. runs \in 0..MaxRuns /\ faults \in 0..MaxFaults
    BY RotateConfigOK DEF Init
  <1>2. private \in BOOLEAN /\ elsewhere \in BOOLEAN /\ installed \in BOOLEAN
    BY DEF Init
  <1>3. TypeOK
    BY <1>1, <1>2 DEF Init, TypeOK, Place
  <1>4. AtWork /\ Kept /\ Progress
    BY DEF Init, AtWork, Kept, Progress, Moving, Returned
  <1>. QED BY <1>3, <1>4 DEF IInv

LEMMA OperatorStep == IInv /\ Operator => IInv'
  <1>. SUFFICES ASSUME IInv, Operator PROVE IInv'
    OBVIOUS
  <1>. USE AbsentIsNoTree, RotateConfigOK DEF IInv, TypeOK, AtWork, Kept, Progress, Place,
        Deciding, Moving, Returned, disk, tool, bounds, history
  <1>1. ASSUME NEW v \in Versions, Build(v) PROVE IInv'
    BY <1>1, WholeIsTree DEF Build
  <1>2. CASE Restore
    BY <1>2 DEF Restore
  <1>3. CASE InstallStaged
    <2>1. elsewhere' \in BOOLEAN /\ private' \in BOOLEAN
      BY <1>3 DEF InstallStaged
    <2>2. runs' \in 0..MaxRuns
      BY <1>3 DEF InstallStaged
    <2>3. TypeOK'
      BY <1>3, <2>1, <2>2 DEF InstallStaged
    <2>. QED BY <1>3, <2>3 DEF InstallStaged
  <1>4. CASE InstallPackage
    <2>1. {} \in Trees
      BY DEF Trees
    <2>. QED BY <1>4, <2>1 DEF InstallPackage
  <1>5. CASE Clean
    BY <1>5 DEF Clean
  <1>. QED BY <1>1, <1>2, <1>3, <1>4, <1>5 DEF Operator

LEMMA DecideStep == IInv /\ Decide => IInv'
  <1>. SUFFICES ASSUME IInv, Decide PROVE IInv'
    OBVIOUS
  <1>. USE AbsentIsNoTree, RotateConfigOK DEF IInv, TypeOK, AtWork, Kept, Progress, Place,
        Deciding, Moving, Returned, disk, tool, bounds, history
  <1>1. ASSUME NEW v \in Versions, PipInstalls(v) PROVE IInv'
    BY <1>1, WholeIsTree DEF PipInstalls
  <1>2. ASSUME NEW v \in Versions, PipFails(v) PROVE IInv'
    BY <1>2, WholeIsTree DEF PipFails
  <1>3. CASE Refuse
    BY <1>3 DEF Refuse
  <1>4. CASE FirstInstall
    BY <1>4 DEF FirstInstall, Decides
  <1>5. CASE Identical
    BY <1>5 DEF Identical, Decides
  <1>6. CASE KeepPrevious
    BY <1>6 DEF KeepPrevious, Decides
  <1>7. CASE Supersede
    BY <1>7 DEF Supersede, Decides
  <1>. QED BY <1>1, <1>2, <1>3, <1>4, <1>5, <1>6, <1>7 DEF Decide

LEMMA MoveStep == IInv /\ Move => IInv'
  <1>. SUFFICES ASSUME IInv, Move PROVE IInv'
    OBVIOUS
  <1>. USE AbsentIsNoTree, RotateConfigOK DEF IInv, TypeOK, AtWork, Kept, Progress, Place,
        Deciding, Moving, Returned, disk, tool, bounds, history
  <1>1. CASE DropTarget
    <2>1. target' \in Place
      BY <1>1, DiscardLeavesTree DEF DropTarget
    <2>2. pc' = "drop_target" => target' \in Trees
      BY <1>1, DiscardLeavesTree DEF DropTarget
    <2>. QED BY <1>1, <2>1, <2>2 DEF DropTarget
  <1>2. CASE DropPrevious
    <2>1. previous' \in Place
      BY <1>2, DiscardLeavesTree DEF DropPrevious
    <2>2. pc' = "drop_previous" => previous' \in Trees
      BY <1>2, DiscardLeavesTree DEF DropPrevious
    <2>3. pc' \in {"drop_previous", "set_aside"}
      BY <1>2 DEF DropPrevious
    <2>4. TypeOK'
      BY <1>2, <2>1, <2>3 DEF DropPrevious
    <2>5. AtWork'
      BY <1>2, <2>2, <2>3 DEF DropPrevious
    <2>6. Kept' /\ Progress'
      BY <1>2 DEF DropPrevious
    <2>. QED BY <2>4, <2>5, <2>6
  <1>3. CASE SetAside
    BY <1>3 DEF SetAside
  <1>4. CASE Rename
    BY <1>4 DEF Rename
  <1>5. CASE MakeDirectory
    <2>1. {} \in Trees
      BY DEF Trees
    <2>. QED BY <1>5, <2>1 DEF MakeDirectory
  <1>6. CASE CopyFile
    <2>1. target' \in Trees
      BY <1>6 DEF CopyFile, Trees
    <2>. QED BY <1>6, <2>1 DEF CopyFile
  <1>7. CASE Unstage
    <2>1. staged' \in Place
      BY <1>7, DiscardLeavesTree DEF Unstage
    <2>2. pc' = "unstage" => staged' \in Trees
      BY <1>7, DiscardLeavesTree DEF Unstage
    <2>. QED BY <1>7, <2>1, <2>2 DEF Unstage
  <1>8. CASE Cleanup
    BY <1>8 DEF Cleanup, Leftover
  <1>9. CASE CleanBackup
    <2>1. previous' \in Place
      BY <1>9, DiscardLeavesTree DEF CleanBackup
    <2>2. pc' = "clean" => previous' \in Trees
      BY <1>9, DiscardLeavesTree DEF CleanBackup
    <2>3. pc' \in {"clean", "idle"}
      BY <1>9 DEF CleanBackup
    <2>4. TypeOK'
      BY <1>9, <2>1, <2>3 DEF CleanBackup
    <2>5. AtWork'
      BY <1>9, <2>2, <2>3 DEF CleanBackup
    <2>6. Kept' /\ Progress'
      BY <1>9 DEF CleanBackup
    <2>. QED BY <2>4, <2>5, <2>6
  <1>. QED BY <1>1, <1>2, <1>3, <1>4, <1>5, <1>6, <1>7, <1>8, <1>9 DEF Move

LEMMA FaultStep == IInv /\ (MoveFails \/ Killed) => IInv'
  BY RotateConfigOK DEF MoveFails, Killed, Leftover, IInv, TypeOK, AtWork, Kept, Progress,
        Place, Deciding, Moving, Returned, disk, tool, bounds, history

LEMMA InvStep == IInv /\ [Next]_vars => IInv'
  <1>. SUFFICES ASSUME IInv, [Next]_vars PROVE IInv'
    OBVIOUS
  <1>1. CASE UNCHANGED vars
    BY <1>1 DEF vars, disk, tool, bounds, history, IInv, TypeOK, AtWork, Kept, Progress
  <1>. QED
    BY <1>1, OperatorStep, DecideStep, MoveStep, FaultStep DEF Next

LEMMA Invariance == Spec => []IInv
  BY InvInit, InvStep, PTL DEF Spec

\* Every path holds a tree or nothing, and the bounds are kept.
THEOREM TypeCorrect == Spec => []TypeOK
  <1>1. IInv => TypeOK
    BY DEF IInv
  <1>. QED BY <1>1, Invariance, PTL

\* However many installs, failures and crashes there are, no step of a rotation
\* takes the last copy of the install it found active.
THEOREM ActiveInstallSurvives == Spec => []ActiveSurvives
  <1>1. IInv => ActiveSurvives
    BY DEF IInv, Kept, ActiveSurvives
  <1>. QED BY <1>1, Invariance, PTL

\* A reported success is a complete install with the right backup, whatever
\* state the failures before it have left behind.
THEOREM SuccessIsTrue == Spec => []SuccessIsComplete
  <1>1. IInv => SuccessIsComplete
    BY DEF IInv, Progress, SuccessIsComplete
  <1>. QED BY <1>1, Invariance, PTL

-----------------------------------------------------------------------------
(* Some build stays whole.                                                  *)

IsWhole(tree) == \E v \in Versions : tree = Whole(v)
Intact(tree) == tree = Absent \/ IsWhole(tree)

\* The staged tree as the run leaves it behind when it ends here.
Remains == IF pc \in {"building", "cleanup"} THEN Leftover ELSE staged

Resting == pc \in {"idle", "cleanup"} \cup Deciding
HasInstalled == installed \/ (pc = "cleanup" /\ status \in Returned)

\* Between the moves one fault has damaged at most one of the three trees, the
\* staged one only while the active install is whole, and after an install the
\* active install or its backup is whole.
AtRest ==
    Resting =>
        /\ Intact(target) \/ Intact(previous)
        /\ Intact(Remains) \/ (IsWhole(target) /\ Intact(previous))
        /\ HasInstalled => IsWhole(target) \/ IsWhole(previous)

\* During the moves some whole tree is out of their way.
Underway ==
    /\ pc = "drop_target" => IsWhole(previous)
    /\ pc \in {"drop_previous", "set_aside"} =>
          IsWhole(target) \/ IsWhole(staged)
    /\ pc \in {"install", "copy"} => IsWhole(previous) \/ IsWhole(staged)
    /\ pc = "unstage" => IsWhole(previous) \/ IsWhole(target)
    /\ pc = "clean" => ~installed /\ (Intact(staged) \/ IsWhole(target))

\* Before the first fault every tree is whole but the one being moved.
Undamaged ==
    /\ Resting =>
          /\ Intact(target) /\ Intact(previous) /\ Intact(Remains)
          /\ HasInstalled => IsWhole(target)
    /\ pc \in {"drop_target", "drop_previous", "set_aside", "install", "copy"} =>
          IsWhole(staged)
    /\ pc \in {"drop_previous", "set_aside", "unstage"} => IsWhole(target)
    /\ pc \in {"install", "copy"} =>
          Intact(previous) /\ (installed => IsWhole(previous))
    /\ pc = "unstage" => Intact(previous)
    /\ pc = "clean" => Intact(target) /\ Intact(staged)

WholeInv ==
    /\ IInv
    /\ pc = "building" => private
    /\ faults <= 1 => AtRest /\ Underway
    /\ faults = 0 => Undamaged

LEMMA IntactIsWhole ==
    /\ Intact(Absent) /\ ~IsWhole(Absent)
    /\ \A tree : IsWhole(tree) => Intact(tree)
    /\ \A tree : Intact(tree) /\ tree # Absent => IsWhole(tree)
    /\ \A v \in Versions : IsWhole(Whole(v))
  BY AbsentIsNoTree, WholeIsTree DEF Intact, IsWhole

LEMMA WholeInit == Init => WholeInv
  <1>. SUFFICES ASSUME Init PROVE WholeInv
    OBVIOUS
  <1>1. AtRest /\ Underway /\ Undamaged
    BY IntactIsWhole DEF Init, AtRest, Underway, Undamaged, Resting,
       HasInstalled, Remains, Deciding, Returned
  <1>. QED BY <1>1, InvInit DEF WholeInv, Init

LEMMA WholeOperatorStep == WholeInv /\ Operator => WholeInv'
  <1>. SUFFICES ASSUME WholeInv, Operator PROVE WholeInv'
    OBVIOUS
  <1>0. IInv'
    BY OperatorStep DEF WholeInv
  <1>. USE <1>0, IntactIsWhole DEF WholeInv, AtRest, Underway, Undamaged,
       Resting, HasInstalled, Remains, Leftover, Deciding, Returned, disk, tool,
       bounds, history
  <1>1. ASSUME NEW v \in Versions, Build(v) PROVE WholeInv'
    BY <1>1 DEF Build
  <1>2. CASE Restore
    <2>1. IsWhole(previous)
      BY <1>2 DEF Restore
    <2>. QED BY <1>2, <2>1 DEF Restore
  <1>3. CASE InstallStaged
    BY <1>3 DEF InstallStaged
  <1>4. CASE InstallPackage
    BY <1>4 DEF InstallPackage
  <1>5. CASE Clean
    BY <1>5 DEF Clean
  <1>. QED BY <1>1, <1>2, <1>3, <1>4, <1>5 DEF Operator

LEMMA WholeDecideStep == WholeInv /\ Decide => WholeInv'
  <1>. SUFFICES ASSUME WholeInv, Decide PROVE WholeInv'
    OBVIOUS
  <1>0. IInv'
    BY DecideStep DEF WholeInv
  <1>. USE <1>0, IntactIsWhole DEF WholeInv, AtRest, Underway, Undamaged,
       Resting, HasInstalled, Remains, Leftover, Deciding, Returned, disk, tool,
       bounds, history
  <1>1. ASSUME NEW v \in Versions, PipInstalls(v) PROVE WholeInv'
    BY <1>1 DEF PipInstalls
  <1>2. ASSUME NEW v \in Versions, PipFails(v) PROVE WholeInv'
    BY <1>2 DEF PipFails
  <1>3. CASE Refuse
    BY <1>3 DEF Refuse
  <1>4. CASE FirstInstall
    BY <1>4 DEF FirstInstall, Decides
  <1>5. CASE Identical
    BY <1>5 DEF Identical, Decides
  <1>6. CASE KeepPrevious
    BY <1>6 DEF KeepPrevious, Decides
  <1>7. CASE Supersede
    BY <1>7 DEF Supersede, Decides
  <1>. QED BY <1>1, <1>2, <1>3, <1>4, <1>5, <1>6, <1>7 DEF Decide

LEMMA WholeMoveStep == WholeInv /\ Move => WholeInv'
  <1>. SUFFICES ASSUME WholeInv, Move PROVE WholeInv'
    OBVIOUS
  <1>0. IInv'
    BY MoveStep DEF WholeInv
  <1>. USE <1>0, IntactIsWhole DEF WholeInv, AtRest, Underway, Undamaged,
       Resting, HasInstalled, Remains, Leftover, Deciding, Returned, disk, tool,
       bounds, history
  <1>1. CASE DropTarget
    BY <1>1 DEF DropTarget
  <1>2. CASE DropPrevious
    BY <1>2 DEF DropPrevious
  <1>3. CASE SetAside
    BY <1>3 DEF SetAside
  <1>4. CASE Rename
    BY <1>4 DEF Rename
  <1>5. CASE MakeDirectory
    BY <1>5 DEF MakeDirectory
  <1>6. CASE CopyFile
    BY <1>6 DEF CopyFile
  <1>7. CASE Unstage
    BY <1>7 DEF Unstage
  <1>8. CASE Cleanup
    BY <1>8 DEF Cleanup
  <1>9. CASE CleanBackup
    BY <1>9 DEF CleanBackup
  <1>. QED BY <1>1, <1>2, <1>3, <1>4, <1>5, <1>6, <1>7, <1>8, <1>9 DEF Move

\* The one fault that counts is the first: it meets undamaged trees.
LEMMA WholeFaultStep == WholeInv /\ (MoveFails \/ Killed) => WholeInv'
  <1>. SUFFICES ASSUME WholeInv, MoveFails \/ Killed PROVE WholeInv'
    OBVIOUS
  <1>0. IInv'
    BY FaultStep DEF WholeInv
  <1>1. faults \in Nat /\ faults' = faults + 1 /\ pc' \in {"cleanup", "idle"}
    BY RotateConfigOK DEF WholeInv, IInv, TypeOK, MoveFails, Killed
  <1>2. ASSUME faults = 0 PROVE (AtRest /\ Underway)'
    <2>. USE <1>2, IntactIsWhole DEF WholeInv, AtRest, Underway, Undamaged,
         Resting, HasInstalled, Remains, Leftover, Deciding, Returned, Moving,
         disk, tool, history
    <2>1. CASE MoveFails
      BY <2>1 DEF MoveFails
    <2>2. CASE Killed
      BY <2>2 DEF Killed, IInv, TypeOK
    <2>. QED BY <2>1, <2>2
  <1>. QED BY <1>0, <1>1, <1>2 DEF WholeInv

LEMMA WholeStep == WholeInv /\ [Next]_vars => WholeInv'
  <1>. SUFFICES ASSUME WholeInv, [Next]_vars PROVE WholeInv'
    OBVIOUS
  <1>1. CASE UNCHANGED vars
    <2>1. IInv'
      BY InvStep DEF WholeInv
    <2>. QED
      BY <1>1, <2>1 DEF WholeInv, AtRest, Underway, Undamaged, Resting,
         HasInstalled, Remains, Leftover, vars, disk, tool, bounds, history
  <1>. QED
    BY <1>1, WholeOperatorStep, WholeDecideStep, WholeMoveStep, WholeFaultStep
       DEF Next

\* As long as at most one tool failed or was killed half-way, whatever the
\* builds and however many installs, restores and cleanings there are, some
\* build is whole on the disk once an install has ended.
THEOREM SomeBuildSurvives == MaxFaults <= 1 => (Spec => []WholeBuildSurvives)
  <1>. SUFFICES ASSUME MaxFaults <= 1 PROVE Spec => []WholeBuildSurvives
    OBVIOUS
  <1>1. ASSUME WholeInv PROVE WholeBuildSurvives
    <2>1. faults <= 1
      BY <1>1, RotateConfigOK DEF WholeInv, IInv, TypeOK
    <2>2. pc \in {"idle", "cleanup", "clean"} \cup Deciding \cup Moving
      BY <1>1 DEF WholeInv, IInv, TypeOK
    <2>3. installed =>
             IsWhole(target) \/ IsWhole(previous) \/ IsWhole(staged)
      BY <1>1, <2>1, <2>2 DEF WholeInv, AtRest, Underway, Resting, HasInstalled,
         Deciding, Moving
    <2>. QED BY <2>3 DEF WholeBuildSurvives, IsWhole
  <1>. QED BY <1>1, WholeInit, WholeStep, PTL DEF Spec
=============================================================================
