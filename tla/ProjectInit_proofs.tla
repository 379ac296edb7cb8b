--------------------------- MODULE ProjectInit_proofs ---------------------------
(***************************************************************************)
(* Theorems about ProjectInit, for any number of runs and any scaffold.    *)
(***************************************************************************)
EXTENDS ProjectInit, TLAPS

\* There is a run, and neither the user nor Nobody is one.
Distinct == Runs # {} /\ User \notin Runs /\ Nobody \notin Runs

\* What is in the staging directory of a run at each of its stages.
StagingOK(r) ==
  /\ stage[r] \in {"start", "asked", "ok"} \cup Failed => staging[r] = None
  /\ stage[r] = "writing" => staging[r] \subseteq {r} \X Scaffold
  /\ stage[r] \in {"placing", "renaming"} => staging[r] = {r} \X Scaffold

Inv == TypeOK /\ TargetWhole /\ \A r \in Runs : StagingOK(r)
-----------------------------------------------------------------------------
\* None is no directory, and holds no file.
LEMMA NoneFacts ==
  ASSUME Distinct
  PROVE  /\ None \notin Directories
         /\ OfScaffold(None) = {}
         /\ \A dir \in Directories : dir \ None = dir
<1>1. <<Nobody, "no directory">> \notin Files
  BY DEF Distinct, Files, User, Nobody
<1>2. OfScaffold(None) = {}
  BY <1>1 DEF OfScaffold, None, Files
<1>3. QED BY <1>1, <1>2 DEF None, Directories

\* Without files of the scaffold the target is whole.
LEMMA WholeIfNone ==
  ASSUME Distinct, OfScaffold(target) = {}
  PROVE  TargetWhole
BY DEF Distinct, TargetWhole

LEMMA InitInv == ASSUME Distinct, Init PROVE Inv
<1> USE DEF Init
<1>1. TypeOK
  BY DEF TypeOK, Stages
<1>2. OfScaffold(target) = {}
  BY NoneFacts
<1>3. \A r \in Runs : StagingOK(r)
  BY DEF StagingOK, Failed
<1>4. QED BY <1>1, <1>2, <1>3, WholeIfNone DEF Inv

\* A step of run r that leaves the target alone.
LEMMA QuietInv ==
  ASSUME Inv, NEW r \in Runs, UNCHANGED target, TypeOK', StagingOK(r)',
         \A q \in Runs \ {r} : stage'[q] = stage[q] /\ staging'[q] = staging[q]
  PROVE  Inv'
<1>1. TargetWhole'
  BY DEF Inv, TargetWhole, OfScaffold
<1>2. \A q \in Runs \ {r} : StagingOK(q)'
  BY DEF Inv, StagingOK
<1>3. QED BY <1>1, <1>2 DEF Inv

LEMMA PlaceInv == ASSUME Distinct, Inv, NEW r \in Runs, Place(r) PROVE Inv'
<1> USE DEF Place, Goto
<1>1. stage' = [stage EXCEPT ![r] = "renaming"] /\ stage[r] = "placing" /\ UNCHANGED staging
  OBVIOUS
<1>2. target' = None
  BY DEF Removable
<1>3. TypeOK'
  BY <1>1, <1>2 DEF Inv, TypeOK, Stages
<1>4. OfScaffold(target)' = {}
  BY <1>2, NoneFacts DEF OfScaffold
<1>5. TargetWhole'
  BY <1>4 DEF Distinct, TargetWhole
<1>6. \A q \in Runs : StagingOK(q)'
  BY <1>1 DEF Inv, TypeOK, StagingOK, Failed
<1>7. QED BY <1>3, <1>5, <1>6 DEF Inv

LEMMA RenameInv == ASSUME Inv, NEW r \in Runs, Rename(r) PROVE Inv'
<1>1. /\ stage[r] = "renaming" /\ stage' = [stage EXCEPT ![r] = "ok"]
      /\ staging' = [staging EXCEPT ![r] = None]
      /\ target \in {None, {}} /\ target' = staging[r] \cup (target \ None)
  BY DEF Rename, Goto, RenamesOnto
<1>2. target' = {r} \X Scaffold
  BY <1>1 DEF Inv, StagingOK
<1>3. {r} \X Scaffold \in Directories
  BY DEF Directories, Files
<1>4. TypeOK'
  BY <1>1, <1>2, <1>3 DEF Inv, TypeOK, Stages
<1>5. TargetWhole'
  BY <1>2 DEF TargetWhole, OfScaffold
<1>6. \A q \in Runs : StagingOK(q)'
  BY <1>1 DEF Inv, TypeOK, StagingOK, Failed
<1>7. QED BY <1>4, <1>5, <1>6 DEF Inv

LEMMA UseInv == ASSUME Distinct, Inv, Use PROVE Inv'
<1> USE DEF Use
<1>1. target' \in Directories
  BY DEF Inv, TypeOK, Directories, Files
<1>2. TypeOK'
  BY <1>1 DEF Inv, TypeOK
<1>3. OfScaffold(target)' \in {{}, OfScaffold(target)}
  BY DEF OfScaffold, Distinct
<1>4. TargetWhole'
  BY <1>3 DEF Inv, Distinct, TargetWhole
<1>5. \A q \in Runs : StagingOK(q)'
  BY DEF Inv, StagingOK
<1>6. QED BY <1>2, <1>4, <1>5 DEF Inv

LEMMA StepInv == ASSUME Distinct, Inv, NEW r \in Runs, Step(r) PROVE Inv'
<1> USE DEF Goto, Inv, TypeOK, StagingOK, Failed, Stages
<1>1. CASE Look(r)
  BY <1>1, QuietInv DEF Look
<1>2. CASE Refuse(r)
  BY <1>2, QuietInv DEF Refuse
<1>3. CASE MakeStaging(r)
  BY <1>3, QuietInv DEF MakeStaging, Directories
<1>4. CASE Write(r)
  <2>1. PICK f \in Scaffold : staging' = [staging EXCEPT ![r] = @ \cup {<<r, f>>}]
    BY <1>4 DEF Write
  <2>2. stage[r] = "writing" /\ UNCHANGED <<target, stage>>
    BY <1>4 DEF Write
  <2>3. staging[r] \cup {<<r, f>>} \subseteq {r} \X Scaffold
    <3>1. staging[r] \subseteq {r} \X Scaffold
      BY <2>2
    <3>2. <<r, f>> \in {r} \X Scaffold
      OBVIOUS
    <3>3. QED BY <3>1, <3>2
  <2>4. {r} \X Scaffold \subseteq Files
    BY DEF Files
  <2>5. staging' \in [Runs -> Directories \cup {None}]
    BY <2>1, <2>3, <2>4 DEF Directories
  <2>6. StagingOK(r)'
    BY <2>1, <2>2, <2>3
  <2>7. QED BY <2>1, <2>2, <2>5, <2>6, QuietInv
<1>5. CASE Validate(r)
  BY <1>5, QuietInv DEF Validate, AllWritten
<1>6. CASE Place(r)
  BY <1>6, PlaceInv
<1>7. CASE Rename(r)
  BY <1>7, RenameInv
<1>8. CASE Fail(r)
  BY <1>8, QuietInv DEF Fail, Cleaned
<1>9. CASE Kill(r)
  BY <1>9, QuietInv DEF Kill
<1>10. QED BY <1>1, <1>2, <1>3, <1>4, <1>5, <1>6, <1>7, <1>8, <1>9 DEF Step

LEMMA NextInv == ASSUME Distinct, Inv, [Next]_vars PROVE Inv'
<1>1. CASE UNCHANGED vars
  BY <1>1 DEF vars, Inv, TypeOK, TargetWhole, OfScaffold, StagingOK
<1>2. CASE Next
  BY <1>2, StepInv, UseInv DEF Next
<1>3. QED BY <1>1, <1>2

LEMMA AlwaysInv == ASSUME Distinct PROVE Spec => []Inv
BY InitInv, NextInv, PTL DEF Spec
-----------------------------------------------------------------------------
\* The variables have their types: a run's staging directory, and the target, hold
\* files of the scaffold and of the user.
THEOREM TypeCorrect == ASSUME Distinct PROVE Spec => []TypeOK
BY AlwaysInv, PTL DEF Inv

\* However many runs of init race for a target, and wherever they fail or die, it
\* holds the scaffold of one of them, or of none (_place and os.rename).
THEOREM WholeOrNothing == ASSUME Distinct PROVE Spec => []TargetWhole
BY AlwaysInv, PTL DEF Inv

\* A run that ended or failed left no staging directory (the except clause).
THEOREM StagingRemoved == ASSUME Distinct PROVE Spec => []NothingLeftBehind
<1>1. Inv => NothingLeftBehind
  BY DEF Inv, StagingOK, NothingLeftBehind
<1>2. QED BY <1>1, AlwaysInv, PTL

\* No file of the user, nor of a run that was there first, is removed from the
\* target: rmdir and rename do not take a directory that has one.
THEOREM TargetFilesStay == ASSUME Distinct PROVE Spec => FilesStay
<1>1. ASSUME Inv, [Next]_vars
      PROVE  [target \ None \subseteq target']_target
  <2>1. CASE UNCHANGED target
    BY <2>1
  <2>2. CASE Use
    BY <2>2 DEF Use
  <2>3. ASSUME NEW r \in Runs, Place(r) PROVE target \ None \subseteq target'
    BY <2>3 DEF Place, Removable
  <2>4. ASSUME NEW r \in Runs, Rename(r) PROVE target \ None \subseteq target'
    BY <2>4 DEF Rename, RenamesOnto
  <2>5. ASSUME NEW r \in Runs, Step(r) PROVE target \ None \subseteq target' \/ UNCHANGED target
    BY <2>3, <2>4, <2>5 DEF Step, Look, Refuse, MakeStaging, Write, Validate, Fail, Kill
  <2>6. QED BY <1>1, <2>1, <2>2, <2>5 DEF Next, vars
<1>2. QED BY <1>1, AlwaysInv, PTL DEF Spec, FilesStay
=============================================================================
