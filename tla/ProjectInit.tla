------------------------------ MODULE ProjectInit ------------------------------
(***************************************************************************)
(* lvt-cert init (commands/init.py): the scaffold is rendered into a       *)
(* staging directory beside the target, checked there, and renamed to the  *)
(* target.  Several people may run it for the same target at a time, the   *)
(* user may use the directory meanwhile, a run may fail, be interrupted or *)
(* be killed at any point.                                                 *)
(***************************************************************************)
EXTENDS Naturals, FiniteSets

CONSTANTS
  Runs,     \* the times that init is run
  Scaffold  \* the files of the scaffold, cert.config.json among them

VARIABLES
  target,   \* the files in the target directory, or None if there is no such directory
  staging,  \* staging[r]: the files in the staging directory of r, or None
  stage     \* stage[r]: where r is

vars == <<target, staging, stage>>
-----------------------------------------------------------------------------
\* A file is known by who wrote it; the user's own are not of the scaffold.
User == "user"
Nobody == "nobody"
Files == (Runs \X Scaffold) \cup {<<User, "notes">>}
None == {<<Nobody, "no directory">>}
Directories == SUBSET Files
OfScaffold(dir) == dir \cap (Runs \X Scaffold)

Failed == {"not empty", "bad answer", "failed"}
Stages == {"start", "asked", "writing", "placing", "renaming", "killed", "ok"} \cup Failed

Goto(r, to) == stage' = [stage EXCEPT ![r] = to]

\* Use makes the directory, if it is there before init is run.
Init ==
  /\ target = None
  /\ staging = [r \in Runs |-> None]
  /\ stage = [r \in Runs |-> "start"]

\* Bails out if the target is not empty; else the prompts, which may take a while.
Look(r) ==
  /\ stage[r] = "start"
  /\ Goto(r, IF target \in {None, {}} THEN "asked" ELSE "not empty")
  /\ UNCHANGED <<target, staging>>

\* A slug or a locale that is not valid.
Refuse(r) ==
  /\ stage[r] = "asked"
  /\ Goto(r, "bad answer")
  /\ UNCHANGED <<target, staging>>

MakeStaging(r) ==
  /\ stage[r] = "asked"
  /\ staging' = [staging EXCEPT ![r] = {}]
  /\ Goto(r, "writing")
  /\ UNCHANGED target

AllWritten(r) == staging[r] = {r} \X Scaffold

Write(r) ==
  /\ stage[r] = "writing"
  /\ \E f \in Scaffold :
       /\ <<r, f>> \notin staging[r]
       /\ staging' = [staging EXCEPT ![r] = @ \cup {<<r, f>>}]
  /\ UNCHANGED <<target, stage>>

\* load_config accepts the rendered configuration.
Validate(r) ==
  /\ stage[r] = "writing"
  /\ AllWritten(r)
  /\ Goto(r, "placing")
  /\ UNCHANGED <<target, staging>>

\* rmdir removes the placeholder, and nothing else.
\* Mutant: rmtree.
RemovableTree == target # None
Removable == target = {}

Place(r) ==
  /\ stage[r] = "placing"
  /\ \/ target = None /\ UNCHANGED target
     \/ Removable /\ target' = None
  /\ Goto(r, "renaming")
  /\ UNCHANGED staging

\* os.rename of a directory: onto nothing, or onto an empty one.
\* Mutant: the files are copied into whatever is there.
MergesInto(dir) == TRUE
RenamesOnto(dir) == dir \in {None, {}}

Rename(r) ==
  /\ stage[r] = "renaming"
  /\ RenamesOnto(target)
  /\ target' = staging[r] \cup (target \ None)
  /\ staging' = [staging EXCEPT ![r] = None]
  /\ Goto(r, "ok")

\* What goes wrong after mkdtemp: a write, the configuration, rmdir, rename, Ctrl-C.
\* rmtree leaves nothing, as far as it succeeds.
\* Mutant: only Exception is caught, and Ctrl-C is none.
LeftAsItIs(r) == staging[r]
Cleaned(r) == None

Fail(r) ==
  /\ stage[r] \in {"writing", "placing", "renaming"}
  /\ staging' = [staging EXCEPT ![r] = Cleaned(r)]
  /\ Goto(r, "failed")
  /\ UNCHANGED target

Kill(r) ==
  /\ stage[r] \notin {"ok", "killed"} \cup Failed
  /\ Goto(r, "killed")
  /\ UNCHANGED <<target, staging>>

\* The user makes the directory, or puts a file into it.
Use ==
  /\ \/ target = None /\ target' = {}
     \/ target # None /\ target' = target \cup {<<User, "notes">>}
  /\ UNCHANGED <<staging, stage>>

Step(r) ==
  \/ Look(r) \/ Refuse(r) \/ MakeStaging(r) \/ Write(r) \/ Validate(r) \/ Place(r) \/ Rename(r)
  \/ Fail(r) \/ Kill(r)

Next == Use \/ \E r \in Runs : Step(r)

Spec == Init /\ [][Next]_vars
-----------------------------------------------------------------------------
\* The variables have their types.
TypeOK ==
  /\ target \in Directories \cup {None}
  /\ staging \in [Runs -> Directories \cup {None}]
  /\ stage \in [Runs -> Stages]

\* The target holds the whole of one run's scaffold or nothing of any: a run that
\* fails or dies leaves no half of a project, two runs never mix their files
\* ("only then move it into place").
TargetWhole == \E r \in Runs : OfScaffold(target) \in {{}, {r} \X Scaffold}

\* init removes no file from the target, even one that came after it was found to
\* be empty.
FilesStay == [][target \ None \subseteq target']_target

\* No staging directory outlives its run, unless the run was killed.
NothingLeftBehind ==
  \A r \in Runs : stage[r] \in Failed \cup {"ok"} => staging[r] = None
=============================================================================
