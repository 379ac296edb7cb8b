------------------------------ MODULE CommandLine ------------------------------
(***************************************************************************)
(* A process of lvt-cert (main.py): one command, which is dispatched and   *)
(* run.  dev boots the portal (build_app) and opens the key/value store    *)
(* that the environment or the configuration chooses (open_kv); what the   *)
(* portal's handlers may do to it is in LocalFileKV and RestKV.  init and  *)
(* import-shipments are in ProjectInit and ImportShipments.                *)
(***************************************************************************)
EXTENDS LocalFileKV, FiniteSets

CONSTANTS
  RestCalls,                                    \* bound: operations called over REST
  Runs, Scaffold,                               \* of ProjectInit
  Students, Subscribers, Codes, Forms, Directory, Corrections, MaxRows  \* of CarrierFile

VARIABLES
  command,  \* what is run, or "none"
  kv,       \* the backend that open_kv chose, or "none"
  restStore, restOpened, restCalls, restPc, restOp, late, severed, steady, restGiven,
  target, staging, initStage,
  phones, read, importPc, sheet, seen, toInsert, unmatched, skipped,
  request, importStage, temp, written, history

restVars == <<restStore, restOpened, restCalls, restPc, restOp, late, severed, steady, restGiven>>
fileVars == <<file, lock, calls, opened, pc, op, given>>
initVars == <<target, staging, initStage>>
importVars == <<phones, read, importPc, sheet, seen, toInsert, unmatched, skipped,
                request, importStage, temp, written, history>>
cliVars == <<command, kv, now, fileVars, restVars, initVars, importVars>>

Rest == INSTANCE RestKV WITH
  store <- restStore, opened <- restOpened, calls <- restCalls, pc <- restPc, op <- restOp,
  given <- restGiven, MaxCalls <- RestCalls
Project == INSTANCE ProjectInit WITH stage <- initStage
Shipments == INSTANCE ImportShipments WITH pc <- importPc, stage <- importStage

ASSUME CommandLineAssumption ==
  /\ Forms \subseteq Shipments!AllForms
  /\ Directory \in [Students -> Shipments!PhoneCells]
  /\ Corrections \subseteq Students \X Shipments!PhoneCells
  /\ Shipments!NoPhone.of \notin Subscribers
  /\ {MaxRows, RestCalls} \subseteq Nat
  /\ TTLs # {}
  /\ IsFiniteSet(Keys) /\ IsFiniteSet(Students)
  /\ Runs # {} /\ Runs \cap {Project!User, Project!Nobody} = {}
-----------------------------------------------------------------------------
CliInit ==
  /\ command = "none"
  /\ kv = "none"
  /\ Init /\ Rest!Init /\ Project!Init /\ Shipments!Begin

Unset == "unset"
Backends == {"local", "upstash", "vercel-kv"}
\* What dev finds: a secret that is still the placeholder, a configuration that is
\* accepted, the KV_BACKEND variable, kv_backend, the number of workers that
\* the host announces (0 for none), the URL and the token of the service.
Environment ==
  [placeholder: BOOLEAN, accepted: BOOLEAN, variable: Backends \cup {Unset, "other"},
   configured: Backends, workers: 0..2, credentials: BOOLEAN]

Choice(env) == IF env.variable = Unset THEN env.configured ELSE env.variable
Opens(env) ==
  CASE Choice(env) = "local" -> env.workers <= 1
    [] Choice(env) \in {"upstash", "vercel-kv"} -> env.credentials
    [] OTHER -> FALSE
Boots(env) == ~env.placeholder /\ env.accepted /\ Opens(env)

Dev ==
  /\ command = "none"
  /\ \E env \in Environment :
       /\ command' = IF Boots(env) THEN "dev" ELSE "refused"
       /\ kv' = IF ~Boots(env) THEN "none" ELSE IF Choice(env) = "local" THEN "local" ELSE "rest"
  /\ UNCHANGED <<now, fileVars, restVars, initVars, importVars>>

Dispatch ==
  /\ command = "none"
  /\ command' \in {"init", "import-shipments"}
  /\ UNCHANGED <<kv, now, fileVars, restVars, initVars, importVars>>

\* Bound: the store's operations and an import by the portal, which share no state
\* but the import's rate limit, are not mixed in a behaviour, and one store will do.
ServesNothing == kv = "rest" /\ now = 0 /\ restCalls = 0
ImportsNothing == importStage = "idle"

ServeFile ==
  /\ kv = "local" /\ ImportsNothing
  /\ Next
  /\ UNCHANGED <<command, kv, restVars, initVars, importVars>>

ServeRest ==
  /\ kv = "rest" /\ ImportsNothing
  /\ Rest!Next
  /\ UNCHANGED <<command, kv, fileVars, initVars, importVars>>

RunInit ==
  /\ command = "init"
  /\ Project!Next
  /\ UNCHANGED <<command, kv, now, fileVars, restVars, importVars>>

\* The command, or the route of the portal.
RunImport ==
  /\ command = "import-shipments" \/ (command = "dev" /\ ServesNothing)
  /\ Shipments!Go
  /\ request'.via = IF command = "dev" THEN "web" ELSE "cli"
  /\ UNCHANGED <<command, kv, now, fileVars, restVars, initVars>>

CliNext == Dev \/ Dispatch \/ ServeFile \/ ServeRest \/ RunInit \/ RunImport

CliSpec == CliInit /\ [][CliNext]_cliVars
-----------------------------------------------------------------------------
\* The variables have their types.
CliTypeOK ==
  /\ command \in {"none", "refused", "dev", "init", "import-shipments"}
  /\ kv \in {"none", "local", "rest"}
  /\ TypeOK /\ Rest!TypeOK /\ Project!TypeOK /\ Shipments!ImportTypeOK

\* What the store answers is right, whichever it is: consume hands a token out at
\* most once and incr a number, although threads interleave, answers get lost,
\* commands arrive after they were given up and processes die; a scan below its
\* limit has found every key that was there all the time (LocalFileKV, RestKV).
StoreAnswers == GivenOnce /\ Rest!GivenOnce /\ Rest!ScanFindsAll

\* A rate-limit window ends, unless an incr of it failed: the EXPIRE after the INCR
\* of its first hit (RestKV.incr).
WindowsEnd == Rest!WindowsEnd

\* The hits of a window do not move its end, in whatever order the commands of
\* several processes arrive (RestKV.incr sets EXPIRE on the first hit only).
WindowStands == Rest!WindowStands

\* A command that fails, is interrupted or races another leaves nothing half done:
\* the target of init holds the whole of one run's scaffold or nothing of any, and
\* no staging directory outlives its run; shipment_history holds whole imports that
\* somebody who may import asked for, and the uploaded file is gone (init_project,
\* _admin_shipments_import).
NothingHalfDone ==
  /\ Project!TargetWhole /\ Project!NothingLeftBehind
  /\ Shipments!WrittenByRight /\ Shipments!NoTempLeft

\* init removes no file from its target, even one that came after it looked.
FilesStay == Project!FilesStay

\* The rows of a carrier import are those its reference definition names
\* (bulk_import_shipments; the definition is in CarrierFile).
RowsMatchReference == Shipments!RowsMatchReference

\* The statistics of a carrier import account for every row of the sheet, and for
\* every row it writes.
StatsAddUp == Shipments!StatsAddUp
=============================================================================
