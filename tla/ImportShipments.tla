---------------------------- MODULE ImportShipments ----------------------------
(***************************************************************************)
(* The two ways into a carrier import: lvt-cert import-shipments           *)
(* (commands/import_shipments.py) and POST /api/admin/shipments/import     *)
(* (server/app.py), with what they check, the upload's temporary file and  *)
(* the write at the end.  ShipmentDraft has what that transaction does to  *)
(* drafts; here it writes shipment_history or fails.                       *)
(***************************************************************************)
EXTENDS CarrierFile

VARIABLES
  request,  \* who asks, over which way, and for what
  stage,    \* "idle", "asked", "importing", "logging", "closing" or how it ended
  temp,     \* whether the temporary file is there
  written,  \* how many rows the open transaction has inserted
  history   \* the committed rows of shipment_history

entry == <<request, stage, temp, written, history>>
-----------------------------------------------------------------------------
\* commit is the --commit option, or the form's field.
Request == [via: {"cli"}, role: {"none"}, commit: {"absent", "true"}]
           \cup [via: {"web"}, role: {"none", "viewer", "admin"}, commit: {"absent", "true"}]
Nobody == [via |-> "nothing", role |-> "none", commit |-> "absent"]
Ended == {"refused", "failed", "answered", "killed"}
Stages == {"idle", "asked", "importing", "logging", "closing"} \cup Ended

\* A token that is not valid gives no role; the command line asks for none.
\* Mutant: any token will do.
IsSignedIn(r) == r.via = "cli" \/ r.role # "none"
MayImport(r) == r.via = "cli" \/ r.role = "admin"
WantsCommit(r) == r.commit = "true"

Begin ==
  /\ Init
  /\ request = Nobody
  /\ stage = "idle"
  /\ temp = FALSE
  /\ written = 0
  /\ history = {}

Ask ==
  /\ stage = "idle"
  /\ request' \in Request
  /\ stage' = "asked"
  /\ UNCHANGED <<temp, written, history, vars>>

\* No configuration or database (exit 2); rate limit, size, token, role, file, suffix.
Refuse ==
  /\ stage = "asked"
  /\ stage' = "refused"
  /\ UNCHANGED <<request, temp, written, history, vars>>

\* The route saves the upload; the command reads the file where it is.
Accept ==
  /\ stage = "asked"
  /\ MayImport(request)
  /\ stage' = "importing"
  /\ temp' = (request.via = "web")
  /\ UNCHANGED <<request, written, history, vars>>

Import ==
  /\ stage = "importing"
  /\ Next
  /\ UNCHANGED entry

\* executemany in "with conn": nobody sees the rows of an open transaction.
\* Mutant: each row is committed as it is inserted.
CommittedAtOnce(row) == history \cup {row}
InsertedRow(row) == history

Insert ==
  /\ stage = "importing" /\ pc = "done" /\ WantsCommit(request)
  /\ written < Len(toInsert)
  /\ written' = written + 1
  /\ history' = InsertedRow(toInsert[written'])
  /\ UNCHANGED <<request, stage, temp, vars>>

\* The transaction ends, if a commit was asked for.
Commit ==
  /\ stage = "importing" /\ pc = "done"
  /\ WantsCommit(request) => written = Len(toInsert)
  /\ history' = IF WantsCommit(request) THEN ToSet(toInsert) ELSE history
  /\ stage' = "logging"
  /\ written' = 0
  /\ UNCHANGED <<request, temp, vars>>

\* The audit row, of a preview too.
Log ==
  /\ stage = "logging"
  /\ stage' = "closing"
  /\ UNCHANGED <<request, temp, written, history, vars>>

\* The finally block removes the temporary file.
\* Mutant: it is removed on success only.
KeptAfterError(succeeded) == ~succeeded /\ temp
KeptFile(succeeded) == FALSE

\* BulkImportError (exit 1, or an error response), SQLite's errors, a failed save: an
\* open transaction is rolled back.
Abort ==
  /\ stage = "importing"
  /\ stage' = "failed"
  /\ temp' = KeptFile(FALSE)
  /\ written' = 0
  /\ GiveUp
  /\ UNCHANGED <<request, history>>

\* The audit row fails: an error is answered, although the rows are committed.
FailToLog ==
  /\ stage = "logging"
  /\ stage' = "failed"
  /\ temp' = KeptFile(FALSE)
  /\ UNCHANGED <<request, written, history, vars>>

Close ==
  /\ stage = "closing"
  /\ stage' = "answered"
  /\ temp' = KeptFile(TRUE)
  /\ UNCHANGED <<request, written, history, vars>>

Kill ==
  /\ \/ stage = "importing" /\ GiveUp
     \/ stage \in {"logging", "closing"} /\ UNCHANGED vars
  /\ stage' = "killed"
  /\ written' = 0
  /\ UNCHANGED <<request, temp, history>>

Go ==
  \/ Ask \/ Refuse \/ Accept \/ Import \/ Insert \/ Commit \/ Log
  \/ Abort \/ FailToLog \/ Close \/ Kill
-----------------------------------------------------------------------------
\* The variables have their types.
ImportTypeOK ==
  /\ TypeOK
  /\ request \in Request \cup {Nobody}
  /\ stage \in Stages
  /\ temp \in BOOLEAN
  /\ written \in 0..Len(toInsert)
  /\ history \subseteq [sbd: Students, code: Codes, success: BOOLEAN]

\* shipment_history only ever holds the whole import of somebody who may import
\* and asked for a commit, never a part of it, a preview's or a viewer's ("defaults
\* to dry-run", "viewer rejected"), whichever row an error or a kill comes after.
WrittenByRight ==
  history # {} =>
    /\ request.via = "web" => request.role = "admin"
    /\ request.commit = "true"
    /\ pc = "done" /\ history = ToSet(toInsert)

\* However an import ends, short of a kill, the uploaded file is gone.
NoTempLeft == stage \in {"refused", "failed", "answered"} => ~temp
=============================================================================
