---------------------------- MODULE ShipmentDraft ----------------------------
(***************************************************************************)
(* The shipment draft table and the four handlers that write it: draft_add,*)
(* draft_cancel and draft_export (shipment/draft.py) and the promotion hook*)
(* of bulk_import_shipments (shipment/bulk_import.py).                     *)
(*                                                                         *)
(* Several workers serve requests against one SQLite file.  Python's       *)
(* sqlite3 opens a transaction at the first INSERT/UPDATE/DELETE, never at *)
(* a SELECT, so what a handler reads before its first write is a step of   *)
(* its own; from the first write to the commit the database lock is held   *)
(* and no other connection sees or changes anything, so that part is one   *)
(* step.                                                                   *)
(***************************************************************************)
EXTENDS Naturals, FiniteSets

CONSTANTS
  Students,    \* the pairs (round_id, sbd) that have a row in a round's table
  Rounds,      \* the configured rounds
  RoundOf,     \* the round of each student
  Workers,     \* threads or processes serving requests
  Codes,       \* carrier tracking codes
  NoCode,      \* NULL in the tracking_code column
  MaxDrafts,   \* bound: drafts ever inserted for one student
  MaxBatches   \* bound: exports that got past their SELECT

ASSUME ShipmentAssumption ==
  /\ RoundOf \in [Students -> Rounds]
  /\ NoCode \notin Codes
  /\ MaxDrafts \in Nat
  /\ MaxBatches \in Nat

VARIABLES
  rows,       \* rows[s][n]: the n-th draft inserted for student s
  made,       \* made[s]: how many drafts were ever inserted for s
  history,    \* shipment_history, by its key (round_id, sbd, tracking_code)
  audit,      \* the batches with a "shipment.export" row in admin_activity
  pc,         \* where each worker is in its handler
  job,        \* the local variables of that handler
  nextBatch,  \* the next batch_id (uuid4 in the code: never repeated)
  contents,   \* contents[b]: the drafts the export of batch b SELECTed
  delivered   \* the batches whose Excel file reached the operator

tables == <<rows, made, history>>
exports == <<nextBatch, contents, delivered>>
vars == <<rows, made, history, audit, pc, job, nextBatch, contents, delivered>>

-----------------------------------------------------------------------------
(* The tables. *)

\* "absent": the row was never inserted; "deleted": removed by a re-send.
Live == {"draft", "exported", "cancelled", "promoted"}
Active == {"draft", "exported"}
Gens == 1..MaxDrafts
Batches == 1..MaxBatches
Ids == Students \X Gens

Row == [status: Live \cup {"absent", "deleted"},
        batch: 0..MaxBatches,
        code: Codes \cup {NoCode}]

NoRow == [status |-> "absent", batch |-> 0, code |-> NoCode]
NewDraft == [NoRow EXCEPT !.status = "draft"]

InRound(r) == {s \in Students : RoundOf[s] = r}

\* Mutant: the look-up of an existing draft forgets the exported ones.
HasActiveDraftOnly(t, s) == \E n \in Gens : t[s][n].status = "draft"
HasActive(t, s) == \E n \in Gens : t[s][n].status \in Active
HasExported(t, s) == \E n \in Gens : t[s][n].status = "exported"

\* Mutant: the export's SELECT takes every active row.
DraftsOfActive(t, r) ==
  {id \in InRound(r) \X Gens : t[id[1]][id[2]].status \in Active}
DraftsOf(t, r) == {id \in InRound(r) \X Gens : t[id[1]][id[2]].status = "draft"}

\* The table constraint UNIQUE (round_id, sbd, status).
Unique(t) ==
  \A s \in Students : \A m, n \in Gens :
    m # n /\ t[s][m].status \in Live => t[s][m].status # t[s][n].status

(* The handlers' local state. *)

PCs == {"idle", "scan", "insert", "mark", "log", "reply",
        "add_conflict", "cancel_conflict", "export_conflict", "import_conflict"}

Job == [todo: SUBSET Students,   \* add: matched students not yet looked at
        fresh: SUBSET Students,  \* add: the one just seen without active draft
        ids: SUBSET Ids,         \* export: the drafts SELECTed
        batch: 0..MaxBatches]    \* export: the batch_id of this request

AddJob(todo, fresh) == [todo |-> todo, fresh |-> fresh, ids |-> {}, batch |-> 0]
ExportJob(ids, b) == [todo |-> {}, fresh |-> {}, ids |-> ids, batch |-> b]
NoJob == AddJob({}, {})
SetJob(w, j) == job' = [job EXCEPT ![w] = j]

Goto(w, to) == pc' = [pc EXCEPT ![w] = to]

-----------------------------------------------------------------------------
Init ==
  /\ rows = [s \in Students |-> [n \in Gens |-> NoRow]]
  /\ made = [s \in Students |-> 0]
  /\ history = {}
  /\ audit = {}
  /\ pc = [w \in Workers |-> "idle"]
  /\ job = [w \in Workers |-> NoJob]
  /\ nextBatch = 1
  /\ contents = [b \in Batches |-> {}]
  /\ delivered = {}

(* draft_add: query the students, then look at them one at a time. *)

\* The request's guard looks at the raw sbd_list; the query gets the list
\* after blank entries were dropped.  listed: the students the list names,
\* blanks: it also holds blank strings, filtered: filters or result given,
\* hits: the students those match.
AddAccepted(filtered, listed, blanks) == filtered \/ listed # {} \/ blanks

Matched(r, filtered, listed, hits) ==
  {s \in InRound(r) : (filtered => s \in hits) /\ (listed # {} => s \in listed)}

AddBegin(w) ==
  /\ pc[w] = "idle"
  /\ \E r \in Rounds, filtered, blanks \in BOOLEAN :
     \E listed, hits \in SUBSET InRound(r) :
       /\ AddAccepted(filtered, listed, blanks)
       /\ SetJob(w, AddJob(Matched(r, filtered, listed, hits), {}))
  /\ Goto(w, "scan")
  /\ UNCHANGED <<tables, audit, exports>>

\* SELECT ... status IN ('draft','exported'), outside any transaction.
AddSkip(w) ==
  /\ pc[w] = "scan"
  /\ \E s \in job[w].todo :
       /\ HasActive(rows, s)
       /\ SetJob(w, AddJob(job[w].todo \ {s}, {}))
  /\ UNCHANGED <<tables, audit, pc, exports>>

AddFresh(w) ==
  /\ pc[w] = "scan"
  /\ \E s \in job[w].todo :
       /\ ~HasActive(rows, s)
       /\ SetJob(w, AddJob(job[w].todo \ {s}, {s}))
  /\ Goto(w, "insert")
  /\ UNCHANGED <<tables, audit, exports>>

AddNothing(w) ==
  /\ pc[w] = "scan"
  /\ job[w].todo = {}
  /\ SetJob(w, NoJob)
  /\ Goto(w, "log")
  /\ UNCHANGED <<tables, audit, exports>>

\* The first INSERT takes the database lock; the rest of the loop and the
\* commit follow under it.  Only the first INSERT trusts a SELECT made
\* before the lock.

\* Mutant: an existing row of the student is replaced.
InsertedOver(t, count, new) ==
  [s \in Students |->
    [n \in Gens |-> IF s \in new /\ n = count[s] THEN NewDraft ELSE t[s][n]]]
Inserted(t, count, new) ==
  [s \in Students |->
    [n \in Gens |-> IF s \in new /\ n = count[s] + 1 THEN NewDraft ELSE t[s][n]]]

AddInsert(w) ==
  LET new == job[w].fresh \cup {s \in job[w].todo : ~HasActive(rows, s)}
      t == Inserted(rows, made, new)
  IN /\ pc[w] = "insert"
     /\ SetJob(w, NoJob)
     /\ \A s \in new : made[s] < MaxDrafts
     /\ IF Unique(t)
        THEN /\ rows' = t
             /\ made' = [s \in Students |-> IF s \in new THEN made[s] + 1 ELSE made[s]]
             /\ Goto(w, "log")
        ELSE /\ Goto(w, "add_conflict")
             /\ UNCHANGED <<rows, made>>
     /\ UNCHANGED <<history, audit, exports>>

-----------------------------------------------------------------------------
(* draft_cancel: one UPDATE over the ids of the request. *)

Cancelled(t, ids) ==
  [s \in Students |-> [n \in Gens |->
    IF <<s, n>> \in ids /\ t[s][n].status \in Active
    THEN [t[s][n] EXCEPT !.status = "cancelled"]
    ELSE t[s][n]]]

Cancel(w) ==
  /\ pc[w] = "idle"
  /\ \E ids \in SUBSET Ids :
       /\ ids # {}
       /\ LET t == Cancelled(rows, ids)
          IN IF Unique(t)
             THEN rows' = t /\ Goto(w, "log")
             ELSE Goto(w, "cancel_conflict") /\ UNCHANGED rows
  /\ UNCHANGED <<made, history, audit, job, exports>>

(* draft_export: SELECT the drafts, then UPDATE the ids it returned. *)

\* An export that finds no draft raises DraftError and changes nothing.
ExportSelect(w) ==
  /\ pc[w] = "idle"
  /\ nextBatch <= MaxBatches
  /\ \E r \in Rounds :
       LET ids == DraftsOf(rows, r)
       IN /\ ids # {}
          /\ SetJob(w, ExportJob(ids, nextBatch))
          /\ contents' = [contents EXCEPT ![nextBatch] = ids]
  /\ nextBatch' = nextBatch + 1
  /\ Goto(w, "mark")
  /\ UNCHANGED <<tables, audit, delivered>>

\* WHERE id IN (...): neither the status nor the batch of a row is looked at.
\* A row removed since the SELECT is simply not matched.

\* Mutant: the UPDATE repeats the SELECT's condition instead of its ids.
MarkedByStatus(t, ids, b) ==
  LET r == RoundOf[(CHOOSE id \in ids : TRUE)[1]]
  IN [s \in Students |-> [n \in Gens |->
       IF RoundOf[s] = r /\ t[s][n].status = "draft"
       THEN [t[s][n] EXCEPT !.status = "exported", !.batch = b]
       ELSE t[s][n]]]
Marked(t, ids, b) ==
  [s \in Students |-> [n \in Gens |->
    IF <<s, n>> \in ids /\ t[s][n].status \in Live
    THEN [t[s][n] EXCEPT !.status = "exported", !.batch = b]
    ELSE t[s][n]]]

ExportMark(w) ==
  LET t == Marked(rows, job[w].ids, job[w].batch)
  IN /\ pc[w] = "mark"
     /\ IF Unique(t)
        THEN rows' = t /\ Goto(w, "log")
        ELSE Goto(w, "export_conflict") /\ UNCHANGED rows
     /\ UNCHANGED <<made, history, audit, job, exports>>

-----------------------------------------------------------------------------
(* bulk_import_shipments. *)

\* What a carrier file lists for a round, after tracking codes were matched to
\* students by phone: codes[s] for each student.  Students who share a code
\* share a phone and so share every row of the file.
CarrierFiles(r) ==
  {codes \in [Students -> SUBSET Codes] :
     /\ \A s \in Students : codes[s] # {} => s \in InRound(r)
     /\ \A s, t \in Students : codes[s] \cap codes[t] # {} => codes[s] = codes[t]}

\* The code of the student's first row in the file.
FirstCodes(codes) ==
  {first \in [Students -> Codes \cup {NoCode}] :
     /\ \A s \in Students : IF codes[s] = {} THEN first[s] = NoCode
                                             ELSE first[s] \in codes[s]
     /\ \A s, t \in Students : codes[s] = codes[t] => first[s] = first[t]}

\* For each listed student with an exported draft the loop deletes the promoted
\* row of the previous send and promotes the draft with the first code; the
\* student's further codes find no exported draft left.

\* Mutants: the promoted row of the previous send is left in place; drafts
\* that were never exported, or were cancelled, are promoted as well.
PromotedBeside(t, first) ==
  [s \in Students |-> [n \in Gens |->
    IF first[s] # NoCode /\ t[s][n].status = "exported"
    THEN [t[s][n] EXCEPT !.status = "promoted", !.code = first[s]]
    ELSE t[s][n]]]
PromotedFrom(t, first, from) ==
  [s \in Students |-> [n \in Gens |->
    IF first[s] # NoCode /\ \E m \in Gens : t[s][m].status \in from
    THEN CASE t[s][n].status = "promoted" -> [t[s][n] EXCEPT !.status = "deleted"]
           [] t[s][n].status \in from ->
                [t[s][n] EXCEPT !.status = "promoted", !.code = first[s]]
           [] OTHER -> t[s][n]
    ELSE t[s][n]]]
PromotedDrafts(t, first) == PromotedFrom(t, first, Active)
PromotedCancelled(t, first) == PromotedFrom(t, first, {"exported", "cancelled"})
Promoted(t, first) ==
  [s \in Students |-> [n \in Gens |->
    IF first[s] # NoCode /\ HasExported(t, s)
    THEN CASE t[s][n].status = "promoted" -> [t[s][n] EXCEPT !.status = "deleted"]
           [] t[s][n].status = "exported" ->
                [t[s][n] EXCEPT !.status = "promoted", !.code = first[s]]
           [] OTHER -> t[s][n]
    ELSE t[s][n]]]


\* Mutant: a code is recorded for one student of its phone only.
RecordedOnce(codes) ==
  {<<CHOOSE s \in Students : c \in codes[s], c>> :
     c \in UNION {codes[s] : s \in Students}}
Recorded(codes) == UNION {{s} \X codes[s] : s \in Students}

ImportCommit(w) ==
  /\ pc[w] = "idle"
  /\ \E r \in Rounds : \E codes \in CarrierFiles(r) : \E first \in FirstCodes(codes) :
       LET t == Promoted(rows, first)
       IN IF Unique(t)
          THEN /\ rows' = t
               /\ history' = history \cup Recorded(codes)
               /\ Goto(w, "log")
          ELSE /\ Goto(w, "import_conflict")
               /\ UNCHANGED <<rows, history>>
  /\ UNCHANGED <<made, audit, job, exports>>

\* commit=False: the statistics are computed and logged, nothing is written.
ImportDryRun(w) ==
  /\ pc[w] = "idle"
  /\ Goto(w, "log")
  /\ UNCHANGED <<tables, audit, job, exports>>

-----------------------------------------------------------------------------
(* The end of every handler. *)

\* log_admin_action: a transaction of its own, after the handler's commit.  Its
\* row names a batch only for an export; rows of the other actions say nothing
\* about a draft's identity and are not kept.  The others' response follows.

\* Mutant: the export answers without waiting for its audit row.
LogLater(w) ==
  /\ pc[w] = "log"
  /\ Goto(w, IF job[w].batch # 0 THEN "reply" ELSE "idle")
  /\ UNCHANGED <<tables, audit, job, exports>>
Log(w) ==
  /\ pc[w] = "log"
  /\ IF job[w].batch # 0
     THEN audit' = audit \cup {job[w].batch} /\ Goto(w, "reply")
     ELSE Goto(w, "idle") /\ UNCHANGED audit
  /\ UNCHANGED <<tables, job, exports>>

\* The response of an export: the file built from what its SELECT returned.
Reply(w) ==
  /\ pc[w] = "reply"
  /\ delivered' = delivered \cup {job[w].batch}
  /\ SetJob(w, NoJob)
  /\ Goto(w, "idle")
  /\ UNCHANGED <<tables, audit, nextBatch, contents>>

\* The request dies where it stands: the worker is killed, SQLite reports
\* "database is locked", or the IntegrityError of a conflict propagates.
\* Uncommitted writes are gone, the rest of the handler is not run.
Abandon(w) ==
  /\ pc[w] # "idle"
  /\ SetJob(w, NoJob)
  /\ Goto(w, "idle")
  /\ UNCHANGED <<tables, audit, exports>>

Step(w) ==
  \/ AddBegin(w) \/ AddSkip(w) \/ AddFresh(w) \/ AddNothing(w) \/ AddInsert(w)
  \/ Cancel(w)
  \/ ExportSelect(w) \/ ExportMark(w)
  \/ ImportCommit(w) \/ ImportDryRun(w)
  \/ Log(w) \/ Reply(w) \/ Abandon(w)

Next == \E w \in Workers : Step(w)

Spec == Init /\ [][Next]_vars
-----------------------------------------------------------------------------
(* Properties that hold however the workers' steps interleave. *)

\* The variables have their types; draft n of a student is a row exactly when
\* it was inserted, and the table never breaks its UNIQUE constraint.
TypeOK ==
  /\ rows \in [Students -> [Gens -> Row]]
  /\ made \in [Students -> 0..MaxDrafts]
  /\ history \subseteq Students \X Codes
  /\ audit \subseteq Batches
  /\ pc \in [Workers -> PCs]
  /\ job \in [Workers -> Job]
  /\ nextBatch \in 1..(MaxBatches + 1)
  /\ contents \in [Batches -> SUBSET Ids]
  /\ delivered \subseteq Batches
  /\ \A s \in Students, n \in Gens : rows[s][n].status = "absent" <=> n > made[s]
  /\ Unique(rows)

\* A draft that is locked ("exported") or closed by a tracking code
\* ("promoted") is one of the drafts its batch's export read, so it is in that
\* batch's file: no draft is locked without being in the file (draft_export,
\* whose UPDATE runs after other connections may have changed the table).
ExportedIsInItsFile ==
  \A s \in Students, n \in Gens :
    rows[s][n].status \in {"exported", "promoted"} =>
      /\ rows[s][n].batch \in 1..(nextBatch - 1)
      /\ <<s, n>> \in contents[rows[s][n].batch]

\* The live status of a promoted draft can always be looked up: its tracking
\* code is a shipment_history row of the same student (bulk_import_shipments
\* writes both in one transaction, and a later re-send only removes drafts).
PromotedHasHistory ==
  \A s \in Students, n \in Gens :
    /\ rows[s][n].status = "promoted" => rows[s][n].code # NoCode
    /\ rows[s][n].code # NoCode => <<s, rows[s][n].code>> \in history

\* Promotion never collides with the UNIQUE constraint, so it never rolls back
\* the shipment_history rows imported with it (the comment on the re-send path
\* of bulk_import_shipments).
ImportNeverConflicts == \A w \in Workers : pc[w] # "import_conflict"

\* Only an export that read a draft before it was cancelled or promoted can
\* bring it back; no other interleaving revives a closed draft, and a row a
\* re-send removed never returns.
OnlyStaleExportReopens ==
  [][\A s \in Students, n \in Gens :
       /\ rows[s][n].status \in {"cancelled", "promoted"}
          /\ rows'[s][n].status \notin {rows[s][n].status, "deleted"} =>
            \E w \in Workers : pc[w] = "mark" /\ <<s, n>> \in job[w].ids
       /\ rows[s][n].status = "deleted" => rows'[s][n] = rows[s][n]]_vars

\* An export file that reached an operator has its audit row: draft_export logs
\* before it returns, and a request that dies in between delivers nothing.
DeliveredIsAudited == delivered \subseteq audit

-----------------------------------------------------------------------------
(* Properties of requests served one after the other. *)

\* One active draft per student and round (module comment of draft.py).
OneActive ==
  \A s \in Students : \A m, n \in Gens :
    rows[s][m].status \in Active /\ rows[s][n].status \in Active => m = n

\* An exported draft is immutable: it can only be cancelled, or promoted by a
\* tracking code, and keeps its batch (module comment of draft.py).
HardLock ==
  [][\A s \in Students, n \in Gens :
       rows[s][n].status = "exported" =>
         /\ rows'[s][n].status \in {"exported", "cancelled", "promoted"}
         /\ rows'[s][n].batch = rows[s][n].batch]_vars

\* A file in the operator's hands lists exactly the drafts that were stamped
\* with its batch: none missing, none that also belongs to another batch.
FileMatchesBatch ==
  \A b \in delivered : contents[b] = {id \in Ids : rows[id[1]][id[2]].batch = b}

\* An export is never refused by the UNIQUE constraint, so one student's
\* history cannot block the export of the whole round.
ExportNeverConflicts == \A w \in Workers : pc[w] # "export_conflict"

\* The draft table implements the one-slot life cycle of DraftLifecycle.
SlotOf(s) ==
  IF \E n \in Gens : rows[s][n].status = "draft" THEN "draft"
  ELSE IF HasExported(rows, s) THEN "exported" ELSE "none"
SlotBatch(s) ==
  IF SlotOf(s) = "exported"
  THEN rows[s][CHOOSE n \in Gens : rows[s][n].status = "exported"].batch ELSE 0

Lifecycle == INSTANCE DraftLifecycle WITH
  slot <- [s \in Students |-> SlotOf(s)],
  batch <- [s \in Students |-> SlotBatch(s)],
  sent <- {s \in Students : \E n \in Gens : rows[s][n].status = "promoted"},
  used <- {rows[id[1]][id[2]].batch : id \in Ids} \ {0}

\* Requests served one at a time, dying at any point, are the abstract life
\* cycle: in particular an export takes every draft of the round at once.
ImplementsLifecycle == Lifecycle!Spec

-----------------------------------------------------------------------------
(* A statement of the documentation that the code does not keep. *)

\* draft_cancel's comment: exported drafts can be cancelled.
CancelNeverConflicts == \A w \in Workers : pc[w] # "cancel_conflict"
=============================================================================
