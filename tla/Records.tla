-------------------------------- MODULE Records --------------------------------
(***************************************************************************)
(* The record tables and the handlers that edit and print them: the        *)
(* students tables, one per round (ingest/orchestrator.py,                 *)
(* api/admin_update.py, api/admin_list.py), the shipments table            *)
(* (shipment/repository.py, api/shipment.py), the assembly of a            *)
(* certificate from the rows (api/search.py, api/download.py), and the     *)
(* audit trail with its webhook (auth/activity_log.py).                    *)
(*                                                                         *)
(* An action is one atomic step: a SELECT outside a transaction, or        *)
(* everything from the first write to the commit.  Requests have passed    *)
(* the token check (AdminSession) or the public gate (PublicPortal).       *)
(***************************************************************************)
EXTENDS Naturals, SequencesExt

CONSTANTS
  Students,    \* SBDs
  Rounds,      \* the rounds in the order of the configuration
  Workers,
  Texts,       \* what a cell can hold, besides nothing
  Results,     \* the texts that results.<subject> has a template page for
  Fields,      \* config.features.shipment.fields
  Statuses,    \* config.features.shipment.statuses
  Sources,     \* the source files that can be ingested: sequences of rows
  MaxRequests  \* bound: requests served

Blank == ""
Cells == Texts \cup {Blank}

\* A name, a date of birth or a phone is what _strip_accents_upper, _normalize_dob
\* or its last four digits make of it; those that a search does not compare stand
\* for every other printed column.
Columns == {"name", "dob", "phone", "result"}
NoSbd == "no sbd"
SourceRow == [sbd: Students \cup {NoSbd}, cells: [Columns -> Cells]]

ASSUME RecordsAssumption ==
  /\ Students # {} /\ NoSbd \notin Students
  /\ Rounds # <<>> /\ Rounds \in Seq(ToSet(Rounds)) /\ IsInjective(Rounds)
  /\ Texts # {} /\ Blank \notin Texts
  /\ Results \subseteq Texts
  /\ Sources \subseteq Seq(SourceRow)
  /\ MaxRequests \in Nat

VARIABLES
  table,      \* table[r][s]: the row of student s in the table of round r
  shipments,  \* shipments[s]: the row of student s (of one round)
  requests,   \* how many requests were begun
  audit,      \* the requests with a row in admin_activity
  queued,     \* the audit rows handed to the webhook executor
  pc, job,    \* where each worker is in its handler, and its locals
  posted,     \* history: the rows the webhook received
  answered,   \* history: the admin requests whose answer left the server
  printed,    \* history: the certificates downloaded
  last        \* history: what the last committed request to name a cell put there

tables == <<table, shipments, last>>
trail == <<audit, queued, posted>>
outside == <<answered, printed>>
vars == <<tables, requests, trail, pc, job, outside>>
-----------------------------------------------------------------------------
RoundIds == ToSet(Rounds)
Requests == 1..MaxRequests
Keep == "keep"
Policies == {"warn", "skip", "replace"}

BlankCells == [c \in Columns |-> Blank]
Row == [there: BOOLEAN, cells: [Columns -> Cells]]
NoRow == [there |-> FALSE, cells |-> BlankCells]

BlankFields == [f \in Fields |-> Blank]
Shipment == [there: BOOLEAN, status: Statuses \cup {Blank}, fields: [Fields -> Cells]]
NoShipment == [there |-> FALSE, status |-> Blank, fields |-> BlankFields]

Patch == [Fields -> Cells \cup {Keep}]
NoPatch == [f \in Fields |-> Keep]

\* The columns that each student_search.mode compares, and what a student gives for
\* them; an admin gives nothing.
Compared == [name_dob_captcha |-> {"name", "dob"}, name_sbd_captcha |-> {"name"},
             sbd_phone |-> {"phone"}]
NoFactors == [c \in {} |-> Blank]
Factors == {NoFactors} \cup UNION {[Compared[m] -> Cells] : m \in DOMAIN Compared}

Kinds == {"update", "upsert", "list", "download"}
PCs == {"idle", "select", "write", "upsert", "scan", "log", "forward", "reply", "search",
        "render"}

Job == [id: 0..MaxRequests, kind: Kinds, round: RoundIds, sbd: Students,
        column: Columns, value: Cells,       \* update_student_field
        row: Row,                            \* the row it read; the one a certificate prints
        status: Statuses \cup {Blank}, patch: Patch,                \* upsert_shipment
        factors: Factors,                    \* download: what the request gives
        next: 1..(Len(Rounds) + 1),          \* the round to search next
        found: Row]                          \* the row the certificate is for

NoJob == [id |-> 0, kind |-> "list", round |-> Rounds[1], sbd |-> CHOOSE s \in Students : TRUE,
          column |-> "name", value |-> Blank, row |-> NoRow, status |-> Blank,
          patch |-> NoPatch, factors |-> NoFactors, next |-> 1, found |-> NoRow]

Goto(w, to) ==
  /\ pc' = [pc EXCEPT ![w] = to]
  /\ job' = IF to = "idle" THEN [job EXCEPT ![w] = NoJob] ELSE job

Begin(w, to, j) ==
  /\ pc[w] = "idle"
  /\ requests < MaxRequests
  /\ requests' = requests + 1
  /\ pc' = [pc EXCEPT ![w] = to]
  /\ job' = [job EXCEPT ![w] = [j EXCEPT !.id = requests + 1]]

-----------------------------------------------------------------------------
(* ingest_rows, from an operator's script: one transaction for the file.    *)

\* INSERT OR IGNORE and INSERT OR REPLACE.
Overwrites(policy) == policy = "replace"

IngestRow(t, src, policy) ==
  IF src.sbd = NoSbd \/ (t[src.sbd].there /\ ~Overwrites(policy)) THEN t
  ELSE [t EXCEPT ![src.sbd] = [there |-> TRUE, cells |-> src.cells]]

Ingested(t, file, policy) == FoldLeft(LAMBDA u, src : IngestRow(u, src, policy), t, file)

\* What the file says of a student: its first row, or its last if rows replace.
RowsOf(file, s) == {n \in DOMAIN file : file[n].sbd = s}
Says(file, s, policy) ==
  file[IF policy = "replace" THEN Max(RowsOf(file, s)) ELSE Min(RowsOf(file, s))].cells
Sets(file, r, s, policy) ==
  RowsOf(file, s) # {} /\ (policy = "replace" \/ ~table[r][s].there)

Ingest ==
  /\ requests < MaxRequests
  /\ requests' = requests + 1
  /\ \E r \in RoundIds, file \in Sources, policy \in Policies :
       /\ table' = [table EXCEPT ![r] = Ingested(@, file, policy)]
       /\ last' = [last EXCEPT !.cells[r] = [s \in Students |->
                     IF Sets(file, r, s, policy) THEN Says(file, s, policy) ELSE @[s]]]
  /\ UNCHANGED <<shipments, trail, pc, job, outside>>

EmptyTable == [s \in Students |-> NoRow]

\* The tables as a first ingest left them.
Init ==
  /\ \E first \in [RoundIds -> Sources] :
       table = [r \in RoundIds |-> Ingested(EmptyTable, first[r], "warn")]
  /\ shipments = [s \in Students |-> NoShipment]
  /\ requests = 0
  /\ audit = {} /\ queued = {} /\ posted = {}
  /\ pc = [w \in Workers |-> "idle"]
  /\ job = [w \in Workers |-> NoJob]
  /\ answered = {} /\ printed = {}
  /\ last = [cells |-> [r \in RoundIds |-> [s \in Students |-> table[r][s].cells]],
             shipments |-> shipments]

-----------------------------------------------------------------------------
(* update_student_field. *)

StartUpdate(w) ==
  /\ \E r \in RoundIds, s \in Students, c \in Columns, v \in Cells :
       Begin(w, "select", [NoJob EXCEPT !.kind = "update", !.round = r, !.sbd = s,
                                        !.column = c, !.value = v])
  /\ UNCHANGED <<tables, trail, outside>>

\* No lock is held after the SELECT.
UpdateSelect(w) ==
  LET row == table[job[w].round][job[w].sbd]
  IN /\ pc[w] = "select"
     /\ IF row.there
        THEN /\ pc' = [pc EXCEPT ![w] =
                  IF row.cells[job[w].column] = job[w].value THEN "log" ELSE "write"]
             /\ job' = [job EXCEPT ![w].row = row]
        ELSE Goto(w, "idle")
     /\ UNCHANGED <<tables, requests, trail, outside>>

\* UPDATE ... SET "<column>" = ?
\* Mutant: the row that was read is written back with the new value.
UpdatedFromRead(row, j) == [j.row EXCEPT !.cells[j.column] = j.value]
Updated(row, j) == [row EXCEPT !.cells[j.column] = j.value]

UpdateWrite(w) ==
  LET j == job[w]
  IN /\ pc[w] = "write"
     /\ table' = [table EXCEPT ![j.round][j.sbd] = Updated(@, j)]
     /\ last' = [last EXCEPT !.cells[j.round][j.sbd][j.column] = j.value]
     /\ Goto(w, "log")
     /\ UNCHANGED <<shipments, requests, trail, outside>>

-----------------------------------------------------------------------------
(* upsert_shipment_record; status and fields have been validated. *)

StartUpsert(w) ==
  /\ \E s \in Students, status \in Statuses, patch \in Patch :
       Begin(w, "upsert", [NoJob EXCEPT !.kind = "upsert", !.sbd = s, !.status = status,
                                        !.patch = patch])
  /\ UNCHANGED <<tables, trail, outside>>

\* ON CONFLICT DO UPDATE sets the status and the fields the caller named.
\* Mutant: a field the caller left out is written too.
PatchedRaw(record, status, patch) == [there |-> TRUE, status |-> status, fields |-> patch]
Patched(record, status, patch) ==
  [there |-> TRUE, status |-> status,
   fields |-> [f \in Fields |-> IF patch[f] = Keep THEN record.fields[f] ELSE patch[f]]]

\* The row it answers with is read back in the same transaction.
Upsert(w) ==
  LET j == job[w]
      named == {f \in Fields : j.patch[f] # Keep}
  IN /\ pc[w] = "upsert"
     /\ shipments' = [shipments EXCEPT ![j.sbd] = Patched(@, j.status, j.patch)]
     /\ Goto(w, "log")
     /\ last' = [last EXCEPT !.shipments[j.sbd] =
          [there |-> TRUE, status |-> j.status,
           fields |-> [f \in Fields |-> IF f \in named THEN j.patch[f] ELSE @.fields[f]]]]
     /\ UNCHANGED <<table, requests, trail, outside>>

-----------------------------------------------------------------------------
(* admin_list_students: reading changes nothing but is logged. *)

StartList(w) ==
  /\ Begin(w, "scan", [NoJob EXCEPT !.kind = "list"])
  /\ UNCHANGED <<tables, trail, outside>>

Scan(w) ==
  /\ pc[w] = "scan"
  /\ Goto(w, "log")
  /\ UNCHANGED <<tables, requests, trail, outside>>

-----------------------------------------------------------------------------
(* log_admin_action: the row is committed, then handed to the executor. *)

\* Mutant: a database error is passed over.
LogBestEffort(w) ==
  /\ pc[w] = "log"
  /\ audit' \in {audit, audit \cup {job[w].id}}
  /\ Goto(w, "forward")
  /\ UNCHANGED <<tables, requests, queued, posted, outside>>
Log(w) ==
  /\ pc[w] = "log"
  /\ audit' = audit \cup {job[w].id}
  /\ Goto(w, "forward")
  /\ UNCHANGED <<tables, requests, queued, posted, outside>>

Forward(w) ==
  /\ pc[w] = "forward"
  /\ queued' = queued \cup {job[w].id}
  /\ Goto(w, "reply")
  /\ UNCHANGED <<tables, requests, audit, posted, outside>>

\* _post_webhook: the POST succeeds, or its failure is only logged.
Post ==
  /\ \E n \in queued :
       queued' = queued \ {n} /\ posted' \in {posted, posted \cup {n}}
  /\ UNCHANGED <<tables, requests, audit, pc, job, outside>>

Reply(w) ==
  /\ pc[w] = "reply"
  /\ answered' = answered \cup {job[w].id}
  /\ Goto(w, "idle")
  /\ UNCHANGED <<tables, requests, trail, printed>>

-----------------------------------------------------------------------------
(* search_student and download_certificate. *)

StartDownload(w) ==
  /\ \E r \in RoundIds, s \in Students, factors \in Factors :
       Begin(w, "search", [NoJob EXCEPT !.kind = "download", !.round = r, !.sbd = s,
                                        !.factors = factors])
  /\ UNCHANGED <<tables, trail, outside>>

\* _match_predicate: in sbd_phone mode, the ending of the phone and not the name.
MatchPredicate(row, j) ==
  \A c \in DOMAIN j.factors :
    row.cells[c] = j.factors[c] /\ (c = "phone" => row.cells[c] # Blank)

\* Mutant: after the first match the other rounds are taken unmatched.
MatchesOnce(row, j) == row.there /\ (j.row.there \/ MatchPredicate(row, j))
Matches(row, j) == row.there /\ MatchPredicate(row, j)

\* One SELECT per round; the first match is what will be printed, and a row
\* whose result has a template page offers a certificate.
SearchRound(w) ==
  LET j == job[w]
      r == Rounds[j.next]
      row == table[r][j.sbd]
      hit == Matches(row, j)
      searched == [j EXCEPT
        !.next = @ + 1,
        !.row = IF hit /\ ~@.there THEN row ELSE @,
        !.found = IF hit /\ r = j.round /\ row.cells["result"] \in Results THEN row ELSE @]
  IN /\ pc[w] = "search"
     /\ j.next <= Len(Rounds)
     /\ job' = [job EXCEPT ![w] = searched]
     /\ UNCHANGED <<tables, requests, trail, pc, outside>>

\* _pick_certificate; without one, SearchError.
Pick(w) ==
  /\ pc[w] = "search"
  /\ job[w].next > Len(Rounds)
  /\ Goto(w, IF job[w].found.there THEN "render" ELSE "idle")
  /\ UNCHANGED <<tables, requests, trail, outside>>

\* The PDF: the columns of the first match, the page of the certificate's result.
Render(w) ==
  LET j == job[w]
  IN /\ pc[w] = "render"
     /\ printed' = printed \cup {[given |-> DOMAIN j.factors, cells |-> j.row.cells,
                                  owner |-> j.found.cells]}
     /\ Goto(w, "idle")
     /\ UNCHANGED <<tables, requests, trail, answered>>

-----------------------------------------------------------------------------
\* A request fails or its worker is killed.
Abandon(w) ==
  /\ pc[w] # "idle"
  /\ Goto(w, "idle")
  /\ UNCHANGED <<tables, requests, trail, outside>>

\* The process ends: with it the executor's queue.
Crash ==
  /\ pc' = [w \in Workers |-> "idle"]
  /\ job' = [w \in Workers |-> NoJob]
  /\ queued' = {}
  /\ UNCHANGED <<tables, requests, audit, posted, outside>>

Step(w) ==
  \/ StartUpdate(w) \/ UpdateSelect(w) \/ UpdateWrite(w)
  \/ StartUpsert(w) \/ Upsert(w)
  \/ StartList(w) \/ Scan(w)
  \/ Log(w) \/ Forward(w) \/ Reply(w)
  \/ StartDownload(w) \/ SearchRound(w) \/ Pick(w) \/ Render(w)
  \/ Abandon(w)

Next == Ingest \/ Post \/ Crash \/ \E w \in Workers : Step(w)

Spec == Init /\ [][Next]_vars
-----------------------------------------------------------------------------
\* The variables have their types.
TypeOK ==
  /\ table \in [RoundIds -> [Students -> Row]]
  /\ shipments \in [Students -> Shipment]
  /\ requests \in 0..MaxRequests
  /\ audit \subseteq Requests /\ queued \subseteq Requests /\ posted \subseteq Requests
  /\ pc \in [Workers -> PCs]
  /\ job \in [Workers -> Job]
  /\ answered \subseteq Requests
  /\ last \in [cells: [RoundIds -> [Students -> [Columns -> Cells]]],
               shipments: [Students -> Shipment]]

\* No edit is lost: every cell of a student or a shipment holds what the last
\* committed request to name it put there.  Updates of other columns that were
\* read before do not undo it, nor does a re-ingest that keeps existing rows,
\* nor an upsert that leaves the field out (update_student_field, ingest_rows,
\* upsert_shipment).
EditsStand ==
  /\ \A r \in RoundIds, s \in Students :
       table[r][s].cells = last.cells[r][s]
  /\ shipments = last.shipments

\* Whatever left the server has its row in the trail: an admin who got an answer
\* left one, for updates, upserts and, as admin_list.py promises, reads; and what
\* the webhook received is in the local log, "always authoritative"
\* (activity_log.py), however late the executor posts it and whatever dies.
TrailIsComplete == answered \cup posted \cup queued \subseteq audit

\* What a student gave to be found is in the row that is printed and in the row the
\* result is from, although these may be rows of two rounds that are edited between
\* the two SELECTs (search_student): in a mode that asks for the name, the printed
\* name is that of the result's row, and with it the date of birth if it is asked
\* for.  In sbd_phone mode it is the ending of the phone; the names may differ there.
PrintedRowIsOwners ==
  \A c \in printed : \A col \in c.given : c.cells[col] = c.owner[col]
=============================================================================
