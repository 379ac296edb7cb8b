------------------------------ MODULE CarrierFile ------------------------------
(***************************************************************************)
(* How bulk_import_shipments (shipment/bulk_import.py) turns a carrier's   *)
(* sheet into shipment_history rows: one pass over the rows, which skips,  *)
(* deduplicates by tracking code, matches students by phone and counts.    *)
(* ShipmentDraft takes it from there: toInsert is what its ImportCommit    *)
(* writes.                                                                 *)
(*                                                                         *)
(* A cell is abstracted to what the loop tells apart.  A phone number is   *)
(* the way it is written and the subscriber it belongs to; a status is     *)
(* "delivered", "pending" or one with a skip prefix.                       *)
(***************************************************************************)
EXTENDS Naturals, SequencesExt

CONSTANTS
  Students,
  Subscribers,  \* the subscribers that phone numbers belong to
  Codes,        \* tracking codes
  Forms,        \* how numbers are written, in the sheet and in the table
  Directory,    \* Directory[s]: the phone cell of student s when the import begins
  Corrections,  \* bound: the corrections <<student, cell>> that may be made, one at most
  MaxRows       \* bound: rows of a sheet

\* "0901234567", "901234567.0", "090 123 4567", "+84 90 123 4567"
AllForms == {"domestic", "float", "spaced", "international"}
NoPhone == [form |-> "none", of |-> "nobody"]
PhoneCells == [form: Forms, of: Subscribers] \cup {NoPhone}

NoCode == "no code"
Statuses == {"delivered", "pending", "skipped"}
SheetRow == [code: Codes \cup {NoCode}, status: Statuses, phone: PhoneCells]

VARIABLES
  phones,     \* phones[s]: the phone cell of s in the round's table
  read,       \* the phone cells that phone_to_sbds was built from
  pc,         \* "start", "reading", "done" or "error"
  sheet,      \* history: the rows read so far
  seen,       \* seen_tracking
  toInsert,   \* to_insert, in order
  unmatched,  \* unmatched_phones
  skipped     \* skipped_no_tracking, skipped_prefix, skipped_no_phone

loop == <<sheet, seen, toInsert, unmatched, skipped>>
vars == <<phones, read, pc, loop>>
-----------------------------------------------------------------------------
\* _normalize_phone: without ".0", bare digits without leading zeros.  A country code
\* is digits.
\* Mutant: the ".0" of a float is not cut off and leaves a digit.
NormalizeDigits(cell) ==
  [code |-> IF cell.form \in {"international", "float"} THEN cell.form ELSE "", of |-> cell.of]
NormalizePhone(cell) ==
  [code |-> IF cell.form = "international" THEN "84" ELSE "", of |-> cell.of]

\* phone_to_sbds[phone]; students without a phone are left out.
\* Mutant: each row is looked up in the table, whatever that holds by then.
SbdsNow(phone) ==
  {s \in Students : phones[s] # NoPhone /\ NormalizePhone(phones[s]) = phone}
SbdsOf(phone) ==
  {s \in Students : read[s] # NoPhone /\ NormalizePhone(read[s]) = phone}

IsSuccess(status) == status = "delivered"
HasSkipPrefix(status) == status = "skipped"

Init ==
  /\ phones = Directory
  /\ read = Directory
  /\ pc = "start"
  /\ sheet = <<>>
  /\ seen = {}
  /\ toInsert = <<>>
  /\ unmatched = {}
  /\ skipped = [noTracking |-> 0, prefix |-> 0, noPhone |-> 0]

\* BulkImportError: no import block, no such carrier or round, no phone column, no
\* file or one that cannot be read, a required column that no header names.
Unresolved ==
  /\ pc = "start"
  /\ pc' = "error"
  /\ UNCHANGED <<phones, read, loop>>

\* _build_phone_to_sbds, after the file was read.
Build ==
  /\ pc = "start"
  /\ read' = phones
  /\ pc' = "reading"
  /\ UNCHANGED <<phones, loop>>

\* A student's phone is corrected meanwhile (admin_update).
Correct ==
  /\ pc \in {"start", "reading"}
  /\ phones = Directory
  /\ \E c \in Corrections : phones' = [phones EXCEPT ![c[1]] = c[2]]
  /\ UNCHANGED <<read, pc, loop>>

Count(why) == skipped' = [skipped EXCEPT ![why] = @ + 1]
Skip == UNCHANGED <<seen, toInsert, unmatched>>

\* Mutant: a repetition has to have the same phone as well.
RepeatedWithPhone(row) ==
  \E i \in 1..Len(sheet) : sheet[i].code = row.code /\ sheet[i].phone = row.phone
Repeated(row) == row.code \in seen

SkipNoTracking(row) == row.code = NoCode /\ Count("noTracking") /\ Skip
SkipRepeated(row) ==
  row.code # NoCode /\ Repeated(row) /\ Skip /\ UNCHANGED skipped
SkipPrefix(row) ==
  /\ row.code # NoCode /\ ~Repeated(row)
  /\ HasSkipPrefix(row.status)
  /\ Count("prefix") /\ Skip
SkipNoPhone(row) ==
  /\ row.code # NoCode /\ ~Repeated(row) /\ ~HasSkipPrefix(row.status)
  /\ row.phone = NoPhone
  /\ Count("noPhone") /\ Skip

\* Mutant: a code is remembered only when a student was found for it.
RememberedIfMatched(row) ==
  IF SbdsOf(NormalizePhone(row.phone)) = {} THEN seen ELSE seen \cup {row.code}
Remembered(row) == seen \cup {row.code}

\* One row of shipment_history for every student with that phone.
Take(row) ==
  LET sbds == SbdsOf(NormalizePhone(row.phone))
      one(s) == [sbd |-> s, code |-> row.code, success |-> IsSuccess(row.status)]
  IN /\ row.code # NoCode /\ ~Repeated(row) /\ ~HasSkipPrefix(row.status)
     /\ row.phone # NoPhone
     /\ seen' = Remembered(row)
     /\ toInsert' = toInsert \o SetToSeq({one(s) : s \in sbds})
     /\ unmatched' = unmatched \cup (IF sbds = {} THEN {NormalizePhone(row.phone)} ELSE {})
     /\ UNCHANGED skipped

ReadRow ==
  /\ pc = "reading"
  /\ Len(sheet) < MaxRows
  /\ \E row \in SheetRow :
       /\ sheet' = Append(sheet, row)
       /\ \/ SkipNoTracking(row) \/ SkipRepeated(row) \/ SkipPrefix(row)
          \/ SkipNoPhone(row) \/ Take(row)
  /\ UNCHANGED <<phones, read, pc>>

\* The statistics; with commit=True, the transaction in ShipmentDraft.
Finish ==
  /\ pc = "reading"
  /\ pc' = "done"
  /\ UNCHANGED <<phones, read, loop>>

\* An exception or a kill: the locals are gone.
GiveUp ==
  /\ pc' = "error"
  /\ read' = Directory
  /\ sheet' = <<>> /\ seen' = {} /\ toInsert' = <<>> /\ unmatched' = {}
  /\ skipped' = [noTracking |-> 0, prefix |-> 0, noPhone |-> 0]
  /\ UNCHANGED phones

Next == Unresolved \/ Build \/ Correct \/ ReadRow \/ Finish

Spec == Init /\ [][Next]_vars
-----------------------------------------------------------------------------
\* The variables have their types.
TypeOK ==
  /\ {phones, read} \subseteq [Students -> PhoneCells]
  /\ pc \in {"start", "reading", "done", "error"}
  /\ sheet \in Seq(SheetRow)
  /\ seen \subseteq Codes
  /\ toInsert \in Seq([sbd: Students, code: Codes, success: BOOLEAN])
  /\ \A p \in unmatched : p.of \in Subscribers
  /\ skipped \in [{"noTracking", "prefix", "noPhone"} -> Nat]

\* The rows that may be imported: they have a code, a phone and no skip prefix.
Eligible(i) ==
  sheet[i].code # NoCode /\ sheet[i].status # "skipped" /\ sheet[i].phone # NoPhone
First(i) ==
  Eligible(i) /\ \A j \in 1..(i - 1) : Eligible(j) => sheet[j].code # sheet[i].code

\* Written with the country code, or not.
Abroad(cell) == cell.form = "international"

\* docs/features/shipment.md, "How matching works": the rows to insert are
\* those of the first eligible row of each code, one for each student whose
\* phone belonged to the same subscriber when the import read the table, whatever
\* is corrected after that, and however either of them is written,
\* except that one number with "+84" and one without never match
\* (_normalize_phone, although its docstring counts "+84" among the ways).
RowsMatchReference ==
  ToSet(toInsert) =
    {r \in [sbd: Students, code: Codes, success: BOOLEAN] :
       \E i \in 1..Len(sheet) :
         /\ First(i)
         /\ r.code = sheet[i].code
         /\ r.success = (sheet[i].status = "delivered")
         /\ read[r.sbd].of = sheet[i].phone.of
         /\ Abroad(read[r.sbd]) <=> Abroad(sheet[i].phone)}

\* No two rows to insert have the same primary key, so that INSERT OR REPLACE
\* drops none.
KeysDistinct ==
  IsInjective([i \in DOMAIN toInsert |-> <<toInsert[i].sbd, toInsert[i].code>>])

\* The statistics shown to the operator account for every row of the sheet:
\* "inserted", the length of the list, is the number of rows the import writes,
\* the three skip counters and the codes seen add up to the rows that were not
\* repetitions, and each code seen has a student or an unmatched phone.
StatsAddUp ==
  /\ KeysDistinct
  /\ Len(sheet) = skipped.noTracking + skipped.prefix + skipped.noPhone + Cardinality(seen)
       + Cardinality({i \in 1..Len(sheet) :
           \E j \in 1..(i - 1) : First(j) /\ sheet[j].code = sheet[i].code})
  /\ \A c \in seen :
       \/ \E i \in 1..Len(toInsert) : toInsert[i].code = c
       \/ \E i \in 1..Len(sheet) :
            First(i) /\ sheet[i].code = c /\ NormalizePhone(sheet[i].phone) \in unmatched
=============================================================================
