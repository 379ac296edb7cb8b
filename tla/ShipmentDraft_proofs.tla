------------------------ MODULE ShipmentDraft_proofs ------------------------
(***************************************************************************)
(* Theorems about ShipmentDraft, for every number of students, rounds,     *)
(* workers and codes and whatever the bounds.                              *)
(***************************************************************************)
EXTENDS ShipmentDraft, TLAPS

USE DEF Live, Active

Table == [Students -> [Gens -> Row]]

-----------------------------------------------------------------------------
(* What each write does to one row of the table. *)

\* A draft_add touches no row but the first free one of each new student.
LEMMA InsertedRows ==
  ASSUME NEW t \in Table, NEW count \in [Students -> 0..MaxDrafts],
         NEW new \in SUBSET Students
  PROVE  /\ Inserted(t, count, new) \in Table
         /\ \A s \in Students, n \in Gens :
              Inserted(t, count, new)[s][n] =
                IF s \in new /\ n = count[s] + 1 THEN NewDraft ELSE t[s][n]
<1>1. NewDraft \in Row /\ NewDraft = [status |-> "draft", batch |-> 0, code |-> NoCode]
  BY ShipmentAssumption DEF NewDraft, NoRow, Row
<1>2. QED BY <1>1 DEF Table, Inserted

\* A draft_cancel changes the status of some rows and nothing else.
LEMMA CancelledRows ==
  ASSUME NEW t \in Table, NEW ids \in SUBSET Ids
  PROVE  /\ Cancelled(t, ids) \in Table
         /\ \A s \in Students, n \in Gens :
              LET c == Cancelled(t, ids)[s][n]
              IN \/ c = t[s][n]
                 \/ /\ t[s][n].status # "absent"
                    /\ c.status = "cancelled"
                    /\ c.code = t[s][n].code
<1> DEFINE c(s, n) == IF <<s, n>> \in ids /\ t[s][n].status \in Active
                      THEN [t[s][n] EXCEPT !.status = "cancelled"]
                      ELSE t[s][n]
<1>1. \A s \in Students, n \in Gens : t[s][n] \in Row
  BY DEF Table
<1>2. \A s \in Students, n \in Gens :
        /\ c(s, n) \in Row
        /\ \/ c(s, n) = t[s][n]
           \/ /\ t[s][n].status # "absent"
              /\ c(s, n).status = "cancelled"
              /\ c(s, n).code = t[s][n].code
  BY <1>1 DEF Row
<1>3. Cancelled(t, ids) = [s \in Students |-> [n \in Gens |-> c(s, n)]]
  BY DEF Cancelled
<1> HIDE DEF c
<1>4. \A s \in Students, n \in Gens : Cancelled(t, ids)[s][n] = c(s, n)
  BY <1>3
<1>5. Cancelled(t, ids) \in Table
  <2>1. \A s \in Students, n \in Gens : c(s, n) \in Row
    BY <1>2
  <2>2. QED BY <1>3, <2>1 DEF Table
<1>6. QED BY <1>2, <1>4, <1>5

\* A draft_export locks the rows it read into its batch and changes no other.
LEMMA MarkedRows ==
  ASSUME NEW t \in Table, NEW ids \in SUBSET Ids, NEW b \in 0..MaxBatches
  PROVE  /\ Marked(t, ids, b) \in Table
         /\ \A s \in Students, n \in Gens :
              LET c == Marked(t, ids, b)[s][n]
              IN \/ c = t[s][n]
                 \/ /\ <<s, n>> \in ids
                    /\ t[s][n].status # "absent"
                    /\ c.status = "exported"
                    /\ c.batch = b
                    /\ c.code = t[s][n].code
<1> DEFINE c(s, n) == IF <<s, n>> \in ids /\ t[s][n].status \in Live
                      THEN [t[s][n] EXCEPT !.status = "exported", !.batch = b]
                      ELSE t[s][n]
<1>1. \A s \in Students, n \in Gens : t[s][n] \in Row
  BY DEF Table
<1>2. \A s \in Students, n \in Gens :
        /\ c(s, n) \in Row
        /\ \/ c(s, n) = t[s][n]
           \/ /\ <<s, n>> \in ids
              /\ t[s][n].status # "absent"
              /\ c(s, n).status = "exported"
              /\ c(s, n).batch = b
              /\ c(s, n).code = t[s][n].code
  BY <1>1 DEF Row
<1>3. Marked(t, ids, b) = [s \in Students |-> [n \in Gens |-> c(s, n)]]
  BY DEF Marked
<1> HIDE DEF c
<1>4. \A s \in Students, n \in Gens : Marked(t, ids, b)[s][n] = c(s, n)
  BY <1>3
<1>5. Marked(t, ids, b) \in Table
  <2>1. \A s \in Students, n \in Gens : c(s, n) \in Row
    BY <1>2
  <2>2. QED BY <1>3, <2>1 DEF Table
<1>6. QED BY <1>2, <1>4, <1>5

\* An import retires promoted rows and promotes exported ones, with a code of
\* its file and without touching their batch.
LEMMA PromotedRows ==
  ASSUME NEW t \in Table, NEW first \in [Students -> Codes \cup {NoCode}]
  PROVE  /\ Promoted(t, first) \in Table
         /\ \A s \in Students, n \in Gens :
              LET c == Promoted(t, first)[s][n]
              IN \/ /\ c = t[s][n]
                    /\ first[s] # NoCode /\ HasExported(t, s) =>
                         t[s][n].status \notin {"exported", "promoted"}
                 \/ /\ t[s][n].status = "promoted"
                    /\ c.status = "deleted"
                    /\ c.code = t[s][n].code
                 \/ /\ t[s][n].status = "exported"
                    /\ first[s] # NoCode
                    /\ c.status = "promoted"
                    /\ c.code = first[s]
                    /\ c.batch = t[s][n].batch
<1> DEFINE hit(s) == first[s] # NoCode /\ HasExported(t, s)
           c(s, n) == IF hit(s)
                      THEN CASE t[s][n].status = "promoted" ->
                                  [t[s][n] EXCEPT !.status = "deleted"]
                             [] t[s][n].status = "exported" ->
                                  [t[s][n] EXCEPT !.status = "promoted",
                                                  !.code = first[s]]
                             [] OTHER -> t[s][n]
                      ELSE t[s][n]
<1>1. \A s \in Students, n \in Gens : t[s][n] \in Row
  BY DEF Table
<1>2. \A s \in Students, n \in Gens :
        /\ c(s, n) \in Row
        /\ \/ /\ c(s, n) = t[s][n]
              /\ hit(s) => t[s][n].status \notin {"exported", "promoted"}
           \/ /\ t[s][n].status = "promoted"
              /\ c(s, n).status = "deleted"
              /\ c(s, n).code = t[s][n].code
           \/ /\ t[s][n].status = "exported"
              /\ first[s] # NoCode
              /\ c(s, n).status = "promoted"
              /\ c(s, n).code = first[s]
              /\ c(s, n).batch = t[s][n].batch
  <2> SUFFICES ASSUME NEW s \in Students, NEW n \in Gens
               PROVE  /\ c(s, n) \in Row
                      /\ \/ /\ c(s, n) = t[s][n]
                            /\ hit(s) => t[s][n].status \notin {"exported", "promoted"}
                         \/ /\ t[s][n].status = "promoted"
                            /\ c(s, n).status = "deleted"
                            /\ c(s, n).code = t[s][n].code
                         \/ /\ t[s][n].status = "exported"
                            /\ first[s] # NoCode
                            /\ c(s, n).status = "promoted"
                            /\ c(s, n).code = first[s]
                            /\ c(s, n).batch = t[s][n].batch
    OBVIOUS
  <2>1. t[s][n] \in Row
    BY <1>1
  <2>2. CASE ~hit(s)
    BY <2>1, <2>2
  <2>3. CASE hit(s) /\ t[s][n].status = "promoted"
    BY <2>1, <2>3 DEF Row
  <2>4. CASE hit(s) /\ t[s][n].status = "exported"
    BY <2>1, <2>4 DEF Row
  <2>5. CASE hit(s) /\ t[s][n].status \notin {"exported", "promoted"}
    BY <2>1, <2>5
  <2>6. QED BY <2>2, <2>3, <2>4, <2>5
<1>3. Promoted(t, first) = [s \in Students |-> [n \in Gens |-> c(s, n)]]
  BY DEF Promoted
<1> HIDE DEF c
<1>4. \A s \in Students, n \in Gens : Promoted(t, first)[s][n] = c(s, n)
  BY <1>3
<1>5. Promoted(t, first) \in Table
  <2>1. \A s \in Students, n \in Gens : c(s, n) \in Row
    BY <1>2
  <2>2. QED BY <1>3, <2>1 DEF Table
<1>6. QED BY <1>2, <1>4, <1>5

\* Row by row: retiring the promoted rows and promoting the exported one leaves
\* no two live rows with one status.
LEMMA PromotedApart ==
  ASSUME NEW D, NEW t, NEW p, NEW hit \in BOOLEAN, NEW m \in D, NEW n \in D,
         \A i \in D :
           \/ /\ p[i] = t[i]
              /\ hit => t[i].status \notin {"exported", "promoted"}
           \/ t[i].status = "promoted" /\ p[i].status = "deleted"
           \/ hit /\ t[i].status = "exported" /\ p[i].status = "promoted",
         t[m].status \in Live => t[m].status # t[n].status,
         t[n].status \in Live => t[n].status # t[m].status,
         p[m].status \in Live
  PROVE  p[m].status # p[n].status
OBVIOUS

\* Promotion keeps the UNIQUE constraint: it frees the "promoted" slot of a
\* student before it fills it.
LEMMA PromotedUnique ==
  ASSUME NEW t \in Table, Unique(t), NEW first \in [Students -> Codes \cup {NoCode}]
  PROVE  Unique(Promoted(t, first))
<1> SUFFICES ASSUME NEW s \in Students, NEW m \in Gens, NEW n \in Gens, m # n,
                    Promoted(t, first)[s][m].status \in Live
             PROVE  Promoted(t, first)[s][m].status # Promoted(t, first)[s][n].status
  BY DEF Unique
<1> DEFINE p == Promoted(t, first)[s]
           q == t[s]
           hit == first[s] # NoCode /\ \E i \in Gens : q[i].status = "exported"
<1>1. \A i \in Gens :
        \/ /\ p[i] = q[i]
           /\ hit => q[i].status \notin {"exported", "promoted"}
        \/ q[i].status = "promoted" /\ p[i].status = "deleted"
        \/ hit /\ q[i].status = "exported" /\ p[i].status = "promoted"
  BY PromotedRows DEF HasExported
<1>2. /\ q[m].status \in Live => q[m].status # q[n].status
      /\ q[n].status \in Live => q[n].status # q[m].status
  BY DEF Unique
<1>3. hit \in BOOLEAN /\ p[m].status \in Live
  OBVIOUS
<1> HIDE DEF p, q, hit, Live
<1>4. p[m].status # p[n].status
  BY <1>1, <1>2, <1>3, PromotedApart
<1>5. QED BY <1>4 DEF p

-----------------------------------------------------------------------------
(* The invariant. *)

\* What a handler's local variables remember is what it put into the shared
\* state: the batch of an export is one it took, with the drafts it SELECTed.
Locals ==
  \A w \in Workers :
    /\ pc[w] \in {"mark", "reply"} => job[w].batch # 0
    /\ job[w].batch # 0 => /\ job[w].batch < nextBatch
                           /\ contents[job[w].batch] = job[w].ids
    /\ pc[w] = "reply" => job[w].batch \in audit

IInv ==
  /\ TypeOK
  /\ Locals
  /\ ExportedIsInItsFile
  /\ PromotedHasHistory
  /\ ImportNeverConflicts
  /\ DeliveredIsAudited

\* The local variables the handlers set have their types.
LEMMA JobTypes ==
  /\ NoJob \in Job
  /\ NoJob.batch = 0
  /\ \A todo, fresh \in SUBSET Students : AddJob(todo, fresh) \in Job
  /\ \A ids \in SUBSET Ids, b \in 0..MaxBatches : ExportJob(ids, b) \in Job
BY ShipmentAssumption DEF NoJob, AddJob, ExportJob, Job

\* The invariant holds of the empty table and idle workers.
LEMMA InitInv == Init => IInv
<1> SUFFICES ASSUME Init PROVE IInv
  OBVIOUS
<1> USE ShipmentAssumption DEF Init
<1>1. NoRow \in Row /\ NoRow.status = "absent" /\ NoRow.code = NoCode
  BY DEF NoRow, Row
<1>2. rows \in Table /\ \A s \in Students, n \in Gens : rows[s][n] = NoRow
  BY <1>1 DEF Table
<1>3. Unique(rows)
  BY <1>1, <1>2 DEF Unique
<1>4. \A s \in Students, n \in Gens : rows[s][n].status = "absent" <=> n > made[s]
  BY <1>1, <1>2 DEF Gens
<1>5. pc \in [Workers -> PCs] /\ job \in [Workers -> Job]
  BY JobTypes DEF PCs
<1>6. nextBatch \in 1..(MaxBatches + 1) /\ made \in [Students -> 0..MaxDrafts]
  OBVIOUS
<1>7. TypeOK
  BY <1>2, <1>3, <1>4, <1>5, <1>6 DEF TypeOK, Table
<1>8. Locals /\ ImportNeverConflicts /\ DeliveredIsAudited
  BY JobTypes DEF Locals, ImportNeverConflicts, DeliveredIsAudited
<1>9. ExportedIsInItsFile /\ PromotedHasHistory
  BY <1>1, <1>2 DEF ExportedIsInItsFile, PromotedHasHistory
<1>10. QED BY <1>7, <1>8, <1>9 DEF IInv

\* Every step keeps the types, the UNIQUE constraint and the row count.
LEMMA TypeStep == TypeOK /\ Locals /\ [Next]_vars => TypeOK'
<1> SUFFICES ASSUME TypeOK, Locals, [Next]_vars PROVE TypeOK'
  OBVIOUS
<1> USE DEF tables, exports
<1>0. rows \in Table /\ job \in [Workers -> Job] /\ pc \in [Workers -> PCs]
  BY DEF TypeOK, Table
<1>a. NoJob \in Job
  BY JobTypes
<1>1. ASSUME NEW w \in Workers, AddBegin(w) PROVE TypeOK'
  <2>1. PICK r \in Rounds, filtered, blanks \in BOOLEAN :
          \E listed, hits \in SUBSET InRound(r) :
            SetJob(w, AddJob(Matched(r, filtered, listed, hits), {}))
    BY <1>1 DEF AddBegin
  <2>2. PICK listed, hits \in SUBSET InRound(r) :
          SetJob(w, AddJob(Matched(r, filtered, listed, hits), {}))
    BY <2>1
  <2>3. Matched(r, filtered, listed, hits) \in SUBSET Students
    BY DEF Matched, InRound
  <2>4. job' \in [Workers -> Job]
    BY <1>0, <2>2, <2>3, JobTypes DEF SetJob
  <2>5. QED BY <1>1, <2>4 DEF AddBegin, Goto, TypeOK, PCs, Unique
<1>2. ASSUME NEW w \in Workers, AddSkip(w) PROVE TypeOK'
  <2>1. job[w].todo \in SUBSET Students
    BY <1>0 DEF Job
  <2>2. job' \in [Workers -> Job]
    BY <1>0, <1>2, <2>1, JobTypes DEF AddSkip, SetJob
  <2>3. QED BY <1>2, <2>2 DEF AddSkip, TypeOK, Unique
<1>3. ASSUME NEW w \in Workers, AddFresh(w) PROVE TypeOK'
  <2>1. job[w].todo \in SUBSET Students
    BY <1>0 DEF Job
  <2>2. job' \in [Workers -> Job]
    BY <1>0, <1>3, <2>1, JobTypes DEF AddFresh, SetJob
  <2>3. QED BY <1>3, <2>2 DEF AddFresh, TypeOK, Unique, Goto, PCs
<1>4. ASSUME NEW w \in Workers, AddNothing(w) PROVE TypeOK'
  BY <1>4, <1>a DEF AddNothing, SetJob, TypeOK, Unique, Goto, PCs
<1>5. ASSUME NEW w \in Workers, AddInsert(w) PROVE TypeOK'
  <2> DEFINE new == job[w].fresh \cup {s \in job[w].todo : ~HasActive(rows, s)}
             t == Inserted(rows, made, new)
             up == [s \in Students |-> IF s \in new THEN made[s] + 1 ELSE made[s]]
  <2>1. new \in SUBSET Students
    BY <1>0 DEF Job
  <2>2. \A s \in new : made[s] < MaxDrafts
    BY <1>5 DEF AddInsert
  <2>3. /\ pc' \in [Workers -> PCs] /\ job' \in [Workers -> Job]
        /\ UNCHANGED <<history, audit, nextBatch, contents, delivered>>
    BY <1>0, <1>5, <1>a DEF AddInsert, SetJob, Goto, PCs
  <2>4. \/ Unique(t) /\ rows' = t /\ made' = up
        \/ UNCHANGED <<rows, made>>
    BY <1>5 DEF AddInsert
  <2> HIDE DEF new
  <2>5. /\ t \in Table
        /\ \A s \in Students, n \in Gens :
             t[s][n] = IF s \in new /\ n = made[s] + 1 THEN NewDraft ELSE rows[s][n]
    BY <1>0, <2>1, InsertedRows DEF TypeOK
  <2> HIDE DEF t
  <2>6. made \in [Students -> 0..MaxDrafts] /\ up \in [Students -> 0..MaxDrafts]
    BY <2>1, <2>2, ShipmentAssumption DEF TypeOK
  <2>7. \A s \in Students, n \in Gens : t[s][n].status = "absent" <=> n > up[s]
    <3> SUFFICES ASSUME NEW s \in Students, NEW n \in Gens
                 PROVE  t[s][n].status = "absent" <=> n > up[s]
      OBVIOUS
    <3>1. rows[s][n].status = "absent" <=> n > made[s]
      BY DEF TypeOK
    <3>2. made[s] \in Nat /\ n \in Nat
      BY <2>6 DEF Gens
    <3>3. QED BY <2>5, <3>1, <3>2 DEF NewDraft, NoRow
  <2>8. CASE UNCHANGED <<rows, made>>
    BY <2>3, <2>8 DEF TypeOK, Unique
  <2>9. CASE Unique(t) /\ rows' = t /\ made' = up
    <3>1. Unique(rows)'
      BY <2>9 DEF Unique
    <3>2. QED BY <2>3, <2>5, <2>6, <2>7, <2>9, <3>1 DEF TypeOK, Table
  <2>10. QED BY <2>4, <2>8, <2>9
<1>6. ASSUME NEW w \in Workers, Cancel(w) PROVE TypeOK'
  <2>1. PICK ids \in SUBSET Ids :
          \/ Unique(Cancelled(rows, ids)) /\ rows' = Cancelled(rows, ids)
          \/ UNCHANGED rows
    BY <1>6 DEF Cancel
  <2>2. /\ pc' \in [Workers -> PCs]
        /\ UNCHANGED <<made, history, audit, job, nextBatch, contents, delivered>>
    BY <1>0, <1>6 DEF Cancel, Goto, PCs
  <2>3. CASE UNCHANGED rows
    BY <2>2, <2>3 DEF TypeOK, Unique
  <2>4. CASE Unique(Cancelled(rows, ids)) /\ rows' = Cancelled(rows, ids)
    <3>1. Unique(rows)'
      BY <2>4 DEF Unique
    <3>2. /\ rows' \in Table
          /\ \A s \in Students, n \in Gens :
               \/ rows'[s][n] = rows[s][n]
               \/ rows[s][n].status # "absent" /\ rows'[s][n].status = "cancelled"
      BY <1>0, <2>4, CancelledRows
    <3>3. \A s \in Students, n \in Gens : rows'[s][n].status = "absent" <=> n > made[s]
      BY <3>2 DEF TypeOK
    <3>4. QED BY <2>2, <3>1, <3>2, <3>3 DEF TypeOK, Table
  <2>5. QED BY <2>1, <2>3, <2>4
<1>7. ASSUME NEW w \in Workers, ExportSelect(w) PROVE TypeOK'
  <2>1. PICK r \in Rounds :
          /\ SetJob(w, ExportJob(DraftsOf(rows, r), nextBatch))
          /\ contents' = [contents EXCEPT ![nextBatch] = DraftsOf(rows, r)]
    BY <1>7 DEF ExportSelect
  <2>2. DraftsOf(rows, r) \in SUBSET Ids
    BY DEF DraftsOf, InRound, Ids
  <2>3. nextBatch \in 1..MaxBatches /\ nextBatch' \in 1..(MaxBatches + 1)
    BY <1>7, ShipmentAssumption DEF ExportSelect, TypeOK
  <2>4. job' \in [Workers -> Job]
    BY <1>0, <2>1, <2>2, <2>3, JobTypes, ShipmentAssumption DEF SetJob
  <2>5. contents' \in [Batches -> SUBSET Ids]
    BY <2>1, <2>2 DEF TypeOK
  <2>6. QED BY <1>7, <2>3, <2>4, <2>5 DEF ExportSelect, TypeOK, Unique, Goto, PCs
<1>8. ASSUME NEW w \in Workers, ExportMark(w) PROVE TypeOK'
  <2> DEFINE t == Marked(rows, job[w].ids, job[w].batch)
  <2>1. job[w].ids \in SUBSET Ids /\ job[w].batch \in 0..MaxBatches
    BY <1>0 DEF Job
  <2>2. /\ pc' \in [Workers -> PCs]
        /\ UNCHANGED <<made, history, audit, job, nextBatch, contents, delivered>>
    BY <1>0, <1>8 DEF ExportMark, Goto, PCs
  <2>3. CASE UNCHANGED rows
    BY <2>2, <2>3 DEF TypeOK, Unique
  <2>4. CASE Unique(t) /\ rows' = t
    <3>1. Unique(rows)'
      BY <2>4 DEF Unique
    <3>2. /\ rows' \in Table
          /\ \A s \in Students, n \in Gens :
               \/ rows'[s][n] = rows[s][n]
               \/ rows[s][n].status # "absent" /\ rows'[s][n].status = "exported"
      <4> HIDE DEF t
      <4>1. t \in Table
        BY <1>0, <2>1, MarkedRows DEF t
      <4>2. ASSUME NEW s \in Students, NEW n \in Gens
            PROVE  \/ t[s][n] = rows[s][n]
                   \/ rows[s][n].status # "absent" /\ t[s][n].status = "exported"
        <5>1. rows[s][n] \in Row
          BY <1>0 DEF Table
        <5>2. QED BY <5>1 DEF t, Marked, Row
      <4>3. QED BY <2>4, <4>1, <4>2
    <3>3. \A s \in Students, n \in Gens : rows'[s][n].status = "absent" <=> n > made[s]
      BY <3>2 DEF TypeOK
    <3>4. QED BY <2>2, <3>1, <3>2, <3>3 DEF TypeOK, Table
  <2>5. QED BY <1>8, <2>3, <2>4 DEF ExportMark
<1>9. ASSUME NEW w \in Workers, ImportCommit(w) PROVE TypeOK'
  <2>a. PICK r \in Rounds :
          \E codes \in CarrierFiles(r) : \E first \in FirstCodes(codes) :
            \/ /\ Unique(Promoted(rows, first))
               /\ rows' = Promoted(rows, first)
               /\ history' = history \cup Recorded(codes)
            \/ UNCHANGED <<rows, history>>
    BY <1>9 DEF ImportCommit
  <2>b. PICK codes \in CarrierFiles(r) : \E first \in FirstCodes(codes) :
          \/ /\ Unique(Promoted(rows, first))
             /\ rows' = Promoted(rows, first)
             /\ history' = history \cup Recorded(codes)
          \/ UNCHANGED <<rows, history>>
    BY <2>a
  <2>1. PICK first \in FirstCodes(codes) :
          \/ /\ Unique(Promoted(rows, first))
             /\ rows' = Promoted(rows, first)
             /\ history' = history \cup Recorded(codes)
          \/ UNCHANGED <<rows, history>>
    BY <2>b
  <2>2. /\ pc' \in [Workers -> PCs]
        /\ UNCHANGED <<made, audit, job, nextBatch, contents, delivered>>
    BY <1>0, <1>9 DEF ImportCommit, Goto, PCs
  <2>3. CASE UNCHANGED <<rows, history>>
    BY <2>2, <2>3 DEF TypeOK, Unique
  <2>4. CASE /\ Unique(Promoted(rows, first))
             /\ rows' = Promoted(rows, first)
             /\ history' = history \cup Recorded(codes)
    <3>1. Unique(rows)'
      BY <2>4 DEF Unique
    <3>2. first \in [Students -> Codes \cup {NoCode}]
      BY DEF FirstCodes
    <3>3. /\ rows' \in Table
          /\ \A s \in Students, n \in Gens :
               \/ rows'[s][n] = rows[s][n]
               \/ /\ rows[s][n].status # "absent"
                  /\ rows'[s][n].status # "absent"
      BY <1>0, <2>4, <3>2, PromotedRows
    <3>4. \A s \in Students, n \in Gens : rows'[s][n].status = "absent" <=> n > made[s]
      BY <3>3 DEF TypeOK
    <3>5. history' \subseteq Students \X Codes
      <4>1. codes \in [Students -> SUBSET Codes]
        BY DEF CarrierFiles
      <4>2. Recorded(codes) \subseteq Students \X Codes
        BY <4>1 DEF Recorded
      <4>3. QED BY <2>4, <4>2 DEF TypeOK
    <3>6. QED BY <2>2, <3>1, <3>3, <3>4, <3>5 DEF TypeOK, Table
  <2>5. QED BY <2>1, <2>3, <2>4
<1>10. ASSUME NEW w \in Workers, ImportDryRun(w) PROVE TypeOK'
  BY <1>10 DEF ImportDryRun, TypeOK, Unique, Goto, PCs
<1>11. ASSUME NEW w \in Workers, Log(w) PROVE TypeOK'
  <2>1. job[w].batch # 0 => job[w].batch \in Batches
    BY <1>0, ShipmentAssumption DEF Job, Batches
  <2>2. QED BY <1>11, <2>1 DEF Log, TypeOK, Unique, Goto, PCs
<1>12. ASSUME NEW w \in Workers, Reply(w) PROVE TypeOK'
  <2>1. job[w].batch \in Batches
    BY <1>0, <1>12, ShipmentAssumption DEF Job, Reply, Locals, Batches
  <2>2. QED BY <1>12, <1>a, <2>1 DEF Reply, SetJob, TypeOK, Unique, Goto, PCs
<1>13. ASSUME NEW w \in Workers, Abandon(w) PROVE TypeOK'
  BY <1>13, <1>a DEF Abandon, SetJob, TypeOK, Unique, Goto, PCs
<1>14. CASE UNCHANGED vars
  BY <1>14 DEF vars, TypeOK, Unique
<1>15. QED
  BY <1>1, <1>2, <1>3, <1>4, <1>5, <1>6, <1>7, <1>8, <1>9, <1>10, <1>11, <1>12,
     <1>13, <1>14 DEF Next, Step

\* A worker's step leaves the local state of the others alone, and what it
\* remembers of its own export stays true: batches are never taken twice.
LEMMA LocalsStep == TypeOK /\ Locals /\ [Next]_vars => Locals'
<1> SUFFICES ASSUME TypeOK, Locals, [Next]_vars PROVE Locals'
  OBVIOUS
<1> USE DEF tables, exports
<1>0. job \in [Workers -> Job] /\ pc \in [Workers -> PCs] /\ NoJob.batch = 0
  BY JobTypes DEF TypeOK
<1>a. \A todo, fresh : AddJob(todo, fresh).batch = 0
  BY DEF AddJob
<1>1. ASSUME NEW w \in Workers,
             \/ AddBegin(w) \/ AddSkip(w) \/ AddFresh(w) \/ AddNothing(w) \/ AddInsert(w)
      PROVE  Locals'
  <2>1. /\ pc' = [pc EXCEPT ![w] = pc'[w]] /\ pc'[w] \notin {"mark", "reply"}
        /\ \E j : j.batch = 0 /\ job' = [job EXCEPT ![w] = j]
        /\ UNCHANGED <<nextBatch, contents, audit>>
    <3>1. CASE AddBegin(w)
      BY <1>0, <1>a, <3>1 DEF AddBegin, SetJob, Goto
    <3>2. CASE AddSkip(w)
      BY <1>0, <1>a, <3>2 DEF AddSkip, SetJob
    <3>3. CASE AddFresh(w)
      BY <1>0, <1>a, <3>3 DEF AddFresh, SetJob, Goto
    <3>4. CASE AddNothing(w)
      BY <1>0, <3>4 DEF AddNothing, SetJob, Goto
    <3>5. CASE AddInsert(w)
      BY <1>0, <3>5 DEF AddInsert, SetJob, Goto
    <3>6. QED BY <1>1, <3>1, <3>2, <3>3, <3>4, <3>5
  <2>2. PICK j : j.batch = 0 /\ job' = [job EXCEPT ![w] = j]
    BY <2>1
  <2>3. QED BY <1>0, <2>1, <2>2 DEF Locals
<1>2. ASSUME NEW w \in Workers, Cancel(w) \/ ImportCommit(w) \/ ImportDryRun(w)
      PROVE  Locals'
  <2>1. /\ pc' = [pc EXCEPT ![w] = pc'[w]] /\ pc'[w] \notin {"mark", "reply"}
        /\ UNCHANGED <<job, nextBatch, contents, audit>>
    <3>1. CASE Cancel(w)
      BY <1>0, <3>1 DEF Cancel, Goto
    <3>2. CASE ImportCommit(w)
      BY <1>0, <3>2 DEF ImportCommit, Goto
    <3>3. CASE ImportDryRun(w)
      BY <1>0, <3>3 DEF ImportDryRun, Goto
    <3>4. QED BY <1>2, <3>1, <3>2, <3>3
  <2>2. QED BY <1>0, <2>1 DEF Locals
<1>3. ASSUME NEW w \in Workers, ExportSelect(w) PROVE Locals'
  <2>1. PICK r \in Rounds :
          /\ job' = [job EXCEPT ![w] = ExportJob(DraftsOf(rows, r), nextBatch)]
          /\ contents' = [contents EXCEPT ![nextBatch] = DraftsOf(rows, r)]
    BY <1>3 DEF ExportSelect, SetJob
  <2>2. /\ nextBatch \in Batches /\ nextBatch # 0 /\ nextBatch \in Nat
        /\ nextBatch' = nextBatch + 1
        /\ contents \in [Batches -> SUBSET Ids]
    BY <1>3, ShipmentAssumption DEF ExportSelect, TypeOK, Batches
  <2>3. /\ pc' = [pc EXCEPT ![w] = "mark"]
        /\ UNCHANGED audit
    BY <1>3 DEF ExportSelect, Goto
  <2>4. /\ ExportJob(DraftsOf(rows, r), nextBatch).batch = nextBatch
        /\ ExportJob(DraftsOf(rows, r), nextBatch).ids = DraftsOf(rows, r)
    BY DEF ExportJob
  <2> SUFFICES ASSUME NEW v \in Workers
               PROVE  /\ pc'[v] \in {"mark", "reply"} => job'[v].batch # 0
                      /\ job'[v].batch # 0 =>
                           /\ job'[v].batch < nextBatch'
                           /\ contents'[job'[v].batch] = job'[v].ids
                      /\ pc'[v] = "reply" => job'[v].batch \in audit'
    BY DEF Locals
  <2>5. CASE v = w
    BY <1>0, <2>1, <2>2, <2>3, <2>4, <2>5
  <2>6. CASE v # w
    <3>1. job'[v] = job[v] /\ pc'[v] = pc[v]
      BY <1>0, <2>1, <2>3, <2>6
    <3>2. job[v].batch \in Nat /\ (job[v].batch # 0 => job[v].batch \in Batches)
      BY <1>0, ShipmentAssumption DEF Job, Batches
    <3>3. job[v].batch # 0 => contents'[job[v].batch] = contents[job[v].batch]
      BY <2>1, <2>2, <3>2 DEF Locals
    <3>4. QED BY <2>2, <2>3, <3>1, <3>2, <3>3 DEF Locals
  <2>7. QED BY <2>5, <2>6
<1>4. ASSUME NEW w \in Workers, ExportMark(w) PROVE Locals'
  BY <1>0, <1>4 DEF ExportMark, Goto, Locals
<1>5. ASSUME NEW w \in Workers, Log(w) PROVE Locals'
  BY <1>0, <1>5 DEF Log, Goto, Locals
<1>6. ASSUME NEW w \in Workers, Reply(w) \/ Abandon(w) PROVE Locals'
  <2>1. /\ pc' = [pc EXCEPT ![w] = "idle"] /\ job' = [job EXCEPT ![w] = NoJob]
        /\ UNCHANGED <<nextBatch, contents, audit>>
    BY <1>6 DEF Reply, Abandon, Goto, SetJob
  <2>2. QED BY <1>0, <2>1 DEF Locals
<1>7. CASE UNCHANGED vars
  BY <1>7 DEF vars, Locals
<1>8. QED
  BY <1>1, <1>2, <1>3, <1>4, <1>5, <1>6, <1>7 DEF Next, Step

-----------------------------------------------------------------------------
(* The safety properties. *)

\* A locked draft stays inside the file of its batch: only ExportMark stamps a
\* batch, and only on drafts its own SELECT returned.
LEMMA FileStep ==
  TypeOK /\ Locals /\ ExportedIsInItsFile /\ [Next]_vars => ExportedIsInItsFile'
<1> SUFFICES ASSUME TypeOK, Locals, ExportedIsInItsFile, [Next]_vars
             PROVE  ExportedIsInItsFile'
  OBVIOUS
<1> USE DEF tables, exports
<1>0. rows \in Table /\ job \in [Workers -> Job] /\ nextBatch \in Nat
  BY ShipmentAssumption DEF TypeOK, Table
<1>1. ASSUME UNCHANGED <<nextBatch, contents>>,
             \A s \in Students, n \in Gens :
               rows'[s][n].status \in {"exported", "promoted"} =>
                 /\ rows[s][n].status \in {"exported", "promoted"}
                 /\ rows'[s][n].batch = rows[s][n].batch
      PROVE  ExportedIsInItsFile'
  BY <1>1 DEF ExportedIsInItsFile
<1>2. ASSUME NEW w \in Workers, AddInsert(w) PROVE ExportedIsInItsFile'
  <2> DEFINE new == job[w].fresh \cup {s \in job[w].todo : ~HasActive(rows, s)}
  <2>1. new \in SUBSET Students
    BY <1>0 DEF Job
  <2>2. UNCHANGED rows \/ rows' = Inserted(rows, made, new)
    BY <1>2 DEF AddInsert
  <2> HIDE DEF new
  <2>3. \A s \in Students, n \in Gens :
          rows'[s][n] = rows[s][n] \/ rows'[s][n].status = "draft"
    <3>1. NewDraft.status = "draft" /\ NewDraft.code = NoCode
      BY DEF NewDraft, NoRow
    <3>2. \A s \in Students, n \in Gens :
            Inserted(rows, made, new)[s][n] \in {rows[s][n], NewDraft}
      BY <1>0, <2>1, InsertedRows DEF TypeOK
    <3>3. QED BY <2>2, <3>1, <3>2
  <2>4. QED BY <1>1, <1>2, <2>3 DEF AddInsert
<1>3. ASSUME NEW w \in Workers, Cancel(w) PROVE ExportedIsInItsFile'
  <2>1. PICK ids \in SUBSET Ids : UNCHANGED rows \/ rows' = Cancelled(rows, ids)
    BY <1>3 DEF Cancel
  <2>2. \A s \in Students, n \in Gens :
          rows'[s][n] = rows[s][n] \/ rows'[s][n].status = "cancelled"
    BY <1>0, <2>1, CancelledRows
  <2>3. QED BY <1>1, <1>3, <2>2 DEF Cancel
<1>4. ASSUME NEW w \in Workers, ExportSelect(w) PROVE ExportedIsInItsFile'
  <2>1. \E ids : contents' = [contents EXCEPT ![nextBatch] = ids]
    BY <1>4 DEF ExportSelect
  <2>2. UNCHANGED rows /\ nextBatch' = nextBatch + 1
    BY <1>4 DEF ExportSelect
  <2>3. QED BY <1>0, <2>1, <2>2 DEF ExportedIsInItsFile, TypeOK
<1>5. ASSUME NEW w \in Workers, ExportMark(w) PROVE ExportedIsInItsFile'
  <2> DEFINE b == job[w].batch
             t == Marked(rows, job[w].ids, b)
  <2>1. b \in 1..(nextBatch - 1) /\ contents[b] = job[w].ids
    BY <1>0, <1>5, ShipmentAssumption DEF ExportMark, Locals, Job
  <2>2. UNCHANGED <<nextBatch, contents>> /\ (UNCHANGED rows \/ rows' = t)
    BY <1>5 DEF ExportMark
  <2>3. CASE UNCHANGED rows
    BY <1>1, <2>2, <2>3
  <2>4. CASE rows' = t
    <3> SUFFICES ASSUME NEW s \in Students, NEW n \in Gens,
                        t[s][n].status \in {"exported", "promoted"}
                 PROVE  /\ t[s][n].batch \in 1..(nextBatch - 1)
                        /\ <<s, n>> \in contents[t[s][n].batch]
      BY <2>2, <2>4 DEF ExportedIsInItsFile
    <3>1. rows[s][n] \in Row
      BY <1>0 DEF Table
    <3>2. t[s][n] = IF <<s, n>> \in job[w].ids /\ rows[s][n].status \in Live
                    THEN [rows[s][n] EXCEPT !.status = "exported", !.batch = b]
                    ELSE rows[s][n]
      BY DEF Marked
    <3>3. CASE <<s, n>> \in job[w].ids /\ rows[s][n].status \in Live
      <4>1. t[s][n].batch = b
        BY <3>1, <3>2, <3>3 DEF Row
      <4>2. QED BY <2>1, <3>3, <4>1
    <3>4. CASE ~(<<s, n>> \in job[w].ids /\ rows[s][n].status \in Live)
      BY <3>2, <3>4 DEF ExportedIsInItsFile
    <3>5. QED BY <3>3, <3>4
  <2>5. QED BY <2>2, <2>3, <2>4
<1>6. ASSUME NEW w \in Workers, ImportCommit(w) PROVE ExportedIsInItsFile'
  <2>1. PICK first \in [Students -> Codes \cup {NoCode}] :
          UNCHANGED rows \/ rows' = Promoted(rows, first)
    BY <1>6 DEF ImportCommit, FirstCodes
  <2>2. \A s \in Students, n \in Gens :
          \/ rows'[s][n] = rows[s][n]
          \/ rows'[s][n].status = "deleted"
          \/ rows[s][n].status = "exported" /\ rows'[s][n].batch = rows[s][n].batch
    BY <1>0, <2>1, PromotedRows
  <2>3. QED BY <1>1, <1>6, <2>2 DEF ImportCommit
<1>7. ASSUME NEW w \in Workers,
             \/ AddBegin(w) \/ AddSkip(w) \/ AddFresh(w) \/ AddNothing(w)
             \/ ImportDryRun(w) \/ Log(w) \/ Reply(w) \/ Abandon(w)
      PROVE  ExportedIsInItsFile'
  BY <1>1, <1>7
     DEF AddBegin, AddSkip, AddFresh, AddNothing, ImportDryRun, Log, Reply, Abandon
<1>8. CASE UNCHANGED vars
  BY <1>1, <1>8 DEF vars
<1>9. QED
  BY <1>2, <1>3, <1>4, <1>5, <1>6, <1>7, <1>8 DEF Next, Step

\* Only an import writes tracking codes, and it records them in the history in
\* the same transaction; nothing ever removes a history row.
LEMMA HistoryStep ==
  TypeOK /\ PromotedHasHistory /\ [Next]_vars => PromotedHasHistory'
<1> SUFFICES ASSUME TypeOK, PromotedHasHistory, [Next]_vars PROVE PromotedHasHistory'
  OBVIOUS
<1> USE DEF tables, exports
<1>0. rows \in Table /\ job \in [Workers -> Job]
  BY DEF TypeOK, Table
<1>1. ASSUME history \subseteq history',
             \A s \in Students, n \in Gens :
               \/ rows'[s][n].code = NoCode /\ rows'[s][n].status # "promoted"
               \/ /\ rows'[s][n].code = rows[s][n].code
                  /\ rows'[s][n].status = "promoted" => rows[s][n].status = "promoted"
               \/ /\ rows'[s][n].code # NoCode
                  /\ <<s, rows'[s][n].code>> \in history'
      PROVE  PromotedHasHistory'
  BY <1>1 DEF PromotedHasHistory
<1>2. ASSUME NEW w \in Workers, AddInsert(w) PROVE PromotedHasHistory'
  <2> DEFINE new == job[w].fresh \cup {s \in job[w].todo : ~HasActive(rows, s)}
  <2>1. new \in SUBSET Students
    BY <1>0 DEF Job
  <2>2. UNCHANGED rows \/ rows' = Inserted(rows, made, new)
    BY <1>2 DEF AddInsert
  <2> HIDE DEF new
  <2>3. \A s \in Students, n \in Gens :
          \/ rows'[s][n] = rows[s][n]
          \/ rows'[s][n].status = "draft" /\ rows'[s][n].code = NoCode
    <3>1. NewDraft.status = "draft" /\ NewDraft.code = NoCode
      BY DEF NewDraft, NoRow
    <3>2. \A s \in Students, n \in Gens :
            Inserted(rows, made, new)[s][n] \in {rows[s][n], NewDraft}
      BY <1>0, <2>1, InsertedRows DEF TypeOK
    <3>3. QED BY <2>2, <3>1, <3>2
  <2>4. QED BY <1>1, <1>2, <2>3 DEF AddInsert
<1>3. ASSUME NEW w \in Workers, Cancel(w) PROVE PromotedHasHistory'
  <2>1. PICK ids \in SUBSET Ids : UNCHANGED rows \/ rows' = Cancelled(rows, ids)
    BY <1>3 DEF Cancel
  <2>2. \A s \in Students, n \in Gens :
          \/ rows'[s][n] = rows[s][n]
          \/ rows'[s][n].status = "cancelled" /\ rows'[s][n].code = rows[s][n].code
    BY <1>0, <2>1, CancelledRows
  <2>3. QED BY <1>1, <1>3, <2>2 DEF Cancel
<1>4. ASSUME NEW w \in Workers, ExportMark(w) PROVE PromotedHasHistory'
  <2> DEFINE t == Marked(rows, job[w].ids, job[w].batch)
  <2>1. ASSUME NEW s \in Students, NEW n \in Gens
        PROVE  \/ t[s][n] = rows[s][n]
               \/ t[s][n].status = "exported" /\ t[s][n].code = rows[s][n].code
    <3>1. rows[s][n] \in Row
      BY <1>0 DEF Table
    <3>2. QED BY <3>1 DEF Marked, Row
  <2>2. UNCHANGED history /\ (UNCHANGED rows \/ rows' = t)
    BY <1>4 DEF ExportMark
  <2> HIDE DEF t
  <2>3. QED BY <1>1, <2>1, <2>2
<1>5. ASSUME NEW w \in Workers, ImportCommit(w) PROVE PromotedHasHistory'
  <2>1. PICK r \in Rounds : \E codes \in CarrierFiles(r) : \E first \in FirstCodes(codes) :
          \/ rows' = Promoted(rows, first) /\ history' = history \cup Recorded(codes)
          \/ UNCHANGED <<rows, history>>
    BY <1>5 DEF ImportCommit
  <2>2. PICK codes \in CarrierFiles(r) : \E first \in FirstCodes(codes) :
          \/ rows' = Promoted(rows, first) /\ history' = history \cup Recorded(codes)
          \/ UNCHANGED <<rows, history>>
    BY <2>1
  <2>3. PICK first \in FirstCodes(codes) :
          \/ rows' = Promoted(rows, first) /\ history' = history \cup Recorded(codes)
          \/ UNCHANGED <<rows, history>>
    BY <2>2
  <2>4. CASE UNCHANGED <<rows, history>>
    BY <1>1, <2>4
  <2>5. CASE rows' = Promoted(rows, first) /\ history' = history \cup Recorded(codes)
    <3>1. first \in [Students -> Codes \cup {NoCode}]
      BY DEF FirstCodes
    <3>2. \A s \in Students : first[s] # NoCode => <<s, first[s]>> \in Recorded(codes)
      BY DEF FirstCodes, Recorded
    <3>3. \A s \in Students, n \in Gens :
            \/ rows'[s][n] = rows[s][n]
            \/ rows'[s][n].status = "deleted" /\ rows'[s][n].code = rows[s][n].code
            \/ rows'[s][n].code = first[s] /\ first[s] # NoCode
      BY <1>0, <2>5, <3>1, PromotedRows
    <3>4. QED BY <1>1, <2>5, <3>2, <3>3
  <2>6. QED BY <2>3, <2>4, <2>5
<1>6. ASSUME NEW w \in Workers,
             \/ AddBegin(w) \/ AddSkip(w) \/ AddFresh(w) \/ AddNothing(w)
             \/ ExportSelect(w) \/ ImportDryRun(w) \/ Log(w) \/ Reply(w) \/ Abandon(w)
      PROVE  PromotedHasHistory'
  BY <1>1, <1>6 DEF AddBegin, AddSkip, AddFresh, AddNothing, ExportSelect, ImportDryRun,
                    Log, Reply, Abandon
<1>7. CASE UNCHANGED vars
  BY <1>1, <1>7 DEF vars
<1>8. QED
  BY <1>2, <1>3, <1>4, <1>5, <1>6, <1>7 DEF Next, Step

\* The UNIQUE constraint holds before an import, so it holds after it as well
\* and the import's transaction is never refused.
LEMMA ImportStep ==
  TypeOK /\ ImportNeverConflicts /\ [Next]_vars => ImportNeverConflicts'
<1> SUFFICES ASSUME TypeOK, ImportNeverConflicts, [Next]_vars PROVE ImportNeverConflicts'
  OBVIOUS
<1>0. pc \in [Workers -> PCs]
  BY DEF TypeOK
<1>1. ASSUME NEW w \in Workers, ImportCommit(w) PROVE pc'[w] # "import_conflict"
  <2>1. PICK r \in Rounds : \E codes \in CarrierFiles(r) : \E first \in FirstCodes(codes) :
          IF Unique(Promoted(rows, first)) THEN Goto(w, "log") ELSE TRUE
    BY <1>1 DEF ImportCommit
  <2>2. \A first \in [Students -> Codes \cup {NoCode}] : Unique(Promoted(rows, first))
    BY PromotedUnique DEF TypeOK, Table
  <2>3. \A codes : FirstCodes(codes) \subseteq [Students -> Codes \cup {NoCode}]
    BY DEF FirstCodes
  <2>4. QED BY <1>0, <2>1, <2>2, <2>3 DEF Goto
<1>2. ASSUME NEW w \in Workers, Step(w)
      PROVE  \A v \in Workers : v # w => pc'[v] = pc[v]
  BY <1>0, <1>2
     DEF Step, AddBegin, AddSkip, AddFresh, AddNothing, AddInsert, Cancel, ExportSelect,
         ExportMark, ImportCommit, ImportDryRun, Log, Reply, Abandon, Goto
<1>3. ASSUME NEW w \in Workers, Step(w), ~ImportCommit(w)
      PROVE  pc'[w] # "import_conflict"
  BY <1>0, <1>3
     DEF Step, AddBegin, AddSkip, AddFresh, AddNothing, AddInsert, Cancel, ExportSelect,
         ExportMark, ImportDryRun, Log, Reply, Abandon, Goto, ImportNeverConflicts
<1>4. CASE UNCHANGED vars
  BY <1>4 DEF vars, ImportNeverConflicts
<1>5. QED BY <1>1, <1>2, <1>3, <1>4 DEF Next, ImportNeverConflicts

\* A file leaves the server only from "reply", which follows its audit row.
LEMMA DeliveredStep ==
  Locals /\ DeliveredIsAudited /\ [Next]_vars => DeliveredIsAudited'
BY DEF Locals, DeliveredIsAudited, Next, Step, tables, exports, vars,
       AddBegin, AddSkip, AddFresh, AddNothing, AddInsert, Cancel, ExportSelect,
       ExportMark, ImportCommit, ImportDryRun, Log, Reply, Abandon

\* The invariant is inductive, so it holds in every reachable state.
LEMMA Invariant == Spec => []IInv
<1>1. IInv /\ [Next]_vars => IInv'
  BY TypeStep, LocalsStep, FileStep, HistoryStep, ImportStep, DeliveredStep DEF IInv
<1>2. QED BY InitInv, <1>1, PTL DEF Spec

\* Types, the UNIQUE constraint of the table and its row count (sqlite schema of
\* shipment/draft.py), for any number of workers.
THEOREM TypeCorrect == Spec => []TypeOK
<1>1. IInv => TypeOK
  BY DEF IInv
<1>2. QED BY Invariant, <1>1, PTL

\* Whatever the workers do in between, an exported or promoted draft is in the
\* file of the batch it is stamped with (draft_export).
THEOREM ExportsComplete == Spec => []ExportedIsInItsFile
<1>1. IInv => ExportedIsInItsFile
  BY DEF IInv
<1>2. QED BY Invariant, <1>1, PTL

\* A promoted draft's tracking code is in shipment_history (bulk_import).
THEOREM PromotionsRecorded == Spec => []PromotedHasHistory
<1>1. IInv => PromotedHasHistory
  BY DEF IInv
<1>2. QED BY Invariant, <1>1, PTL

\* An import is never rolled back by the UNIQUE constraint (bulk_import).
THEOREM ImportsCommit == Spec => []ImportNeverConflicts
<1>1. IInv => ImportNeverConflicts
  BY DEF IInv
<1>2. QED BY Invariant, <1>1, PTL

\* No export file is handed out without its audit row (draft_export).
THEOREM DeliveriesAudited == Spec => []DeliveredIsAudited
<1>1. IInv => DeliveredIsAudited
  BY DEF IInv
<1>2. QED BY Invariant, <1>1, PTL

-----------------------------------------------------------------------------
(* What the writes leave alone, whatever overlaps. *)

\* The rows a draft_cancel writes: it changes the status of active drafts.
LEMMA CancelWrites ==
  ASSUME TypeOK, NEW w \in Workers, Cancel(w)
  PROVE  \A s \in Students, n \in Gens :
           \/ rows'[s][n] = rows[s][n]
           \/ /\ rows[s][n].status \in Active
              /\ rows'[s][n].status = "cancelled"
              /\ rows'[s][n].batch = rows[s][n].batch
<1>1. PICK ids \in SUBSET Ids : UNCHANGED rows \/ rows' = Cancelled(rows, ids)
  BY DEF Cancel
<1>2. ASSUME NEW s \in Students, NEW n \in Gens
      PROVE  \/ Cancelled(rows, ids)[s][n] = rows[s][n]
             \/ /\ rows[s][n].status \in Active
                /\ Cancelled(rows, ids)[s][n].status = "cancelled"
                /\ Cancelled(rows, ids)[s][n].batch = rows[s][n].batch
  <2>1. rows[s][n] \in Row
    BY DEF TypeOK
  <2>2. QED BY <2>1 DEF Cancelled, Row
<1>3. QED BY <1>1, <1>2

\* The rows an import writes: it frees the slot of some students whose draft is
\* exported, and only of those.
LEMMA ImportWrites ==
  ASSUME TypeOK, NEW w \in Workers, ImportCommit(w)
  PROVE  \E S \in SUBSET {s \in Students : HasExported(rows, s)} :
           \A s \in Students, n \in Gens :
             CASE s \in S /\ rows[s][n].status = "exported" ->
                    /\ rows'[s][n].status = "promoted"
                    /\ rows'[s][n].batch = rows[s][n].batch
               [] s \in S /\ rows[s][n].status = "promoted" ->
                    /\ rows'[s][n].status = "deleted"
                    /\ rows'[s][n].batch = rows[s][n].batch
               [] OTHER -> rows'[s][n] = rows[s][n]
<1>1. PICK first : UNCHANGED rows \/ rows' = Promoted(rows, first)
  BY DEF ImportCommit
<1>2. CASE UNCHANGED rows
  <2>1. WITNESS {} \in SUBSET {s \in Students : HasExported(rows, s)}
  <2>2. QED BY <1>2
<1>3. CASE rows' = Promoted(rows, first)
  <2> DEFINE S == {s \in Students : first[s] # NoCode /\ HasExported(rows, s)}
  <2>1. WITNESS S \in SUBSET {s \in Students : HasExported(rows, s)}
  <2>2. SUFFICES ASSUME NEW s \in Students, NEW n \in Gens
                 PROVE  CASE s \in S /\ rows[s][n].status = "exported" ->
                               /\ rows'[s][n].status = "promoted"
                               /\ rows'[s][n].batch = rows[s][n].batch
                          [] s \in S /\ rows[s][n].status = "promoted" ->
                               /\ rows'[s][n].status = "deleted"
                               /\ rows'[s][n].batch = rows[s][n].batch
                          [] OTHER -> rows'[s][n] = rows[s][n]
    OBVIOUS
  <2>3. rows[s][n] \in Row
    BY DEF TypeOK
  <2>4. s \in S <=> first[s] # NoCode /\ HasExported(rows, s)
    OBVIOUS
  <2>5. QED BY <1>3, <2>3, <2>4 DEF Promoted, Row
<1>4. QED BY <1>1, <1>2, <1>3

\* The steps that write no row.
Reads(w) ==
  \/ AddBegin(w) \/ AddSkip(w) \/ AddFresh(w) \/ AddNothing(w) \/ ExportSelect(w)
  \/ ImportDryRun(w) \/ Log(w) \/ Reply(w) \/ Abandon(w)

LEMMA ReadsWriteNothing == \A w \in Workers : Reads(w) => UNCHANGED <<rows, made>>
BY DEF Reads, AddBegin, AddSkip, AddFresh, AddNothing, ExportSelect, ImportDryRun,
       Log, Reply, Abandon, tables

\* draft_export trusts the ids of its SELECT: an export that read a draft before it
\* was cancelled or promoted is the one step that brings a closed draft back,
\* whatever overlaps, and a row that a re-send removed never returns.
THEOREM ClosedRowsStay == Spec => OnlyStaleExportReopens
<1> DEFINE Stays(s, n) ==
      /\ rows[s][n].status \in {"cancelled", "promoted"}
         /\ rows'[s][n].status \notin {rows[s][n].status, "deleted"} =>
           \E w \in Workers : pc[w] = "mark" /\ <<s, n>> \in job[w].ids
      /\ rows[s][n].status = "deleted" => rows'[s][n] = rows[s][n]
<1>1. ASSUME TypeOK, [Next]_vars, NEW s \in Students, NEW n \in Gens PROVE Stays(s, n)
  <2>0. rows \in Table /\ job \in [Workers -> Job]
    BY <1>1 DEF TypeOK, Table
  <2>1. ASSUME NEW w \in Workers, AddInsert(w) PROVE Stays(s, n)
    <3>1. PICK new : UNCHANGED rows \/ rows' = Inserted(rows, made, new)
      BY <2>1 DEF AddInsert
    <3>2. n = made[s] + 1 => rows[s][n].status = "absent"
      BY <1>1, ShipmentAssumption DEF TypeOK
    <3>3. Inserted(rows, made, new)[s][n] = rows[s][n] \/ n = made[s] + 1
      BY DEF Inserted
    <3>4. QED BY <3>1, <3>2, <3>3
  <2>2. ASSUME NEW w \in Workers, Cancel(w) PROVE Stays(s, n)
    <3>1. rows'[s][n] = rows[s][n] \/ rows[s][n].status \in Active
      BY <1>1, <2>2, CancelWrites
    <3>2. QED BY <3>1 DEF Active
  <2>3. ASSUME NEW w \in Workers, ExportMark(w) PROVE Stays(s, n)
    <3>1. pc[w] = "mark"
          /\ (UNCHANGED rows \/ rows' = Marked(rows, job[w].ids, job[w].batch))
      BY <2>3 DEF ExportMark
    <3>2. Marked(rows, job[w].ids, job[w].batch)[s][n] = rows[s][n]
          \/ (<<s, n>> \in job[w].ids /\ rows[s][n].status \in Live)
      BY DEF Marked
    <3>3. QED BY <3>1, <3>2 DEF Live
  <2>4. ASSUME NEW w \in Workers, ImportCommit(w) PROVE Stays(s, n)
    BY <1>1, <2>4, ImportWrites
  <2>5. CASE \E w \in Workers : Reads(w)
    BY <2>5, ReadsWriteNothing
  <2>6. CASE UNCHANGED vars
    BY <2>6 DEF vars
  <2>7. QED BY <1>1, <2>1, <2>2, <2>3, <2>4, <2>5, <2>6 DEF Next, Step, Reads
<1>2. TypeOK /\ [Next]_vars => [\A s \in Students, n \in Gens : Stays(s, n)]_vars
  BY <1>1
<1>3. QED BY TypeCorrect, <1>2, PTL DEF Spec, OnlyStaleExportReopens

-----------------------------------------------------------------------------
(* Requests served one after the other.  The properties below fail when two  *)
(* requests overlap (run lock_race), so they are proved of one worker, whose *)
(* requests may still die between any two of their steps.                    *)

OneAtATime == \A v, w \in Workers : v = w

\* Batches are given out once: a row carries one that was taken, and none
\* before it is exported.
BatchesTaken ==
  /\ \A s \in Students, n \in Gens :
       /\ rows[s][n].batch < nextBatch
       /\ rows[s][n].status \in {"absent", "draft"} => rows[s][n].batch = 0
  /\ \A b \in delivered : b < nextBatch

\* What draft_add saw before its first INSERT is still so when it inserts.
FreshFree ==
  \A w \in Workers :
    pc[w] = "insert" => \A s \in job[w].fresh : ~HasActive(rows, s)

\* What draft_export SELECTed is still every draft of its round when it UPDATEs.
SelectCurrent ==
  \A w \in Workers :
    pc[w] = "mark" =>
      /\ job[w].ids # {}
      /\ \E r \in Rounds : job[w].ids = DraftsOf(rows, r)
      /\ \A s \in Students, n \in Gens : rows[s][n].batch # job[w].batch

\* An export that is past its UPDATE has a file that matches its batch already.
FileReady ==
  \A w \in Workers :
    job[w].batch # 0 =>
      /\ pc[w] \in {"mark", "log", "reply"}
      /\ pc[w] # "mark" =>
           contents[job[w].batch] =
             {id \in Ids : rows[id[1]][id[2]].batch = job[w].batch}

SerialInv ==
  /\ OneActive
  /\ FileMatchesBatch
  /\ ExportNeverConflicts
  /\ BatchesTaken
  /\ FreshFree
  /\ SelectCurrent
  /\ FileReady

\* The rows a draft_add writes: a free row of students without an active draft.
LEMMA AddWrites ==
  ASSUME TypeOK, FreshFree, NEW w \in Workers, AddInsert(w)
  PROVE  \/ UNCHANGED rows
         \/ \E new \in SUBSET Students :
              /\ \A s \in new : ~HasActive(rows, s) /\ made[s] + 1 \in Gens
              /\ \A s \in Students, n \in Gens :
                   rows'[s][n] = IF s \in new /\ n = made[s] + 1
                                 THEN NewDraft ELSE rows[s][n]
<1> DEFINE new == job[w].fresh \cup {s \in job[w].todo : ~HasActive(rows, s)}
<1>1. rows \in Table /\ job[w] \in Job /\ made \in [Students -> 0..MaxDrafts]
  BY DEF TypeOK, Table
<1>2. new \in SUBSET Students
  BY <1>1 DEF Job
<1>3. \A s \in new : ~HasActive(rows, s)
  BY DEF FreshFree, AddInsert
<1>4. UNCHANGED rows \/ rows' = Inserted(rows, made, new)
  BY DEF AddInsert
<1>5. \A s \in new : made[s] < MaxDrafts
  BY DEF AddInsert
<1> HIDE DEF new
<1>6. \A s \in new : made[s] + 1 \in Gens
  BY <1>1, <1>2, <1>5, ShipmentAssumption DEF Gens
<1>7. \A s \in Students, n \in Gens :
        Inserted(rows, made, new)[s][n] =
          IF s \in new /\ n = made[s] + 1 THEN NewDraft ELSE rows[s][n]
  BY <1>1, <1>2, InsertedRows
<1>8. QED BY <1>2, <1>3, <1>4, <1>6, <1>7

\* The rows a draft_export writes: every draft of its round, into its batch.
\* The drafts' students have no other active row, so the UNIQUE constraint
\* never refuses it.
LEMMA MarkWrites ==
  ASSUME TypeOK, OneActive, SelectCurrent, NEW w \in Workers, ExportMark(w)
  PROVE  /\ Goto(w, "log")
         /\ \E r \in Rounds :
              /\ job[w].ids = DraftsOf(rows, r)
              /\ \A s \in Students, n \in Gens :
                   IF RoundOf[s] = r /\ rows[s][n].status = "draft"
                   THEN /\ rows'[s][n].status = "exported"
                        /\ rows'[s][n].batch = job[w].batch
                   ELSE rows'[s][n] = rows[s][n]
<1> DEFINE t == Marked(rows, job[w].ids, job[w].batch)
<1>1. PICK r \in Rounds : job[w].ids = DraftsOf(rows, r)
  BY DEF SelectCurrent, ExportMark
<1>2. IF Unique(t) THEN rows' = t /\ Goto(w, "log") ELSE UNCHANGED rows
  BY DEF ExportMark
<1>3. ASSUME NEW s \in Students, NEW n \in Gens
      PROVE  IF RoundOf[s] = r /\ rows[s][n].status = "draft"
             THEN t[s][n].status = "exported" /\ t[s][n].batch = job[w].batch
             ELSE t[s][n] = rows[s][n]
  <2>1. rows[s][n] \in Row
    BY DEF TypeOK
  <2>2. <<s, n>> \in job[w].ids <=> RoundOf[s] = r /\ rows[s][n].status = "draft"
    BY <1>1 DEF DraftsOf, InRound
  <2>3. QED BY <2>1, <2>2 DEF Marked, Row
<1> HIDE DEF t
<1>4. Unique(t)
  <2> SUFFICES ASSUME NEW s \in Students, NEW m \in Gens, NEW n \in Gens, m # n,
                      t[s][m].status \in Live, t[s][m].status = t[s][n].status
               PROVE  FALSE
    BY DEF Unique
  <2>1. /\ rows[s][m].status \in Live => rows[s][m].status # rows[s][n].status
        /\ ~(rows[s][m].status \in Active /\ rows[s][n].status \in Active)
    BY DEF TypeOK, Unique, OneActive
  <2>2. QED BY <1>3, <2>1
<1>5. QED BY <1>1, <1>2, <1>3, <1>4

\* A student has one active draft: an add is the only step that makes one, and
\* only for students who have none.
LEMMA ActiveStep ==
  ASSUME OneAtATime, TypeOK, Locals, SerialInv, NEW w \in Workers, Step(w)
  PROVE  OneActive'
<1> SUFFICES ASSUME NEW s \in Students, NEW m \in Gens, NEW n \in Gens,
                    rows'[s][m].status \in Active, rows'[s][n].status \in Active
             PROVE  m = n
  BY DEF OneActive
<1>1. rows[s][m].status \in Active /\ rows[s][n].status \in Active => m = n
  BY DEF SerialInv, OneActive
<1>2. CASE AddInsert(w)
  <2>1. CASE UNCHANGED rows
    BY <1>1, <2>1
  <2>2. CASE \E new \in SUBSET Students :
               /\ \A v \in new : ~HasActive(rows, v) /\ made[v] + 1 \in Gens
               /\ \A v \in Students, i \in Gens :
                    rows'[v][i] = IF v \in new /\ i = made[v] + 1
                                  THEN NewDraft ELSE rows[v][i]
    BY <1>1, <2>2 DEF HasActive
  <2>3. QED BY <1>2, <2>1, <2>2, AddWrites DEF SerialInv
<1>3. CASE Cancel(w)
  BY <1>1, <1>3, CancelWrites
<1>4. CASE ExportMark(w)
  <2>1. \A i \in Gens : rows'[s][i].status \in Active => rows[s][i].status \in Active
    BY <1>4, MarkWrites DEF SerialInv
  <2>2. QED BY <1>1, <2>1
<1>5. CASE ImportCommit(w)
  <2>1. \A i \in Gens : rows'[s][i].status \in Active => rows[s][i].status \in Active
    BY <1>5, ImportWrites
  <2>2. QED BY <1>1, <2>1
<1>6. CASE Reads(w)
  BY <1>1, <1>6, ReadsWriteNothing
<1>7. QED BY <1>2, <1>3, <1>4, <1>5, <1>6 DEF Step, Reads

\* The batches of rows and of delivered files were taken by an export.
LEMMA TakenStep ==
  ASSUME OneAtATime, TypeOK, Locals, SerialInv, NEW w \in Workers, Step(w)
  PROVE  BatchesTaken'
<1>0. /\ job[w] \in Job /\ nextBatch \in Nat
      /\ \A s \in Students, n \in Gens : rows[s][n] \in Row /\ rows[s][n].batch \in Nat
  BY ShipmentAssumption DEF TypeOK, Row
<1>1. /\ \A s \in Students, n \in Gens :
           /\ rows[s][n].batch < nextBatch
           /\ rows[s][n].status \in {"absent", "draft"} => rows[s][n].batch = 0
      /\ \A b \in delivered : b < nextBatch
  BY DEF SerialInv, BatchesTaken
<1>2. ASSUME UNCHANGED delivered, nextBatch' = nextBatch,
             \A s \in Students, n \in Gens :
               /\ rows'[s][n].batch < nextBatch
               /\ rows'[s][n].status \in {"absent", "draft"} => rows'[s][n].batch = 0
      PROVE  BatchesTaken'
  BY <1>1, <1>2 DEF BatchesTaken
<1>3. CASE AddInsert(w)
  <2>1. NewDraft.batch = 0 /\ 0 < nextBatch
    BY DEF NewDraft, NoRow, TypeOK
  <2>2. \A s \in Students, n \in Gens : rows'[s][n] \in {rows[s][n], NewDraft}
    BY <1>3, AddWrites DEF SerialInv
  <2>3. \A s \in Students, n \in Gens :
          /\ rows'[s][n].batch < nextBatch
          /\ rows'[s][n].status \in {"absent", "draft"} => rows'[s][n].batch = 0
    BY <1>1, <2>1, <2>2
  <2>4. QED BY <1>2, <1>3, <2>3 DEF AddInsert, exports
<1>4. CASE Cancel(w)
  <2>1. \A s \in Students, n \in Gens :
          /\ rows'[s][n].batch < nextBatch
          /\ rows'[s][n].status \in {"absent", "draft"} => rows'[s][n].batch = 0
    BY <1>1, <1>4, CancelWrites
  <2>2. QED BY <1>2, <1>4, <2>1 DEF Cancel, exports
<1>5. CASE ExportMark(w)
  <2>1. job[w].batch < nextBatch
    BY <1>5 DEF Locals, ExportMark
  <2>2. \A s \in Students, n \in Gens :
          \/ rows'[s][n] = rows[s][n]
          \/ rows'[s][n].status = "exported" /\ rows'[s][n].batch = job[w].batch
    BY <1>5, MarkWrites DEF SerialInv
  <2>3. \A s \in Students, n \in Gens :
          /\ rows'[s][n].batch < nextBatch
          /\ rows'[s][n].status \in {"absent", "draft"} => rows'[s][n].batch = 0
    BY <1>1, <2>1, <2>2
  <2>4. QED BY <1>2, <1>5, <2>3 DEF ExportMark, exports
<1>6. CASE ImportCommit(w)
  <2>1. \A s \in Students, n \in Gens :
          \/ rows'[s][n] = rows[s][n]
          \/ /\ rows'[s][n].status \in {"promoted", "deleted"}
             /\ rows'[s][n].batch = rows[s][n].batch
    BY <1>6, ImportWrites
  <2>2. \A s \in Students, n \in Gens :
          /\ rows'[s][n].batch < nextBatch
          /\ rows'[s][n].status \in {"absent", "draft"} => rows'[s][n].batch = 0
    BY <1>1, <2>1
  <2>3. QED BY <1>2, <1>6, <2>2 DEF ImportCommit, exports
<1>7. CASE ExportSelect(w)
  <2>1. nextBatch' = nextBatch + 1 /\ UNCHANGED <<rows, delivered>>
    BY <1>7 DEF ExportSelect, tables
  <2>2. delivered \subseteq Nat
    BY DEF TypeOK, Batches
  <2>3. QED BY <1>0, <1>1, <2>1, <2>2 DEF BatchesTaken
<1>8. CASE Reply(w)
  <2>1. job[w].batch < nextBatch
    BY <1>8 DEF Locals, Reply
  <2>2. UNCHANGED <<rows, nextBatch>> /\ delivered' = delivered \cup {job[w].batch}
    BY <1>8 DEF Reply, tables
  <2>3. QED BY <1>1, <2>1, <2>2 DEF BatchesTaken
<1>9. CASE \/ AddBegin(w) \/ AddSkip(w) \/ AddFresh(w) \/ AddNothing(w)
           \/ ImportDryRun(w) \/ Log(w) \/ Abandon(w)
  <2>1. UNCHANGED <<rows, exports>>
    BY <1>9 DEF AddBegin, AddSkip, AddFresh, AddNothing, ImportDryRun, Log, Abandon, tables
  <2>2. QED BY <1>1, <2>1 DEF BatchesTaken, exports
<1>10. QED BY <1>3, <1>4, <1>5, <1>6, <1>7, <1>8, <1>9 DEF Step

\* No other request runs between a handler's reads and its first write, so what
\* it read is still so when it writes.
LEMMA ReadsStep ==
  ASSUME OneAtATime, TypeOK, Locals, SerialInv, NEW w \in Workers, Step(w)
  PROVE  FreshFree' /\ SelectCurrent'
<1>0. /\ pc \in [Workers -> PCs] /\ job \in [Workers -> Job]
      /\ \A v \in Workers : v = w
  BY DEF TypeOK, OneAtATime
<1>1. CASE AddFresh(w)
  <2>1. PICK s \in job[w].todo : ~HasActive(rows, s)
                                 /\ job' = [job EXCEPT ![w] = AddJob(job[w].todo \ {s}, {s})]
    BY <1>1 DEF AddFresh, SetJob
  <2>2. UNCHANGED rows /\ pc' = [pc EXCEPT ![w] = "insert"]
    BY <1>1 DEF AddFresh, tables, Goto
  <2>3. job'[w].fresh = {s} /\ pc'[w] = "insert"
    BY <1>0, <2>1, <2>2 DEF AddJob
  <2>4. FreshFree'
    BY <1>0, <2>1, <2>2, <2>3 DEF FreshFree, HasActive
  <2>5. SelectCurrent'
    BY <1>0, <2>3 DEF SelectCurrent
  <2>6. QED BY <2>4, <2>5
<1>2. CASE ExportSelect(w)
  <2>1. PICK r \in Rounds :
          /\ DraftsOf(rows, r) # {}
          /\ job' = [job EXCEPT ![w] = ExportJob(DraftsOf(rows, r), nextBatch)]
    BY <1>2 DEF ExportSelect, SetJob
  <2>2. UNCHANGED rows /\ pc' = [pc EXCEPT ![w] = "mark"]
    BY <1>2 DEF ExportSelect, tables, Goto
  <2>3. /\ pc'[w] = "mark" /\ job'[w].ids = DraftsOf(rows, r)
        /\ job'[w].batch = nextBatch
    BY <1>0, <2>1, <2>2 DEF ExportJob
  <2>4. FreshFree'
    BY <1>0, <2>3 DEF FreshFree
  <2>5. \A s \in Students, n \in Gens : rows'[s][n].batch # nextBatch
    <3>1. \A s \in Students, n \in Gens :
            /\ rows[s][n].batch \in Nat /\ rows[s][n].batch < nextBatch
      BY ShipmentAssumption DEF SerialInv, BatchesTaken, TypeOK, Row
    <3>2. nextBatch \in Nat
      BY DEF TypeOK
    <3>3. QED BY <2>2, <3>1, <3>2
  <2>6. job'[w].ids = DraftsOf(rows, r)'
    BY <2>2, <2>3 DEF DraftsOf
  <2>7. SelectCurrent'
    BY <1>0, <2>1, <2>3, <2>5, <2>6 DEF SelectCurrent
  <2>8. QED BY <2>4, <2>7
<1>3. CASE ~AddFresh(w) /\ ~ExportSelect(w)
  <2>1. pc'[w] \notin {"insert", "mark"}
    <3>1. CASE AddSkip(w)
      BY <1>0, <3>1 DEF AddSkip
    <3>2. CASE ~AddSkip(w)
      BY <1>0, <1>3, <3>2
         DEF Step, AddBegin, AddNothing, AddInsert, Cancel, ExportMark, ImportCommit,
             ImportDryRun, Log, Reply, Abandon, Goto
    <3>3. QED BY <3>1, <3>2
  <2>2. QED BY <1>0, <2>1 DEF FreshFree, SelectCurrent
<1>4. QED BY <1>1, <1>2, <1>3

\* Only an export's UPDATE changes the batch of a row: the row an add fills had
\* none.
LEMMA BatchesStay ==
  ASSUME TypeOK, SerialInv, NEW w \in Workers, Step(w), ~ExportMark(w)
  PROVE  \A s \in Students, n \in Gens : rows'[s][n].batch = rows[s][n].batch
<1> SUFFICES ASSUME NEW s \in Students, NEW n \in Gens
             PROVE  rows'[s][n].batch = rows[s][n].batch
  OBVIOUS
<1>1. CASE AddInsert(w)
  <2>1. made[s] \in Nat
    BY ShipmentAssumption DEF TypeOK
  <2>2. n = made[s] + 1 => rows[s][n].batch = 0
    <3>1. n = made[s] + 1 => rows[s][n].status = "absent"
      BY <2>1 DEF TypeOK
    <3>2. QED BY <3>1 DEF SerialInv, BatchesTaken
  <2>3. NewDraft.batch = 0
    BY DEF NewDraft, NoRow
  <2>4. rows'[s][n] = rows[s][n] \/ (n = made[s] + 1 /\ rows'[s][n] = NewDraft)
    BY <1>1, AddWrites DEF SerialInv
  <2>5. QED BY <2>2, <2>3, <2>4
<1>2. CASE Cancel(w)
  BY <1>2, CancelWrites
<1>3. CASE ImportCommit(w)
  BY <1>3, ImportWrites
<1>4. CASE Reads(w)
  BY <1>4, ReadsWriteNothing
<1>5. QED BY <1>1, <1>2, <1>3, <1>4 DEF Step, Reads

\* An export's UPDATE stamps exactly the drafts of its file, and takes no draft
\* out of an earlier one.
LEMMA MarkStamps ==
  ASSUME TypeOK, Locals, SerialInv, NEW w \in Workers, ExportMark(w)
  PROVE  /\ {id \in Ids : rows'[id[1]][id[2]].batch = job[w].batch} = job[w].ids
         /\ \A b \in Batches :
              b # job[w].batch =>
                {id \in Ids : rows'[id[1]][id[2]].batch = b} =
                {id \in Ids : rows[id[1]][id[2]].batch = b}
<1>1. PICK r \in Rounds :
        /\ job[w].ids = DraftsOf(rows, r)
        /\ \A s \in Students, n \in Gens :
             IF RoundOf[s] = r /\ rows[s][n].status = "draft"
             THEN /\ rows'[s][n].status = "exported"
                  /\ rows'[s][n].batch = job[w].batch
             ELSE rows'[s][n] = rows[s][n]
  BY MarkWrites DEF SerialInv
<1>2. \A s \in Students, n \in Gens : rows[s][n].batch # job[w].batch
  BY DEF SerialInv, SelectCurrent, ExportMark
<1>3. \A s \in Students, n \in Gens :
        rows[s][n].status = "draft" => rows[s][n].batch = 0
  BY DEF SerialInv, BatchesTaken
<1>4. \A s \in Students, n \in Gens :
        <<s, n>> \in job[w].ids <=> RoundOf[s] = r /\ rows[s][n].status = "draft"
  BY <1>1 DEF DraftsOf, InRound
<1>5. job[w].ids \subseteq Ids
  BY DEF TypeOK, Job
<1>6. \A s \in Students, n \in Gens :
        rows'[s][n].batch = job[w].batch <=> <<s, n>> \in job[w].ids
  <2> SUFFICES ASSUME NEW s \in Students, NEW n \in Gens
               PROVE  rows'[s][n].batch = job[w].batch <=> <<s, n>> \in job[w].ids
    OBVIOUS
  <2>1. CASE <<s, n>> \in job[w].ids
    BY <1>1, <1>4, <2>1
  <2>2. CASE <<s, n>> \notin job[w].ids
    <3>1. rows'[s][n] = rows[s][n]
      BY <1>1, <1>4, <2>2
    <3>2. QED BY <1>2, <2>2, <3>1
  <2>3. QED BY <2>1, <2>2
<1>7. \A b \in Batches : b # job[w].batch =>
        \A s \in Students, n \in Gens :
          rows'[s][n].batch = b <=> rows[s][n].batch = b
  <2>1. \A b \in Batches : b # 0
    BY DEF Batches
  <2>2. QED BY <1>1, <1>3, <2>1
<1>8. QED BY <1>5, <1>6, <1>7 DEF Ids

\* The files match their batches after every step.
LEMMA FilesStep ==
  ASSUME OneAtATime, TypeOK, Locals, SerialInv, NEW w \in Workers, Step(w)
  PROVE  FileReady' /\ FileMatchesBatch'
<1> DEFINE S(b) == {id \in Ids : rows[id[1]][id[2]].batch = b}
           T(b) == {id \in Ids : rows'[id[1]][id[2]].batch = b}
<1>0. /\ pc \in [Workers -> PCs] /\ job \in [Workers -> Job]
      /\ \A v \in Workers : v = w
      /\ delivered \subseteq Batches /\ contents \in [Batches -> SUBSET Ids]
  BY DEF TypeOK, OneAtATime
<1>1. /\ job[w].batch # 0 =>
           /\ pc[w] \in {"mark", "log", "reply"}
           /\ pc[w] # "mark" => contents[job[w].batch] = S(job[w].batch)
      /\ \A b \in delivered : contents[b] = S(b)
  BY DEF SerialInv, FileReady, FileMatchesBatch
<1>2. /\ (job'[w].batch # 0 =>
            /\ pc'[w] \in {"mark", "log", "reply"}
            /\ pc'[w] # "mark" => contents'[job'[w].batch] = T(job'[w].batch)) => FileReady'
      /\ (\A b \in delivered' : contents'[b] = T(b)) => FileMatchesBatch'
  BY <1>0 DEF FileReady, FileMatchesBatch
<1>3. ~ExportMark(w) => \A b : T(b) = S(b)
  <2> SUFFICES ASSUME ~ExportMark(w), NEW b PROVE T(b) = S(b)
    OBVIOUS
  <2>1. \A s \in Students, n \in Gens : rows'[s][n].batch = rows[s][n].batch
    BY BatchesStay
  <2>2. QED BY <2>1 DEF Ids
<1> HIDE DEF S, T
<1>4. CASE AddBegin(w) \/ AddSkip(w) \/ AddFresh(w) \/ AddNothing(w) \/ AddInsert(w)
  <2>1. UNCHANGED <<contents, delivered>>
    BY <1>4 DEF AddBegin, AddSkip, AddFresh, AddNothing, AddInsert, exports
  <2>2. \E todo, fresh : job' = [job EXCEPT ![w] = AddJob(todo, fresh)]
    BY <1>4 DEF AddBegin, AddSkip, AddFresh, AddNothing, AddInsert, SetJob, NoJob
  <2>3. job'[w].batch = 0
    BY <1>0, <2>2 DEF AddJob
  <2>4. ~ExportMark(w)
    BY <1>0, <1>4 DEF AddBegin, AddSkip, AddFresh, AddNothing, AddInsert, ExportMark
  <2>5. QED BY <1>1, <1>2, <1>3, <2>1, <2>3, <2>4
<1>5. CASE Cancel(w) \/ ImportCommit(w) \/ ImportDryRun(w)
  <2>1. UNCHANGED <<job, contents, delivered>> /\ pc[w] = "idle"
    BY <1>5 DEF Cancel, ImportCommit, ImportDryRun, exports
  <2>2. job'[w].batch = 0
    BY <1>1, <2>1
  <2>3. ~ExportMark(w)
    BY <2>1 DEF ExportMark
  <2>4. QED BY <1>1, <1>2, <1>3, <2>1, <2>2, <2>3
<1>6. CASE ExportSelect(w)
  <2>1. PICK ids : contents' = [contents EXCEPT ![nextBatch] = ids]
    BY <1>6 DEF ExportSelect
  <2>2. UNCHANGED delivered /\ pc'[w] = "mark" /\ ~ExportMark(w)
    BY <1>0, <1>6 DEF ExportSelect, ExportMark, Goto
  <2>3. \A b \in delivered : b # nextBatch
    <3>1. \A b \in delivered : b < nextBatch
      BY DEF SerialInv, BatchesTaken
    <3>2. nextBatch \in Nat
      BY DEF TypeOK
    <3>3. QED BY <3>1, <3>2
  <2>4. \A b \in delivered : contents'[b] = contents[b]
    BY <1>0, <2>1, <2>3
  <2>5. QED BY <1>1, <1>2, <1>3, <2>2, <2>4
<1>7. CASE ExportMark(w)
  <2>1. UNCHANGED <<job, contents, delivered>>
    BY <1>7 DEF ExportMark, exports
  <2>2. job[w].batch # 0 /\ contents[job[w].batch] = job[w].ids /\ job[w].ids # {}
    BY <1>7 DEF ExportMark, Locals, SerialInv, SelectCurrent
  <2>3. S(job[w].batch) = {}
    BY <1>7 DEF S, Ids, ExportMark, SerialInv, SelectCurrent
  <2>4. \A b \in delivered : b # job[w].batch
    BY <1>1, <2>2, <2>3
  <2>5. /\ T(job[w].batch) = job[w].ids
        /\ \A b \in delivered : T(b) = S(b)
    BY <1>0, <1>7, <2>4, MarkStamps DEF S, T
  <2>6. pc'[w] = "log"
    BY <1>0, <1>7, MarkWrites DEF SerialInv, Goto
  <2>7. QED BY <1>1, <1>2, <2>1, <2>2, <2>5, <2>6
<1>8. CASE Log(w)
  <2>1. UNCHANGED <<job, contents, delivered>> /\ ~ExportMark(w) /\ pc[w] = "log"
    BY <1>8 DEF Log, ExportMark, exports
  <2>2. job[w].batch # 0 => pc'[w] = "reply"
    BY <1>0, <1>8 DEF Log, Goto
  <2>3. QED BY <1>1, <1>2, <1>3, <2>1, <2>2
<1>9. CASE Reply(w)
  <2>1. /\ delivered' = delivered \cup {job[w].batch}
        /\ UNCHANGED contents /\ job'[w] = NoJob /\ ~ExportMark(w) /\ pc[w] = "reply"
    BY <1>0, <1>9 DEF Reply, ExportMark, SetJob
  <2>2. NoJob.batch = 0 /\ job[w].batch # 0
    BY <1>9, JobTypes DEF Locals, Reply
  <2>3. QED BY <1>1, <1>2, <1>3, <2>1, <2>2
<1>10. CASE Abandon(w)
  <2>1. UNCHANGED <<contents, delivered, rows>> /\ job'[w] = NoJob
    BY <1>0, <1>10 DEF Abandon, SetJob, exports, tables
  <2>2. NoJob.batch = 0 /\ \A b : T(b) = S(b)
    BY <2>1, JobTypes DEF S, T
  <2>3. QED BY <1>1, <1>2, <2>1, <2>2
<1>11. QED BY <1>4, <1>5, <1>6, <1>7, <1>8, <1>9, <1>10 DEF Step

\* An export's UPDATE never meets the UNIQUE constraint.
LEMMA ExportStep ==
  ASSUME OneAtATime, TypeOK, SerialInv, NEW w \in Workers, Step(w)
  PROVE  ExportNeverConflicts'
<1>0. pc \in [Workers -> PCs] /\ \A v \in Workers : v = w
  BY DEF TypeOK, OneAtATime
<1>1. pc'[w] # "export_conflict"
  <2>1. CASE ExportMark(w)
    BY <1>0, <2>1, MarkWrites DEF SerialInv, Goto
  <2>2. CASE ~ExportMark(w)
    BY <1>0, <2>2
       DEF Step, AddBegin, AddSkip, AddFresh, AddNothing, AddInsert, Cancel, ExportSelect,
           ImportCommit, ImportDryRun, Log, Reply, Abandon, Goto
  <2>3. QED BY <2>1, <2>2
<1>2. QED BY <1>0, <1>1 DEF ExportNeverConflicts

LEMMA SerialInit == Init => SerialInv
<1> SUFFICES ASSUME Init PROVE SerialInv
  OBVIOUS
<1>1. /\ NoRow.status = "absent" /\ NoRow.batch = 0 /\ NoJob.batch = 0
      /\ \A s \in Students, n \in Gens : rows[s][n] = NoRow
      /\ \A w \in Workers : pc[w] = "idle" /\ job[w] = NoJob
      /\ delivered = {} /\ nextBatch = 1
  BY JobTypes DEF Init, NoRow
<1>2. OneActive /\ BatchesTaken /\ FileMatchesBatch
  BY <1>1 DEF OneActive, BatchesTaken, FileMatchesBatch
<1>3. FreshFree /\ SelectCurrent /\ FileReady /\ ExportNeverConflicts
  BY <1>1 DEF FreshFree, SelectCurrent, FileReady, ExportNeverConflicts
<1>4. QED BY <1>2, <1>3 DEF SerialInv

LEMMA SerialStep ==
  ASSUME OneAtATime
  PROVE  IInv /\ SerialInv /\ [Next]_vars => SerialInv'
<1> SUFFICES ASSUME IInv, SerialInv, [Next]_vars PROVE SerialInv'
  OBVIOUS
<1>1. ASSUME NEW w \in Workers, Step(w) PROVE SerialInv'
  BY <1>1, ActiveStep, TakenStep, ReadsStep, FilesStep, ExportStep DEF IInv, SerialInv
<1>2. CASE UNCHANGED vars
  <2>1. OneActive' /\ FileMatchesBatch' /\ ExportNeverConflicts' /\ BatchesTaken'
    BY <1>2 DEF vars, SerialInv, OneActive, FileMatchesBatch, ExportNeverConflicts,
                BatchesTaken
  <2>2. FreshFree' /\ SelectCurrent' /\ FileReady'
    BY <1>2 DEF vars, SerialInv, FreshFree, HasActive, SelectCurrent, DraftsOf, FileReady
  <2>3. QED BY <2>1, <2>2 DEF SerialInv
<1>3. QED BY <1>1, <1>2 DEF Next

LEMMA SerialInvariant == ASSUME OneAtATime PROVE Spec => [](IInv /\ SerialInv)
<1>1. Init => IInv /\ SerialInv
  BY InitInv, SerialInit
<1>2. IInv /\ SerialInv /\ [Next]_vars => (IInv /\ SerialInv)'
  BY TypeStep, LocalsStep, FileStep, HistoryStep, ImportStep, DeliveredStep, SerialStep
     DEF IInv
<1>3. QED BY <1>1, <1>2, PTL DEF Spec

\* One active draft per student and round (module comment of draft.py), when
\* requests do not overlap.
THEOREM OneDraftAtATime == ASSUME OneAtATime PROVE Spec => []OneActive
<1>1. SerialInv => OneActive
  BY DEF SerialInv
<1>2. QED BY SerialInvariant, <1>1, PTL

\* A file in the operator's hands lists exactly the drafts stamped with its
\* batch, whatever was added, cancelled, exported or imported since.
THEOREM FilesMatch == ASSUME OneAtATime PROVE Spec => []FileMatchesBatch
<1>1. SerialInv => FileMatchesBatch
  BY DEF SerialInv
<1>2. QED BY SerialInvariant, <1>1, PTL

\* No past of a student makes the UNIQUE constraint refuse a round's export.
THEOREM ExportsCommit == ASSUME OneAtATime PROVE Spec => []ExportNeverConflicts
<1>1. SerialInv => ExportNeverConflicts
  BY DEF SerialInv
<1>2. QED BY SerialInvariant, <1>1, PTL

\* An exported draft is immutable but for a cancellation or a tracking code
\* (module comment of draft.py).
THEOREM LockHolds == ASSUME OneAtATime PROVE Spec => HardLock
<1>1. ASSUME IInv, SerialInv, [Next]_vars
      PROVE  \A s \in Students, n \in Gens :
               rows[s][n].status = "exported" =>
                 /\ rows'[s][n].status \in {"exported", "cancelled", "promoted"}
                 /\ rows'[s][n].batch = rows[s][n].batch
  <2> SUFFICES ASSUME NEW s \in Students, NEW n \in Gens, rows[s][n].status = "exported"
               PROVE  /\ rows'[s][n].status \in {"exported", "cancelled", "promoted"}
                      /\ rows'[s][n].batch = rows[s][n].batch
    OBVIOUS
  <2>0. TypeOK /\ Locals
    BY <1>1 DEF IInv
  <2>1. ASSUME NEW w \in Workers, AddInsert(w) PROVE rows'[s][n] = rows[s][n]
    <3>1. n # made[s] + 1
      BY <2>0, ShipmentAssumption DEF TypeOK
    <3>2. QED BY <1>1, <2>0, <2>1, <3>1, AddWrites DEF SerialInv
  <2>2. ASSUME NEW w \in Workers, Cancel(w)
        PROVE  /\ rows'[s][n].status \in {"exported", "cancelled"}
               /\ rows'[s][n].batch = rows[s][n].batch
    BY <2>0, <2>2, CancelWrites
  <2>3. ASSUME NEW w \in Workers, ExportMark(w) PROVE rows'[s][n] = rows[s][n]
    BY <1>1, <2>0, <2>3, MarkWrites DEF SerialInv
  <2>4. ASSUME NEW w \in Workers, ImportCommit(w)
        PROVE  /\ rows'[s][n].status \in {"exported", "promoted"}
               /\ rows'[s][n].batch = rows[s][n].batch
    BY <2>0, <2>4, ImportWrites
  <2>5. CASE \E w \in Workers : Reads(w)
    BY <2>5, ReadsWriteNothing
  <2>6. CASE UNCHANGED vars
    BY <2>6 DEF vars
  <2>7. QED
    BY <1>1, <2>1, <2>2, <2>3, <2>4, <2>5, <2>6 DEF Next, Step, Reads
<1>2. IInv /\ SerialInv /\ [Next]_vars =>
        [\A s \in Students, n \in Gens :
           rows[s][n].status = "exported" =>
             /\ rows'[s][n].status \in {"exported", "cancelled", "promoted"}
             /\ rows'[s][n].batch = rows[s][n].batch]_vars
  BY <1>1
<1>3. QED BY SerialInvariant, <1>2, PTL DEF Spec, HardLock

-----------------------------------------------------------------------------
(* The draft table implements the one-slot life cycle of DraftLifecycle. *)

Slot == [s \in Students |-> SlotOf(s)]
Batch == [s \in Students |-> SlotBatch(s)]
Sent == {s \in Students : \E n \in Gens : rows[s][n].status = "promoted"}
Used == {rows[id[1]][id[2]].batch : id \in Ids} \ {0}

\* What a student's rows say of the slot, when at most one of them is active.
Reading ==
  \A s \in Students :
    /\ ~HasActive(rows, s) => SlotOf(s) = "none" /\ SlotBatch(s) = 0
    /\ \A n \in Gens :
         /\ rows[s][n].status = "draft" => SlotOf(s) = "draft" /\ SlotBatch(s) = 0
         /\ rows[s][n].status = "exported" =>
              SlotOf(s) = "exported" /\ SlotBatch(s) = rows[s][n].batch

LEMMA SlotRead == OneActive => Reading
<1> SUFFICES ASSUME OneActive, NEW s \in Students
             PROVE  /\ ~HasActive(rows, s) => SlotOf(s) = "none" /\ SlotBatch(s) = 0
                    /\ \A n \in Gens :
                         /\ rows[s][n].status = "draft" =>
                              SlotOf(s) = "draft" /\ SlotBatch(s) = 0
                         /\ rows[s][n].status = "exported" =>
                              SlotOf(s) = "exported" /\ SlotBatch(s) = rows[s][n].batch
  BY DEF Reading
<1>1. ~HasActive(rows, s) => SlotOf(s) = "none" /\ SlotBatch(s) = 0
  BY DEF HasActive, HasExported, SlotOf, SlotBatch
<1>2. ASSUME NEW n \in Gens, rows[s][n].status = "draft"
      PROVE  SlotOf(s) = "draft" /\ SlotBatch(s) = 0
  BY <1>2 DEF SlotOf, SlotBatch
<1>3. ASSUME NEW n \in Gens, rows[s][n].status = "exported"
      PROVE  SlotOf(s) = "exported" /\ SlotBatch(s) = rows[s][n].batch
  <2>1. \A m \in Gens : rows[s][m].status \in Active => m = n
    BY <1>3 DEF OneActive
  <2>2. SlotOf(s) = "exported"
    BY <1>3, <2>1 DEF SlotOf, HasExported
  <2>3. (CHOOSE m \in Gens : rows[s][m].status = "exported") = n
    BY <1>3, <2>1
  <2>4. QED BY <2>2, <2>3 DEF SlotBatch
<1>4. QED BY <1>1, <1>2, <1>3

LEMMA SlotReadAfter == OneActive' => Reading'
BY SlotRead, PTL

\* The batches in use, row by row.
UsedByRows ==
  \A b : b \in Used <=> b # 0 /\ \E s \in Students, n \in Gens : rows[s][n].batch = b

LEMMA UsedRows == UsedByRows
<1>1. ASSUME NEW s \in Students, NEW n \in Gens
      PROVE  rows[s][n].batch \in {rows[id[1]][id[2]].batch : id \in Ids}
  <2>1. <<s, n>> \in Ids /\ <<s, n>>[1] = s /\ <<s, n>>[2] = n
    BY DEF Ids
  <2>2. QED BY <2>1
<1>2. \A id \in Ids : id[1] \in Students /\ id[2] \in Gens
  BY DEF Ids
<1>3. QED BY <1>1, <1>2 DEF UsedByRows, Used

LEMMA UsedRowsAfter == UsedByRows'
BY UsedRows, PTL

\* A student whose rows a step leaves alone keeps the slot.
LEMMA SlotKept ==
  ASSUME OneActive, OneActive', NEW s \in Students,
         \A n \in Gens : rows'[s][n] = rows[s][n]
  PROVE  SlotOf(s)' = SlotOf(s) /\ SlotBatch(s)' = SlotBatch(s)
<1>1. CASE ~HasActive(rows, s)
  <2>1. ~HasActive(rows, s)'
    BY <1>1 DEF HasActive
  <2>2. QED BY <1>1, <2>1, SlotRead, SlotReadAfter DEF Reading
<1>2. ASSUME NEW n \in Gens, rows[s][n].status = "draft"
      PROVE  SlotOf(s)' = SlotOf(s) /\ SlotBatch(s)' = SlotBatch(s)
  BY <1>2, SlotRead, SlotReadAfter DEF Reading
<1>3. ASSUME NEW n \in Gens, rows[s][n].status = "exported"
      PROVE  SlotOf(s)' = SlotOf(s) /\ SlotBatch(s)' = SlotBatch(s)
  BY <1>3, SlotRead, SlotReadAfter DEF Reading
<1>4. QED BY <1>1, <1>2, <1>3 DEF HasActive

\* A step that writes no row is a stutter of the life cycle.
LEMMA StutterStep ==
  ASSUME OneActive, OneActive', UNCHANGED rows PROVE UNCHANGED Lifecycle!vars
<1>1. \A s \in Students : SlotOf(s)' = SlotOf(s) /\ SlotBatch(s)' = SlotBatch(s)
  BY SlotKept
<1>2. UNCHANGED <<Slot, Batch, Sent, Used>>
  BY <1>1 DEF Slot, Batch, Sent, Used
<1>3. QED BY <1>2 DEF Lifecycle!vars, Slot, Batch, Sent, Used

\* An add fills free slots.
LEMMA AddLeads ==
  ASSUME TypeOK, SerialInv, OneActive', NEW w \in Workers, AddInsert(w)
  PROVE  UNCHANGED Lifecycle!vars \/ \E S \in SUBSET Students : Lifecycle!Add(S)
<1>1. CASE UNCHANGED rows
  BY <1>1, StutterStep DEF SerialInv
<1>2. ASSUME NEW new \in SUBSET Students,
             \A s \in new : ~HasActive(rows, s) /\ made[s] + 1 \in Gens,
             \A s \in Students, n \in Gens :
               rows'[s][n] = IF s \in new /\ n = made[s] + 1
                             THEN NewDraft ELSE rows[s][n]
      PROVE  Lifecycle!Add(new)
  <2>1. NewDraft.status = "draft"
    BY DEF NewDraft, NoRow
  <2>2. \A s \in new : SlotOf(s) = "none" /\ SlotBatch(s) = 0
    BY <1>2, SlotRead DEF Reading, SerialInv
  <2>3. \A s \in new : SlotOf(s)' = "draft" /\ SlotBatch(s)' = 0
    BY <1>2, <2>1, SlotReadAfter DEF Reading
  <2>4. \A s \in Students \ new :
          SlotOf(s)' = SlotOf(s) /\ SlotBatch(s)' = SlotBatch(s)
    BY <1>2, SlotKept DEF SerialInv
  <2>5. UNCHANGED Used
    <3>1. \A id \in Ids : rows'[id[1]][id[2]].batch = rows[id[1]][id[2]].batch
      <4>1. ~ExportMark(w) /\ Step(w)
        BY DEF AddInsert, ExportMark, Step
      <4>2. QED BY <4>1, BatchesStay DEF Ids
    <3>2. QED BY <3>1 DEF Used
  <2>6. UNCHANGED Sent
    <3>1. \A s \in Students : made[s] \in Nat
      BY ShipmentAssumption DEF TypeOK
    <3>2. \A s \in Students, n \in Gens :
            n = made[s] + 1 => rows[s][n].status = "absent"
      BY <3>1 DEF TypeOK
    <3>3. \A s \in Students, n \in Gens :
            rows'[s][n].status = "promoted" <=> rows[s][n].status = "promoted"
      BY <1>2, <2>1, <3>2
    <3>4. QED BY <3>3 DEF Sent
  <2>7. /\ Slot' = [s \in Students |-> IF s \in new THEN "draft" ELSE Slot[s]]
        /\ Batch' = Batch
    BY <2>2, <2>3, <2>4 DEF Slot, Batch
  <2>8. new \subseteq {s \in Students : Slot[s] = "none"}
    BY <2>2 DEF Slot
  <2>9. QED
    BY <2>5, <2>6, <2>7, <2>8
       DEF Lifecycle!Add, Lifecycle!With, Lifecycle!InSlot, Slot, Batch, Sent, Used
<1>3. QED BY <1>1, <1>2, AddWrites DEF SerialInv

\* A cancellation frees the slots whose active row it closed.
LEMMA CancelLeads ==
  ASSUME TypeOK, SerialInv, OneActive', NEW w \in Workers, Cancel(w)
  PROVE  \E S \in SUBSET Students : Lifecycle!Cancel(S)
<1> DEFINE S == {s \in Students : \E n \in Gens : rows'[s][n] # rows[s][n]}
<1>0. \A s \in Students, n \in Gens :
        \/ rows'[s][n] = rows[s][n]
        \/ /\ rows[s][n].status \in Active
           /\ rows'[s][n].status = "cancelled"
           /\ rows'[s][n].batch = rows[s][n].batch
  BY CancelWrites
<1>1. ASSUME NEW s \in S
      PROVE  SlotOf(s) \in {"draft", "exported"} /\ SlotOf(s)' = "none" /\ SlotBatch(s)' = 0
  <2>1. PICK n \in Gens :
          rows[s][n].status \in Active /\ rows'[s][n].status = "cancelled"
    BY <1>0
  <2>2. SlotOf(s) \in {"draft", "exported"}
    BY <2>1, SlotRead DEF Reading, SerialInv
  <2>3. ~HasActive(rows, s)'
    <3>1. \A m \in Gens : rows[s][m].status \in Active => m = n
      BY <2>1 DEF SerialInv, OneActive
    <3>2. QED BY <1>0, <2>1, <3>1 DEF HasActive
  <2>4. QED BY <2>2, <2>3, SlotReadAfter DEF Reading
<1>2. \A s \in Students \ S : SlotOf(s)' = SlotOf(s) /\ SlotBatch(s)' = SlotBatch(s)
  BY SlotKept DEF SerialInv
<1>3. UNCHANGED <<Sent, Used>>
  <2>1. \A s \in Students, n \in Gens :
          /\ rows'[s][n].status = "promoted" <=> rows[s][n].status = "promoted"
          /\ rows'[s][n].batch = rows[s][n].batch
    BY <1>0
  <2>2. QED BY <2>1 DEF Sent, Used, Ids
<1> HIDE DEF S
<1>4. S \subseteq Students
  BY DEF S
<1>5. /\ Slot' = [s \in Students |-> IF s \in S THEN "none" ELSE Slot[s]]
      /\ Batch' = [s \in Students |-> IF s \in S THEN 0 ELSE Batch[s]]
  BY <1>1, <1>2, <1>4 DEF Slot, Batch
<1>6. S \subseteq {s \in Students : Slot[s] = "draft"}
                  \cup {s \in Students : Slot[s] = "exported"}
  BY <1>1, <1>4 DEF Slot
<1>7. Lifecycle!Cancel(S)
  BY <1>3, <1>5, <1>6
     DEF Lifecycle!Cancel, Lifecycle!With, Lifecycle!InSlot, Slot, Batch, Sent, Used
<1>8. QED BY <1>4, <1>7

\* An export's UPDATE locks every draft of a round into a batch never used.
LEMMA ExportLeads ==
  ASSUME TypeOK, Locals, SerialInv, OneActive', NEW w \in Workers, ExportMark(w)
  PROVE  \E r \in Rounds : \E b \in (Used' \ Used) : Lifecycle!Export(r, b)
<1>0. PICK b : b = job[w].batch
  OBVIOUS
<1>1. PICK r \in Rounds :
        /\ job[w].ids = DraftsOf(rows, r)
        /\ \A s \in Students, n \in Gens :
             IF RoundOf[s] = r /\ rows[s][n].status = "draft"
             THEN rows'[s][n].status = "exported" /\ rows'[s][n].batch = b
             ELSE rows'[s][n] = rows[s][n]
  BY <1>0, MarkWrites DEF SerialInv
<1> DEFINE S == {s \in Students : SlotOf(s) = "draft" /\ RoundOf[s] = r}
<1>2. /\ \A s \in Students, n \in Gens : rows[s][n].batch # b
      /\ \E s \in Students, n \in Gens : RoundOf[s] = r /\ rows[s][n].status = "draft"
      /\ b # 0
  <2>1. job[w].ids # {} /\ \A s \in Students, n \in Gens : rows[s][n].batch # b
    BY <1>0 DEF SerialInv, SelectCurrent, ExportMark
  <2>2. b # 0
    BY <1>0 DEF Locals, ExportMark
  <2>3. QED BY <1>1, <2>1, <2>2 DEF DraftsOf, InRound
<1>3. \A s \in Students : s \in S <=>
        RoundOf[s] = r /\ \E n \in Gens : rows[s][n].status = "draft"
  BY DEF SlotOf
<1>4. \A s \in S : SlotOf(s)' = "exported" /\ SlotBatch(s)' = b
  <2> SUFFICES ASSUME NEW s \in S PROVE SlotOf(s)' = "exported" /\ SlotBatch(s)' = b
    OBVIOUS
  <2>1. PICK n \in Gens : rows[s][n].status = "draft"
    BY <1>3
  <2>2. rows'[s][n].status = "exported" /\ rows'[s][n].batch = b
    BY <1>1, <2>1
  <2>3. QED BY <2>2, SlotReadAfter DEF Reading
<1>5. \A s \in Students \ S : SlotOf(s)' = SlotOf(s) /\ SlotBatch(s)' = SlotBatch(s)
  <2> SUFFICES ASSUME NEW s \in Students \ S
               PROVE  SlotOf(s)' = SlotOf(s) /\ SlotBatch(s)' = SlotBatch(s)
    OBVIOUS
  <2>1. \A n \in Gens : rows'[s][n] = rows[s][n]
    BY <1>1, <1>3
  <2>2. QED BY <2>1, SlotKept DEF SerialInv
<1>6. UNCHANGED Sent
  <2>1. \A s \in Students, n \in Gens :
          rows'[s][n].status = "promoted" <=> rows[s][n].status = "promoted"
    BY <1>1
  <2>2. QED BY <2>1 DEF Sent
<1>7. b \notin Used /\ Used' = Used \cup {b}
  <2>1. b \notin Used
    BY <1>2, UsedRows DEF UsedByRows
  <2>2. b \in Used'
    BY <1>1, <1>2, UsedRowsAfter DEF UsedByRows
  <2>3. ASSUME NEW x, x # b PROVE x \in Used' <=> x \in Used
    <3>1. \A s \in Students, n \in Gens :
            rows[s][n].status = "draft" => rows[s][n].batch = 0
      BY DEF SerialInv, BatchesTaken
    <3>2. x # 0 => \A s \in Students, n \in Gens :
                     rows'[s][n].batch = x <=> rows[s][n].batch = x
      BY <1>1, <2>3, <3>1
    <3>3. QED BY <3>2, UsedRows, UsedRowsAfter DEF UsedByRows
  <2>4. QED BY <2>1, <2>2, <2>3
<1>8. S # {}
  BY <1>2, <1>3
<1>9. S = {s \in {v \in Students : Slot[v] = "draft"} : RoundOf[s] = r}
  BY DEF Slot
<1> HIDE DEF S
<1>10. S \subseteq Students
  BY DEF S
<1>11. /\ Slot' = [s \in Students |-> IF s \in S THEN "exported" ELSE Slot[s]]
       /\ Batch' = [s \in Students |-> IF s \in S THEN b ELSE Batch[s]]
  BY <1>4, <1>5, <1>10 DEF Slot, Batch
<1>12. Lifecycle!Export(r, b)
  BY <1>6, <1>7, <1>8, <1>9, <1>11
     DEF Lifecycle!Export, Lifecycle!With, Lifecycle!InSlot, Slot, Batch, Sent, Used
<1>13. QED BY <1>7, <1>12

\* An import closes exported slots.
LEMMA ImportLeads ==
  ASSUME TypeOK, SerialInv, OneActive', NEW w \in Workers, ImportCommit(w)
  PROVE  \E S \in SUBSET Students : Lifecycle!Promote(S)
<1>1. PICK S \in SUBSET {s \in Students : HasExported(rows, s)} :
        \A s \in Students, n \in Gens :
          CASE s \in S /\ rows[s][n].status = "exported" ->
                 /\ rows'[s][n].status = "promoted"
                 /\ rows'[s][n].batch = rows[s][n].batch
            [] s \in S /\ rows[s][n].status = "promoted" ->
                 /\ rows'[s][n].status = "deleted"
                 /\ rows'[s][n].batch = rows[s][n].batch
            [] OTHER -> rows'[s][n] = rows[s][n]
  BY ImportWrites
<1>2. ASSUME NEW s \in S
      PROVE  /\ SlotOf(s) = "exported" /\ SlotOf(s)' = "none" /\ SlotBatch(s)' = 0
             /\ \E n \in Gens : rows'[s][n].status = "promoted"
  <2>1. PICK n \in Gens : rows[s][n].status = "exported"
    BY DEF HasExported
  <2>2. SlotOf(s) = "exported"
    BY <2>1, SlotRead DEF Reading, SerialInv
  <2>3. rows'[s][n].status = "promoted"
    BY <1>1, <2>1
  <2>4. ~HasActive(rows, s)'
    <3>1. \A m \in Gens : rows[s][m].status \in Active => m = n
      BY <2>1 DEF SerialInv, OneActive
    <3>2. \A m \in Gens : rows'[s][m].status \in Active => rows[s][m].status = "draft"
      BY <1>1
    <3>3. QED BY <2>1, <3>1, <3>2 DEF HasActive
  <2>5. QED BY <2>2, <2>3, <2>4, SlotReadAfter DEF Reading
<1>3. \A s \in Students \ S : \A n \in Gens : rows'[s][n] = rows[s][n]
  BY <1>1
<1>4. \A s \in Students \ S : SlotOf(s)' = SlotOf(s) /\ SlotBatch(s)' = SlotBatch(s)
  BY <1>3, SlotKept DEF SerialInv
<1>5. Sent' = Sent \cup S
  BY <1>2, <1>3 DEF Sent
<1>6. UNCHANGED Used
  <2>1. \A s \in Students, n \in Gens : rows'[s][n].batch = rows[s][n].batch
    BY <1>1
  <2>2. QED BY <2>1 DEF Used, Ids
<1>7. /\ Slot' = [s \in Students |-> IF s \in S THEN "none" ELSE Slot[s]]
      /\ Batch' = [s \in Students |-> IF s \in S THEN 0 ELSE Batch[s]]
  BY <1>2, <1>4 DEF Slot, Batch
<1>8. S \subseteq {s \in Students : Slot[s] = "exported"}
  BY <1>2 DEF Slot
<1>9. Lifecycle!Promote(S)
  BY <1>5, <1>6, <1>7, <1>8
     DEF Lifecycle!Promote, Lifecycle!With, Lifecycle!InSlot, Slot, Batch, Sent, Used
<1>10. QED BY <1>9

\* Requests served one at a time, dying at any point, are the abstract life
\* cycle (module comment of draft.py and docs/features/shipment.md).
THEOREM Implements == ASSUME OneAtATime PROVE Spec => ImplementsLifecycle
<1>1. Init => Lifecycle!Init
  <2> SUFFICES ASSUME Init PROVE Lifecycle!Init
    OBVIOUS
  <2>1. /\ NoRow.status = "absent" /\ NoRow.batch = 0
        /\ \A s \in Students, n \in Gens : rows[s][n] = NoRow
    BY DEF Init, NoRow
  <2>2. \A s \in Students : SlotOf(s) = "none" /\ SlotBatch(s) = 0
    BY <2>1 DEF SlotOf, SlotBatch, HasExported
  <2>3. Sent = {} /\ Used = {}
    BY <2>1 DEF Sent, Used, Ids
  <2>4. Slot = [s \in Students |-> "none"] /\ Batch = [s \in Students |-> 0]
    BY <2>2 DEF Slot, Batch
  <2>5. QED BY <2>3, <2>4 DEF Lifecycle!Init, Slot, Batch, Sent, Used
<1>2. ASSUME IInv, SerialInv, SerialInv', [Next]_vars
      PROVE  [Lifecycle!Next]_Lifecycle!vars
  <2>0. TypeOK /\ Locals /\ OneActive /\ OneActive'
    BY <1>2 DEF IInv, SerialInv
  <2>1. ASSUME NEW w \in Workers, AddInsert(w) PROVE [Lifecycle!Next]_Lifecycle!vars
    BY <1>2, <2>0, <2>1, AddLeads DEF Lifecycle!Next
  <2>2. ASSUME NEW w \in Workers, Cancel(w) PROVE Lifecycle!Next
    BY <1>2, <2>0, <2>2, CancelLeads DEF Lifecycle!Next
  <2>3. ASSUME NEW w \in Workers, ExportMark(w) PROVE Lifecycle!Next
    BY <1>2, <2>0, <2>3, ExportLeads DEF Lifecycle!Next, Used
  <2>4. ASSUME NEW w \in Workers, ImportCommit(w) PROVE Lifecycle!Next
    BY <1>2, <2>0, <2>4, ImportLeads DEF Lifecycle!Next
  <2>5. CASE (\E w \in Workers : Reads(w)) \/ UNCHANGED vars
    <3>1. UNCHANGED rows
      BY <2>5, ReadsWriteNothing DEF vars
    <3>2. QED BY <2>0, <3>1, StutterStep
  <2>6. QED BY <1>2, <2>1, <2>2, <2>3, <2>4, <2>5 DEF Next, Step, Reads
<1>3. (IInv /\ SerialInv) /\ (IInv /\ SerialInv)' /\ [Next]_vars
        => [Lifecycle!Next]_Lifecycle!vars
  BY <1>2
<1>4. QED BY <1>1, <1>3, SerialInvariant, PTL
             DEF Spec, ImplementsLifecycle, Lifecycle!Spec
=============================================================================
