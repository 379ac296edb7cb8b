---------------------------- MODULE Records_proofs ----------------------------
(***************************************************************************)
(* What holds of the record tables for any students, rounds, workers and   *)
(* source files: no edit is lost, the trail is complete, and what a student *)
(* gave to be found is in the row printed and in the row of the result.    *)
(*                                                                         *)
(* An ingest folds IngestRow over a file.  The fold is the chain of its    *)
(* values on the prefixes of the file (IngestChain), whose existence is    *)
(* proved by least counterexample (LeastNat): what a file leaves in a      *)
(* table (IngestedSays) is then an induction along the chain.              *)
(***************************************************************************)
EXTENDS Records, NaturalsInduction, WellFoundedInduction, TLAPS

\* The row of a download that passed the match carries what the request gave.
Asked(row, j) == row.there => \A c \in DOMAIN j.factors : row.cells[c] = j.factors[c]
SearchOK(at, j) ==
  /\ at \in {"search", "render"} =>
       Asked(j.row, j) /\ Asked(j.found, j) /\ (j.found.there => j.row.there)
  /\ at = "render" => j.found.there

\* A worker at "at" with the locals j: it serves a request that was begun, has
\* committed the row that it forwards, and prints rows that match.
LocalOK(at, j, rows) ==
  /\ at # "idle" => j.id \in Requests
  /\ at \in {"forward", "reply"} => j.id \in rows
  /\ SearchOK(at, j)
WorkersOK == \A w \in Workers : LocalOK(pc[w], job[w], audit)

Inv == TypeOK /\ WorkersOK /\ EditsStand /\ TrailIsComplete /\ PrintedRowIsOwners
-----------------------------------------------------------------------------
(* Induction on the natural numbers, and the largest index of a set.        *)

LEMMA LeastNat ==
  ASSUME NEW T \in SUBSET Nat, T # {}
  PROVE  \E n \in T : \A m \in T : ~(m < n)
<1>1. PICK n \in T : \A m \in T : ~(<<m, n>> \in OpToRel(<, Nat))
  BY WFMin, NatLessThanWellFounded, Zenon
<1>2. ASSUME NEW m \in T, m < n PROVE <<m, n>> \in OpToRel(<, Nat)
  BY <1>2, Zenon DEF OpToRel
<1> QED BY <1>1, <1>2

LEMMA MaxOf ==
  ASSUME NEW n \in Nat, NEW s \in SUBSET (1..n), s # {}
  PROVE  Max(s) \in s /\ \A y \in s : y <= Max(s)
<1> DEFINE U == {m \in Nat : \A y \in s : y <= m}
<1>1. U \in SUBSET Nat /\ U # {}
  <2>1. n \in U
    OBVIOUS
  <2> QED BY <2>1
<1>2. PICK m \in U : \A k \in U : ~(k < m)
  BY <1>1, LeastNat
<1>3. m \in s
  <2>1. SUFFICES ASSUME m \notin s PROVE FALSE
    OBVIOUS
  <2>2. PICK y \in s : y \in 1..n
    OBVIOUS
  <2>3. m \in Nat /\ m >= 1
    BY <2>2
  <2>4. m - 1 \in U
    BY <2>1, <2>3
  <2> QED BY <2>3, <2>4, <1>2
<1>4. \E x \in s : \A y \in s : x >= y
  BY <1>3
<1> QED BY <1>4 DEF Max

-----------------------------------------------------------------------------
(* The fold of an ingest.                                                   *)

\* f holds the value of the fold on every set of the file's indices.
Chain(f, S, t, file, policy) ==
  f = [s \in SUBSET S |->
         IF s = {} THEN t ELSE IngestRow(f[s \ {Max(s)}], file[Max(s)], policy)]

LEMMA ChainExists ==
  ASSUME NEW t, NEW file, NEW policy, NEW n \in Nat
  PROVE  \E f : Chain(f, 1..n, t, file, policy)
<1> DEFINE Bad == {k \in Nat : ~ \E f : Chain(f, 1..k, t, file, policy)}
<1>1. SUFFICES ASSUME Bad # {} PROVE FALSE
  OBVIOUS
<1>2. PICK k \in Bad : \A m \in Bad : ~(m < k)
  BY <1>1, LeastNat
<1>3. CASE k = 0
  <2> DEFINE f == [s \in SUBSET (1..0) |-> t]
  <2>1. Chain(f, 1..0, t, file, policy)
    BY DEF Chain
  <2> QED BY <2>1, <1>2, <1>3
<1>4. CASE k # 0
  <2>1. k - 1 \in Nat /\ k - 1 < k /\ k \in Nat
    BY <1>2, <1>4
  <2>2. PICK f : Chain(f, 1..(k-1), t, file, policy)
    BY <2>1, <1>2
  <2> DEFINE g == [s \in SUBSET (1..k) |->
        IF s \in SUBSET (1..(k-1)) THEN f[s] ELSE IngestRow(f[s \ {k}], file[k], policy)]
  <2>3. ASSUME NEW s \in SUBSET (1..k)
        PROVE g[s] = IF s = {} THEN t ELSE IngestRow(g[s \ {Max(s)}], file[Max(s)], policy)
    <3>1. CASE s \in SUBSET (1..(k-1))
      <4>1. g[s] = f[s]
        BY <3>1
      <4>2. f[s] = IF s = {} THEN t ELSE IngestRow(f[s \ {Max(s)}], file[Max(s)], policy)
        BY <2>2, <3>1, Zenon DEF Chain
      <4>3. g[s \ {Max(s)}] = f[s \ {Max(s)}]
        BY <3>1
      <4> HIDE DEF g
      <4> QED BY <4>1, <4>2, <4>3
    <3>2. CASE s \notin SUBSET (1..(k-1))
      <4>1. k \in s /\ s # {}
        BY <3>2, <2>1
      <4>2. Max(s) = k
        <5>1. Max(s) \in s /\ k <= Max(s)
          BY <4>1, <2>1, MaxOf
        <5>2. Max(s) \in 1..k
          BY <5>1
        <5> HIDE DEF g
        <5> QED BY <5>1, <5>2, <2>1
      <4>3. s \ {k} \in SUBSET (1..(k-1)) /\ s \ {k} \in SUBSET (1..k)
        BY <2>1
      <4>4. g[s \ {k}] = f[s \ {k}]
        BY <4>3
      <4>5. g[s] = IngestRow(f[s \ {k}], file[k], policy)
        BY <3>2
      <4> HIDE DEF g
      <4> QED BY <4>1, <4>2, <4>4, <4>5
    <3> QED BY <3>1, <3>2
  <2>4. Chain(g, 1..k, t, file, policy)
    BY <2>3, Zenon DEF Chain
  <2> QED BY <2>4, <1>2
<1> QED BY <1>3, <1>4

\* An ingest is the last link of a chain with one link for each row of the file.
Link(a, n, t, file, policy) ==
  /\ a[0] = t
  /\ \A i \in 1..n : a[i] = IngestRow(a[i - 1], file[i], policy)

LEMMA IngestChain ==
  ASSUME NEW t, NEW file \in Seq(SourceRow), NEW policy
  PROVE  \E a : Link(a, Len(file), t, file, policy) /\ Ingested(t, file, policy) = a[Len(file)]
<1> DEFINE n == Len(file)
<1>1. n \in Nat /\ DOMAIN file = 1..n
  OBVIOUS
<1>2. \E f : Chain(f, DOMAIN file, t, file, policy)
  BY <1>1, ChainExists
<1>3. PICK f : /\ Chain(f, DOMAIN file, t, file, policy)
               /\ Ingested(t, file, policy) = f[DOMAIN file]
  BY <1>2, Zenon DEF Ingested, FoldLeft, MapThenFoldSet, Chain
<1> HIDE DEF n
<1> DEFINE a == [i \in 0..n |-> f[1..i]]
<1>4. ASSUME NEW s \in SUBSET (1..n)
      PROVE f[s] = IF s = {} THEN t ELSE IngestRow(f[s \ {Max(s)}], file[Max(s)], policy)
  BY <1>1, <1>3, Zenon DEF Chain
<1>5. a[0] = t
  <2>1. 1..0 = {} /\ 1..0 \in SUBSET (1..n) /\ a[0] = f[1..0]
    BY <1>1
  <2> HIDE DEF a
  <2> QED BY <2>1, <1>4
<1>6. ASSUME NEW i \in 1..n PROVE a[i] = IngestRow(a[i - 1], file[i], policy)
  <2>1. 1..i \in SUBSET (1..n) /\ 1..i # {} /\ i \in 1..i /\ i \in Nat
    BY <1>1
  <2>2. Max(1..i) \in 1..i /\ i <= Max(1..i)
    BY <2>1, MaxOf
  <2>3. Max(1..i) = i
    BY <2>1, <2>2
  <2>4. (1..i) \ {i} = 1..(i - 1)
    BY <2>1
  <2>5. a[i] = f[1..i] /\ a[i - 1] = f[1..(i - 1)]
    BY <1>1
  <2> HIDE DEF a
  <2> QED BY <2>1, <2>3, <2>4, <2>5, <1>4
<1>7. a[n] = f[1..n]
  BY <1>1
<1> HIDE DEF a
<1>8. Link(a, n, t, file, policy)
  BY <1>5, <1>6 DEF Link
<1>9. Ingested(t, file, policy) = a[n]
  BY <1>1, <1>3, <1>7
<1> QED BY <1>8, <1>9 DEF n

Table == [Students -> Row]

\* The rows among the first n of the file that name the student.
First(file, n, s) == {k \in 1..n : file[k].sbd = s}

\* What the first n rows of the file leave of a student's row.
LeftOf(before, after, file, policy, n, s) ==
  /\ First(file, n, s) = {} => after = before
  /\ First(file, n, s) # {} =>
       /\ after.there
       /\ policy # "replace" /\ before.there => after = before
       /\ policy = "replace" =>
            \E m \in First(file, n, s) :
              (\A k \in First(file, n, s) : k <= m) /\ after.cells = file[m].cells
       /\ policy # "replace" /\ ~before.there =>
            \E m \in First(file, n, s) :
              (\A k \in First(file, n, s) : m <= k) /\ after.cells = file[m].cells
Left(u, t, file, policy, n) ==
  u \in Table /\ \A s \in Students : LeftOf(t[s], u[s], file, policy, n, s)

LEMMA IngestRowEffect ==
  ASSUME NEW u \in Table, NEW src \in SourceRow, NEW policy
  PROVE  LET v == IngestRow(u, src, policy)
         IN /\ v \in Table
            /\ \A s \in Students :
                 v[s] = IF src.sbd = s /\ (policy = "replace" \/ ~u[s].there)
                        THEN [there |-> TRUE, cells |-> src.cells] ELSE u[s]
<1>1. src.sbd \in Students \cup {NoSbd} /\ src.cells \in [Columns -> Cells]
  BY DEF SourceRow
<1>2. NoSbd \notin Students
  BY RecordsAssumption
<1>3. [there |-> TRUE, cells |-> src.cells] \in Row
  BY <1>1 DEF Row
<1> QED BY <1>1, <1>2, <1>3 DEF IngestRow, Overwrites, Table

LEMMA LeftStep ==
  ASSUME NEW file \in Seq(SourceRow), NEW policy, NEW i \in 1..Len(file),
         NEW t \in Table, NEW u, Left(u, t, file, policy, i - 1)
  PROVE  Left(IngestRow(u, file[i], policy), t, file, policy, i)
<1> DEFINE v == IngestRow(u, file[i], policy)
<1>1. file[i] \in SourceRow /\ u \in Table /\ i \in Nat /\ i >= 1 /\ i - 1 \in Nat
  BY DEF Left
<1>2. /\ v \in Table
      /\ \A s \in Students :
           v[s] = IF file[i].sbd = s /\ (policy = "replace" \/ ~u[s].there)
                  THEN [there |-> TRUE, cells |-> file[i].cells] ELSE u[s]
  BY <1>1, IngestRowEffect
<1> HIDE DEF v
<1>3. ASSUME NEW s \in Students PROVE LeftOf(t[s], v[s], file, policy, i, s)
  <2>1. LeftOf(t[s], u[s], file, policy, i - 1, s)
    BY DEF Left
  <2>2. CASE file[i].sbd # s
    <3>1. First(file, i, s) = First(file, i - 1, s)
      BY <1>1, <2>2 DEF First
    <3>2. v[s] = u[s]
      BY <1>2, <2>2
    <3> QED BY <2>1, <3>1, <3>2 DEF LeftOf
  <2>3. CASE file[i].sbd = s
    <3>1. First(file, i, s) = First(file, i - 1, s) \cup {i} /\ i \in First(file, i, s)
      BY <1>1, <2>3 DEF First
    <3>2. \A k \in First(file, i - 1, s) : k \in Nat /\ k < i
      BY <1>1 DEF First
    <3>3. CASE policy = "replace"
      <4>1. v[s].there /\ v[s].cells = file[i].cells
        BY <1>2, <2>3, <3>3
      <4>2. \A k \in First(file, i, s) : k <= i
        BY <1>1, <3>1, <3>2
      <4> QED BY <3>1, <3>3, <4>1, <4>2 DEF LeftOf
    <3>4. CASE policy # "replace" /\ u[s].there
      <4>1. v[s] = u[s]
        BY <1>2, <3>4
      <4>2. CASE t[s].there
        BY <2>1, <3>1, <3>4, <4>1, <4>2 DEF LeftOf
      <4>3. CASE ~t[s].there
        <5>1. First(file, i - 1, s) # {}
          BY <2>1, <3>4, <4>3 DEF LeftOf
        <5>2. PICK m \in First(file, i - 1, s) :
                (\A k \in First(file, i - 1, s) : m <= k) /\ u[s].cells = file[m].cells
          BY <2>1, <3>4, <4>3, <5>1 DEF LeftOf
        <5>3. \A k \in First(file, i, s) : m <= k
          BY <1>1, <3>1, <3>2, <5>2
        <5> QED BY <3>1, <3>4, <4>1, <4>3, <5>2, <5>3 DEF LeftOf
      <4> QED BY <4>2, <4>3
    <3>5. CASE policy # "replace" /\ ~u[s].there
      <4>1. v[s].there /\ v[s].cells = file[i].cells
        BY <1>2, <2>3, <3>5
      <4>2. First(file, i - 1, s) = {}
        BY <2>1, <3>5 DEF LeftOf
      <4>3. u[s] = t[s]
        BY <2>1, <4>2 DEF LeftOf
      <4>4. First(file, i, s) = {i}
        BY <3>1, <4>2
      <4> QED BY <1>1, <3>5, <4>1, <4>3, <4>4 DEF LeftOf
    <3> QED BY <3>3, <3>4, <3>5
  <2> QED BY <2>2, <2>3
<1> QED BY <1>2, <1>3 DEF Left, v

\* What a file leaves in a table: its last row for each student if rows replace,
\* else its first, unless the student had a row.
LEMMA IngestedLeft ==
  ASSUME NEW t \in Table, NEW file \in Seq(SourceRow), NEW policy
  PROVE  Left(Ingested(t, file, policy), t, file, policy, Len(file))
<1>1. PICK a : Link(a, Len(file), t, file, policy) /\ Ingested(t, file, policy) = a[Len(file)]
  BY IngestChain
<1> DEFINE Bad == {k \in Nat : k <= Len(file) /\ ~Left(a[k], t, file, policy, k)}
<1>2. SUFFICES ASSUME Bad # {} PROVE FALSE
  <2>1. Len(file) \in Nat
    OBVIOUS
  <2> QED BY <1>1, <2>1
<1>3. PICK k \in Bad : \A m \in Bad : ~(m < k)
  BY <1>2, LeastNat
<1>4. CASE k = 0
  <2>1. a[0] = t
    BY <1>1 DEF Link
  <2>2. \A s \in Students : First(file, 0, s) = {}
    BY DEF First
  <2>3. Left(t, t, file, policy, 0)
    BY <2>2 DEF Left, LeftOf
  <2> QED BY <1>3, <1>4, <2>1, <2>3
<1>5. CASE k # 0
  <2>1. k \in 1..Len(file) /\ k - 1 \in Nat /\ k - 1 <= Len(file) /\ k - 1 < k
    BY <1>3, <1>5
  <2>2. Left(a[k - 1], t, file, policy, k - 1)
    BY <1>3, <2>1
  <2>3. a[k] = IngestRow(a[k - 1], file[k], policy)
    BY <1>1, <2>1 DEF Link
  <2>4. Left(a[k], t, file, policy, k)
    BY <2>1, <2>2, <2>3, LeftStep
  <2> QED BY <1>3, <2>4
<1> QED BY <1>4, <1>5

\* The reference the history variable is built from: a file sets the cells of the
\* students it names as it says, and no others.
LEMMA IngestedSays ==
  ASSUME NEW t \in Table, NEW file \in Seq(SourceRow), NEW policy
  PROVE  LET u == Ingested(t, file, policy)
         IN /\ u \in Table
            /\ \A s \in Students :
                 u[s].cells =
                   IF RowsOf(file, s) # {} /\ (policy = "replace" \/ ~t[s].there)
                   THEN Says(file, s, policy) ELSE t[s].cells
<1> DEFINE u == Ingested(t, file, policy)
<1>1. Left(u, t, file, policy, Len(file))
  BY IngestedLeft
<1> HIDE DEF u
<1>2. ASSUME NEW s \in Students
      PROVE  u[s].cells =
               IF RowsOf(file, s) # {} /\ (policy = "replace" \/ ~t[s].there)
               THEN Says(file, s, policy) ELSE t[s].cells
  <2> DEFINE M == First(file, Len(file), s)
  <2>1. LeftOf(t[s], u[s], file, policy, Len(file), s)
    BY <1>1 DEF Left
  <2>2. RowsOf(file, s) = M /\ M \subseteq Nat
    BY DEF RowsOf, First
  <2>3. CASE M = {} \/ (policy # "replace" /\ t[s].there)
    BY <2>1, <2>2, <2>3 DEF LeftOf
  <2>4. CASE M # {} /\ policy = "replace"
    <3>1. PICK m \in M : (\A k \in M : k <= m) /\ u[s].cells = file[m].cells
      BY <2>1, <2>4 DEF LeftOf
    <3>2. Max(M) = m
      <4> HIDE DEF M
      <4> QED BY <2>2, <3>1 DEF Max
    <3> QED BY <2>2, <2>4, <3>1, <3>2 DEF Says
  <2>5. CASE M # {} /\ policy # "replace" /\ ~t[s].there
    <3>1. PICK m \in M : (\A k \in M : m <= k) /\ u[s].cells = file[m].cells
      BY <2>1, <2>5 DEF LeftOf
    <3>2. Min(M) = m
      <4> HIDE DEF M
      <4> QED BY <2>2, <3>1 DEF Min
    <3> QED BY <2>2, <2>5, <3>1, <3>2 DEF Says
  <2> QED BY <2>3, <2>4, <2>5
<1> QED BY <1>1, <1>2 DEF Left, u
-----------------------------------------------------------------------------
(* Types.                                                                   *)

LEMMA Blanks ==
  /\ NoRow \in Row /\ NoShipment \in Shipment
  /\ NoPatch \in Patch /\ EmptyTable \in Table
<1>1. BlankCells \in [Columns -> Cells] /\ BlankFields \in [Fields -> Cells]
  BY DEF BlankCells, BlankFields, Cells
<1>2. NoRow \in Row
  BY <1>1 DEF NoRow, Row
<1>3. NoShipment \in Shipment
  BY <1>1 DEF NoShipment, Shipment
<1>4. NoPatch \in Patch
  BY DEF NoPatch, Patch
<1> QED BY <1>2, <1>3, <1>4 DEF EmptyTable, Table

LEMMA RoundFacts ==
  /\ Len(Rounds) \in Nat /\ 1 \in 1..Len(Rounds)
  /\ \A i \in 1..Len(Rounds) : Rounds[i] \in RoundIds
BY RecordsAssumption DEF RoundIds, ToSet

LEMMA NoJobType == NoJob \in Job
<1>1. (CHOOSE s \in Students : TRUE) \in Students /\ NoFactors \in Factors
  BY RecordsAssumption DEF Factors
<1>2. /\ Rounds[1] \in RoundIds /\ 1 \in 1..(Len(Rounds) + 1)
      /\ 0 \in 0..MaxRequests
  BY RoundFacts, RecordsAssumption
<1>3. /\ "list" \in Kinds /\ "name" \in Columns /\ Blank \in Cells
      /\ Blank \in Statuses \cup {Blank}
  BY DEF Kinds, Columns, Cells
<1> QED BY <1>1, <1>2, <1>3, Blanks DEF NoJob, Job

LEMMA JobFields ==
  ASSUME NEW j \in Job
  PROVE  /\ j.id \in 0..MaxRequests /\ j.round \in RoundIds /\ j.sbd \in Students
         /\ j.column \in Columns /\ j.value \in Cells /\ j.row \in Row
         /\ j.status \in Statuses \cup {Blank} /\ j.patch \in Patch
         /\ j.factors \in Factors /\ j.next \in 1..(Len(Rounds) + 1)
         /\ j.found \in Row
BY DEF Job

\* The jobs that the handlers begin with.
LEMMA MadeJobs ==
  ASSUME NEW r \in RoundIds, NEW s \in Students
  PROVE  /\ \A c \in Columns, v \in Cells :
              [NoJob EXCEPT !.kind = "update", !.round = r, !.sbd = s,
                            !.column = c, !.value = v] \in Job
         /\ \A status \in Statuses, patch \in Patch :
              [NoJob EXCEPT !.kind = "upsert", !.sbd = s, !.status = status,
                            !.patch = patch] \in Job
         /\ [NoJob EXCEPT !.kind = "list"] \in Job
         /\ \A factors \in Factors :
              [NoJob EXCEPT !.kind = "download", !.round = r, !.sbd = s,
                            !.factors = factors] \in Job
<1> USE NoJobType
<1>1. \A c \in Columns, v \in Cells :
        [NoJob EXCEPT !.kind = "update", !.round = r, !.sbd = s,
                      !.column = c, !.value = v] \in Job
  BY DEF Job, Kinds
<1>2. \A status \in Statuses, patch \in Patch :
        [NoJob EXCEPT !.kind = "upsert", !.sbd = s, !.status = status,
                      !.patch = patch] \in Job
  BY DEF Job, Kinds
<1>3. [NoJob EXCEPT !.kind = "list"] \in Job
  BY DEF Job, Kinds
<1>4. \A factors \in Factors :
        [NoJob EXCEPT !.kind = "download", !.round = r, !.sbd = s,
                      !.factors = factors] \in Job
  BY DEF Job, Kinds
<1> QED BY <1>1, <1>2, <1>3, <1>4

\* The table types, as the provers are to see them.
Tables == [RoundIds -> Table]
CellsOf == [Students -> [Columns -> Cells]]
TablesOK ==
  /\ table \in Tables /\ shipments \in [Students -> Shipment]
  /\ last \in [cells: [RoundIds -> CellsOf], shipments: [Students -> Shipment]]
TrailOK ==
  /\ requests \in 0..MaxRequests
  /\ audit \subseteq Requests /\ queued \subseteq Requests /\ posted \subseteq Requests
  /\ answered \subseteq Requests
FlowOK == pc \in [Workers -> PCs] /\ job \in [Workers -> Job]

LEMMA TypeParts == TypeOK <=> TablesOK /\ TrailOK /\ FlowOK
BY DEF TypeOK, TablesOK, TrailOK, FlowOK, Tables, Table, CellsOf

LEMMA GotoEffect ==
  ASSUME FlowOK, NEW w \in Workers, NEW to \in PCs, Goto(w, to)
  PROVE  /\ FlowOK'
         /\ pc'[w] = to /\ (to # "idle" => job'[w] = job[w])
         /\ \A v \in Workers \ {w} : pc'[v] = pc[v] /\ job'[v] = job[v]
BY NoJobType DEF FlowOK, Goto

LEMMA BeginEffect ==
  ASSUME FlowOK, requests \in 0..MaxRequests,
         NEW w \in Workers, NEW to \in PCs, NEW j \in Job, Begin(w, to, j)
  PROVE  /\ FlowOK' /\ requests' \in 0..MaxRequests
         /\ pc'[w] = to /\ job'[w] = [j EXCEPT !.id = requests + 1]
         /\ requests + 1 \in Requests
         /\ \A v \in Workers \ {w} : pc'[v] = pc[v] /\ job'[v] = job[v]
<1>1. requests + 1 \in 0..MaxRequests /\ requests + 1 \in Requests
  BY RecordsAssumption DEF Begin, Requests
<1>2. [j EXCEPT !.id = requests + 1] \in Job
  BY <1>1 DEF Job
<1> QED BY <1>1, <1>2 DEF FlowOK, Begin
-----------------------------------------------------------------------------
(* Where a step leaves its worker.                                          *)

\* Worker w is left with its local invariant, the other workers as they were.
Moved(w) ==
  /\ FlowOK' /\ requests' \in 0..MaxRequests
  /\ LocalOK(pc'[w], job'[w], audit')
  /\ \A v \in Workers \ {w} : pc'[v] = pc[v] /\ job'[v] = job[v]

\* A new request of any kind; a download has matched no row yet.
LEMMA BeginMoves ==
  ASSUME FlowOK, requests \in 0..MaxRequests, NEW w \in Workers,
         NEW to \in {"select", "upsert", "scan", "search"}, NEW j \in Job, Begin(w, to, j),
         j.row = NoRow, j.found = NoRow
  PROVE  Moved(w)
<1>1. to \in PCs
  BY DEF PCs
<1>2. /\ FlowOK' /\ requests' \in 0..MaxRequests
      /\ pc'[w] = to /\ job'[w] = [j EXCEPT !.id = requests + 1]
      /\ requests + 1 \in Requests
      /\ \A v \in Workers \ {w} : pc'[v] = pc[v] /\ job'[v] = job[v]
  BY <1>1, BeginEffect
<1>3. job'[w].id = requests + 1 /\ job'[w].row = NoRow /\ job'[w].found = NoRow
  BY <1>2 DEF Job
<1>4. LocalOK(pc'[w], job'[w], audit')
  BY <1>2, <1>3 DEF LocalOK, SearchOK, Asked, NoRow
<1> QED BY <1>2, <1>4 DEF Moved

\* A request that goes on to a place where nothing but its number matters.
LEMMA GotoMoves ==
  ASSUME FlowOK, WorkersOK, requests \in 0..MaxRequests, UNCHANGED requests,
         NEW w \in Workers, NEW to \in PCs \ {"search", "render"}, Goto(w, to),
         pc[w] # "idle", to \in {"forward", "reply"} => job[w].id \in audit'
  PROVE  Moved(w)
<1>1. /\ FlowOK' /\ pc'[w] = to /\ (to # "idle" => job'[w] = job[w])
      /\ \A v \in Workers \ {w} : pc'[v] = pc[v] /\ job'[v] = job[v]
  BY GotoEffect
<1>2. job[w].id \in Requests
  BY DEF WorkersOK, LocalOK
<1>3. LocalOK(pc'[w], job'[w], audit')
  BY <1>1, <1>2 DEF LocalOK, SearchOK
<1> QED BY <1>1, <1>3 DEF Moved

\* A round's SELECT keeps what a download knows of its rows.
LEMMA SearchMoves ==
  ASSUME FlowOK, TablesOK, WorkersOK, requests \in 0..MaxRequests,
         NEW w \in Workers, SearchRound(w)
  PROVE  Moved(w)
<1> DEFINE j == job[w]
           r == Rounds[j.next]
           row == table[r][j.sbd]
           hit == Matches(row, j)
<1>1. j \in Job /\ pc[w] = "search" /\ j.next <= Len(Rounds)
  BY DEF FlowOK, SearchRound
<1>2. j.next \in 1..Len(Rounds) /\ j.next + 1 \in 1..(Len(Rounds) + 1) /\ r \in RoundIds
  BY <1>1, JobFields, RoundFacts
<1>3. row \in Row
  BY <1>1, <1>2, JobFields DEF TablesOK, Tables, Table
<1>4. PICK row1 \in {row, j.row}, found1 \in {row, j.found} :
        /\ job' = [job EXCEPT ![w] = [j EXCEPT !.next = j.next + 1, !.row = row1,
                                              !.found = found1]]
        /\ row1 = IF hit /\ ~j.row.there THEN row ELSE j.row
        /\ found1 = (IF hit /\ r = j.round /\ row.cells["result"] \in Results
                     THEN row ELSE j.found)
  BY Zenon DEF SearchRound
<1>5. row1 \in Row /\ found1 \in Row
  BY <1>1, <1>3, JobFields
<1>6. Asked(j.row, j) /\ Asked(j.found, j) /\ (j.found.there => j.row.there) /\ j.id \in Requests
  BY <1>1 DEF WorkersOK, LocalOK, SearchOK
<1>7. Asked(row1, j) /\ Asked(found1, j) /\ (found1.there => row1.there)
  BY <1>4, <1>6 DEF Matches, MatchPredicate, Asked
<1> DEFINE k == [j EXCEPT !.next = j.next + 1, !.row = row1, !.found = found1]
<1>8. /\ k \in Job /\ k.row = row1 /\ k.found = found1 /\ k.id = j.id
      /\ k.factors = j.factors
  <2> HIDE DEF j, r, row, hit
  <2> QED BY <1>1, <1>2, <1>5 DEF Job
<1>9. job' = [job EXCEPT ![w] = k]
  BY <1>4
<1> HIDE DEF j, k, r, row, hit
<1>10. LocalOK("search", k, audit')
  BY <1>6, <1>7, <1>8 DEF LocalOK, SearchOK, Asked
<1>11. pc' = pc /\ requests' = requests /\ pc[w] = "search"
  BY DEF SearchRound
<1>12. /\ job' \in [Workers -> Job] /\ job'[w] = k
       /\ \A v \in Workers \ {w} : job'[v] = job[v]
  BY <1>8, <1>9 DEF FlowOK
<1> QED BY <1>10, <1>11, <1>12 DEF Moved, FlowOK

LEMMA StepMoves ==
  ASSUME Inv, NEW w \in Workers, Step(w)
  PROVE  Moved(w)
<1>0. FlowOK /\ TablesOK /\ TrailOK /\ WorkersOK
  BY TypeParts DEF Inv
<1>1. requests \in 0..MaxRequests
  BY <1>0 DEF TrailOK
<1>2. \A j \in Job : j.id \in Nat
  BY JobFields, RecordsAssumption
<1> DEFINE Fresh(j) == j \in Job /\ j.row = NoRow /\ j.found = NoRow
<1>3. CASE StartUpdate(w)
  <2>1. PICK r \in RoundIds, s \in Students, c \in Columns, v \in Cells :
          Begin(w, "select", [NoJob EXCEPT !.kind = "update", !.round = r, !.sbd = s,
                                           !.column = c, !.value = v])
    BY <1>3 DEF StartUpdate
  <2> DEFINE j == [NoJob EXCEPT !.kind = "update", !.round = r, !.sbd = s,
                                !.column = c, !.value = v]
  <2>2. Fresh(j)
    <3>1. j \in Job
      BY MadeJobs
    <3>2. j.row = NoRow /\ j.found = NoRow
      BY DEF NoJob
    <3> QED BY <3>1, <3>2
  <2> HIDE DEF j
  <2> QED BY <1>0, <1>1, <2>1, <2>2, BeginMoves DEF j
<1>4. CASE UpdateSelect(w)
  <2>0. pc[w] = "select" /\ UNCHANGED <<requests, audit>>
    BY <1>4 DEF UpdateSelect, trail
  <2> DEFINE row == table[job[w].round][job[w].sbd]
             to == IF row.cells[job[w].column] = job[w].value THEN "log" ELSE "write"
  <2>1. CASE row.there
    <3>1. pc' = [pc EXCEPT ![w] = to] /\ job' = [job EXCEPT ![w].row = row]
      BY <1>4, <2>1 DEF UpdateSelect
    <3>2. job[w] \in Job /\ row \in Row
      BY <1>0, JobFields DEF FlowOK, TablesOK, Tables, Table
    <3>3. to \in {"log", "write"}
      OBVIOUS
    <3> HIDE DEF row, to
    <3>4. [job[w] EXCEPT !.row = row] \in Job /\ [job[w] EXCEPT !.row = row].id = job[w].id
      BY <3>2 DEF Job
    <3>5. FlowOK'
      BY <1>0, <3>1, <3>3, <3>4 DEF FlowOK, PCs
    <3>6. job[w].id \in Requests
      BY <1>0, <2>0 DEF WorkersOK, LocalOK
    <3>7. pc'[w] = to /\ job'[w].id = job[w].id
      BY <1>0, <3>1, <3>4 DEF FlowOK
    <3>8. LocalOK(pc'[w], job'[w], audit')
      BY <3>3, <3>6, <3>7 DEF LocalOK, SearchOK
    <3>9. \A v \in Workers \ {w} : pc'[v] = pc[v] /\ job'[v] = job[v]
      BY <1>0, <3>1 DEF FlowOK
    <3> QED BY <1>1, <2>0, <3>5, <3>8, <3>9 DEF Moved
  <2>2. CASE ~row.there
    <3>1. Goto(w, "idle")
      BY <1>4, <2>2 DEF UpdateSelect
    <3> QED BY <1>0, <1>1, <2>0, <3>1, GotoMoves DEF PCs
  <2> QED BY <2>1, <2>2
<1>5. CASE StartUpsert(w)
  <2>1. PICK s \in Students, status \in Statuses, patch \in Patch :
          Begin(w, "upsert", [NoJob EXCEPT !.kind = "upsert", !.sbd = s, !.status = status,
                                           !.patch = patch])
    BY <1>5 DEF StartUpsert
  <2> DEFINE j == [NoJob EXCEPT !.kind = "upsert", !.sbd = s, !.status = status,
                                !.patch = patch]
  <2>2. Fresh(j)
    <3>1. j \in Job
      BY MadeJobs, RoundFacts
    <3>2. j.row = NoRow /\ j.found = NoRow
      BY DEF NoJob
    <3> QED BY <3>1, <3>2
  <2> HIDE DEF j
  <2> QED BY <1>0, <1>1, <2>1, <2>2, BeginMoves DEF j
<1>6. CASE StartList(w)
  <2> DEFINE j == [NoJob EXCEPT !.kind = "list"]
  <2>1. Begin(w, "scan", j)
    BY <1>6 DEF StartList
  <2>2. Fresh(j)
    <3>1. j \in Job
      BY MadeJobs, RoundFacts, RecordsAssumption
    <3>2. j.row = NoRow /\ j.found = NoRow
      BY DEF NoJob
    <3> QED BY <3>1, <3>2
  <2> HIDE DEF j
  <2> QED BY <1>0, <1>1, <2>1, <2>2, BeginMoves
<1>7. CASE StartDownload(w)
  <2>1. PICK r \in RoundIds, s \in Students, factors \in Factors :
          Begin(w, "search", [NoJob EXCEPT !.kind = "download", !.round = r, !.sbd = s,
                                           !.factors = factors])
    BY <1>7 DEF StartDownload
  <2> DEFINE j == [NoJob EXCEPT !.kind = "download", !.round = r, !.sbd = s,
                                !.factors = factors]
  <2>2. Fresh(j)
    <3>1. j \in Job
      BY MadeJobs
    <3>2. j.row = NoRow /\ j.found = NoRow
      BY DEF NoJob
    <3> QED BY <3>1, <3>2
  <2> HIDE DEF j
  <2> QED BY <1>0, <1>1, <2>1, <2>2, BeginMoves DEF j
<1>8. CASE UpdateWrite(w) \/ Upsert(w) \/ Scan(w)
  <2>1. /\ pc[w] \in {"write", "upsert", "scan"} /\ Goto(w, "log")
        /\ UNCHANGED requests
    BY <1>8 DEF UpdateWrite, Upsert, Scan
  <2> QED BY <1>0, <1>1, <2>1, GotoMoves DEF PCs
<1>9. CASE Log(w)
  <2>1. /\ pc[w] = "log" /\ Goto(w, "forward") /\ job[w].id \in audit'
        /\ UNCHANGED requests
    BY <1>9 DEF Log
  <2> QED BY <1>0, <1>1, <2>1, GotoMoves DEF PCs
<1>10. CASE Forward(w)
  <2>1. /\ pc[w] = "forward" /\ Goto(w, "reply") /\ UNCHANGED <<requests, audit>>
    BY <1>10 DEF Forward
  <2>2. job[w].id \in audit'
    BY <1>0, <2>1 DEF WorkersOK, LocalOK
  <2> QED BY <1>0, <1>1, <2>1, <2>2, GotoMoves DEF PCs
<1>11. CASE Reply(w) \/ Render(w) \/ Abandon(w)
  <2>1. /\ pc[w] # "idle" /\ Goto(w, "idle") /\ UNCHANGED requests
    BY <1>11 DEF Reply, Render, Abandon
  <2> QED BY <1>0, <1>1, <2>1, GotoMoves DEF PCs
<1>12. CASE SearchRound(w)
  BY <1>0, <1>1, <1>12, SearchMoves
<1>13. CASE Pick(w)
  <2>1. pc[w] = "search" /\ UNCHANGED <<requests, audit>>
    BY <1>13 DEF Pick, trail
  <2>2. CASE ~job[w].found.there
    <3>1. Goto(w, "idle")
      BY <1>13, <2>2 DEF Pick
    <3> QED BY <1>0, <1>1, <2>1, <3>1, GotoMoves DEF PCs
  <2>3. CASE job[w].found.there
    <3>1. Goto(w, "render") /\ "render" \in PCs
      BY <1>13, <2>3 DEF Pick, PCs
    <3>2. /\ FlowOK' /\ pc'[w] = "render" /\ job'[w] = job[w]
          /\ \A v \in Workers \ {w} : pc'[v] = pc[v] /\ job'[v] = job[v]
      BY <1>0, <3>1, GotoEffect
    <3>3. LocalOK("search", job[w], audit)
      BY <1>0, <2>1 DEF WorkersOK
    <3>4. LocalOK("render", job[w], audit')
      BY <2>3, <3>3 DEF LocalOK, SearchOK
    <3> QED BY <1>1, <2>1, <3>2, <3>4 DEF Moved
  <2> QED BY <2>2, <2>3
<1> QED BY <1>3, <1>4, <1>5, <1>6, <1>7, <1>8, <1>9, <1>10, <1>11, <1>12, <1>13 DEF Step
-----------------------------------------------------------------------------
(* The tables and what the last request put there.                          *)

LEMMA IngestEdits ==
  ASSUME TablesOK, EditsStand, Ingest
  PROVE  TablesOK' /\ EditsStand'
<1>1. PICK r \in RoundIds, file \in Sources, policy \in Policies :
        /\ table' = [table EXCEPT ![r] = Ingested(@, file, policy)]
        /\ last' = [last EXCEPT !.cells[r] = [s \in Students |->
                      IF Sets(file, r, s, policy) THEN Says(file, s, policy) ELSE @[s]]]
        /\ UNCHANGED shipments
  BY DEF Ingest
<1> DEFINE u == Ingested(table[r], file, policy)
           said == [s \in Students |-> IF Sets(file, r, s, policy) THEN Says(file, s, policy)
                                                                   ELSE last.cells[r][s]]
<1>2. table[r] \in Table /\ file \in Seq(SourceRow)
  BY RecordsAssumption DEF TablesOK, Tables
<1>3. u \in Table
  BY <1>2, IngestedSays
<1>4. \A s \in Students :
        u[s].cells = IF RowsOf(file, s) # {} /\ (policy = "replace" \/ ~table[r][s].there)
                     THEN Says(file, s, policy) ELSE table[r][s].cells
  BY <1>2, IngestedSays
<1>5. \A s \in Students : u[s].cells = said[s]
  BY <1>4 DEF Sets, EditsStand
<1>6. \A s \in Students : u[s].cells \in [Columns -> Cells]
  BY <1>3 DEF Table, Row
<1>7. said \in CellsOf
  <2> HIDE DEF u
  <2> QED BY <1>5, <1>6 DEF CellsOf
<1>8. table' = [table EXCEPT ![r] = u] /\ last' = [last EXCEPT !.cells[r] = said]
  BY <1>1
<1> HIDE DEF u, said
<1>9. TablesOK'
  BY <1>1, <1>3, <1>7, <1>8 DEF TablesOK, Tables
<1>10. last'.cells = [last.cells EXCEPT ![r] = said] /\ last'.shipments = last.shipments
  BY <1>8 DEF TablesOK
<1>11. EditsStand'
  BY <1>1, <1>5, <1>8, <1>10 DEF EditsStand, TablesOK, Tables
<1> QED BY <1>9, <1>11

LEMMA UpdateEdits ==
  ASSUME FlowOK, TablesOK, EditsStand, NEW w \in Workers, UpdateWrite(w)
  PROVE  TablesOK' /\ EditsStand'
<1> DEFINE j == job[w]
           row == table[j.round][j.sbd]
           wrote == [row.cells EXCEPT ![j.column] = j.value]
<1>1. j.round \in RoundIds /\ j.sbd \in Students /\ j.column \in Columns /\ j.value \in Cells
  BY JobFields DEF FlowOK
<1>2. row \in Row
  BY <1>1 DEF TablesOK, Tables, Table
<1>3. wrote \in [Columns -> Cells]
  BY <1>1, <1>2 DEF Row
<1>4. Updated(row, j) \in Row /\ Updated(row, j).cells = wrote
  BY <1>1, <1>2, <1>3 DEF Row, Updated
<1>5. /\ table' = [table EXCEPT ![j.round][j.sbd] = Updated(row, j)]
      /\ last' = [last EXCEPT !.cells[j.round][j.sbd][j.column] = j.value]
      /\ UNCHANGED shipments
  BY DEF UpdateWrite
<1>6. last.cells[j.round][j.sbd] = row.cells
  BY <1>1 DEF EditsStand
<1>7. last' = [last EXCEPT !.cells[j.round][j.sbd] = wrote]
  BY <1>5, <1>6
<1> DEFINE v == Updated(row, j)
<1>8. v \in Row /\ v.cells = wrote /\ table' = [table EXCEPT ![j.round][j.sbd] = v]
  BY <1>4, <1>5
<1> HIDE DEF v, wrote, row, j
<1> DEFINE cells == [last.cells EXCEPT ![j.round][j.sbd] = wrote]
<1>9. table' \in Tables
  BY <1>1, <1>8 DEF TablesOK, Tables, Table
<1>10. /\ last'.cells = cells /\ last'.shipments = last.shipments
       /\ last' = [last EXCEPT !.cells = cells]
  BY <1>7 DEF TablesOK
<1>11. cells \in [RoundIds -> CellsOf]
  <2>1. last.cells \in [RoundIds -> CellsOf]
    BY DEF TablesOK
  <2> QED BY <1>1, <1>3, <2>1 DEF CellsOf
<1>12. TablesOK'
  <2> HIDE DEF cells
  <2> QED BY <1>5, <1>9, <1>10, <1>11 DEF TablesOK
<1>13. ASSUME NEW q \in RoundIds, NEW s \in Students
       PROVE  table'[q][s].cells = last'.cells[q][s]
  <2>1. /\ table'[q][s] = IF q = j.round /\ s = j.sbd THEN v ELSE table[q][s]
        /\ last'.cells[q][s] = IF q = j.round /\ s = j.sbd THEN wrote ELSE last.cells[q][s]
    BY <1>1, <1>8, <1>10 DEF TablesOK, Tables, Table, CellsOf
  <2>2. table[q][s].cells = last.cells[q][s]
    BY DEF EditsStand
  <2> QED BY <1>8, <2>1, <2>2
<1>14. shipments' = last'.shipments
  BY <1>5, <1>10 DEF EditsStand
<1> QED BY <1>12, <1>13, <1>14 DEF EditsStand

LEMMA UpsertEdits ==
  ASSUME FlowOK, TablesOK, EditsStand, NEW w \in Workers, Upsert(w)
  PROVE  TablesOK' /\ EditsStand'
<1> DEFINE j == job[w]
           record == shipments[j.sbd]
           new == Patched(record, j.status, j.patch)
<1>1. j.sbd \in Students /\ j.status \in Statuses \cup {Blank} /\ j.patch \in Patch
  BY JobFields DEF FlowOK
<1>2. record \in Shipment /\ last.shipments = shipments
  BY <1>1 DEF TablesOK, EditsStand
<1>3. new \in Shipment
  BY <1>1, <1>2 DEF Patched, Shipment, Patch
<1>4. shipments' = [shipments EXCEPT ![j.sbd] = new] /\ UNCHANGED table
  BY DEF Upsert
<1>5. last' = [last EXCEPT !.shipments[j.sbd] = new]
  <2>1. last' = [last EXCEPT !.shipments[j.sbd] =
          [there |-> TRUE, status |-> j.status,
           fields |-> [f \in Fields |-> IF f \in {g \in Fields : j.patch[g] # Keep}
                                       THEN j.patch[f] ELSE record.fields[f]]]]
    BY <1>2 DEF Upsert
  <2>2. [f \in Fields |-> IF f \in {g \in Fields : j.patch[g] # Keep}
                         THEN j.patch[f] ELSE record.fields[f]]
        = [f \in Fields |-> IF j.patch[f] = Keep THEN record.fields[f] ELSE j.patch[f]]
    OBVIOUS
  <2> QED BY <2>1, <2>2 DEF Patched
<1> HIDE DEF new, record, j
<1>6. TablesOK'
  BY <1>1, <1>3, <1>4, <1>5 DEF TablesOK
<1>7. last'.shipments = [last.shipments EXCEPT ![j.sbd] = new] /\ last'.cells = last.cells
  BY <1>5 DEF TablesOK
<1> QED BY <1>2, <1>4, <1>6, <1>7 DEF EditsStand

LEMMA StepEdits ==
  ASSUME FlowOK, TablesOK, EditsStand, NEW w \in Workers, Step(w)
  PROVE  TablesOK' /\ EditsStand'
<1>1. CASE UpdateWrite(w)
  BY <1>1, UpdateEdits
<1>2. CASE Upsert(w)
  BY <1>2, UpsertEdits
<1>3. CASE UNCHANGED tables
  BY <1>3 DEF tables, TablesOK, EditsStand
<1> QED BY <1>1, <1>2, <1>3
        DEF Step, StartUpdate, UpdateSelect, StartUpsert, StartList, Scan, Log, Forward, Reply,
            StartDownload, SearchRound, Pick, Render, Abandon

-----------------------------------------------------------------------------
(* The trail and the certificates.                                          *)

LEMMA StepTrail ==
  ASSUME Inv, NEW w \in Workers, Step(w), requests' \in 0..MaxRequests
  PROVE  TrailOK' /\ TrailIsComplete' /\ audit \subseteq audit'
<1>1. TrailOK /\ TrailIsComplete /\ LocalOK(pc[w], job[w], audit)
  BY TypeParts DEF Inv, WorkersOK
<1>2. CASE Log(w)
  <2>1. job[w].id \in Requests
    BY <1>1, <1>2 DEF Log, LocalOK
  <2> QED BY <1>1, <1>2, <2>1 DEF Log, TrailOK, TrailIsComplete, outside
<1>3. CASE Forward(w)
  <2>1. job[w].id \in Requests /\ job[w].id \in audit
    BY <1>1, <1>3 DEF Forward, LocalOK
  <2> QED BY <1>1, <1>3, <2>1 DEF Forward, TrailOK, TrailIsComplete, outside
<1>4. CASE Reply(w)
  <2>1. job[w].id \in Requests /\ job[w].id \in audit
    BY <1>1, <1>4 DEF Reply, LocalOK
  <2> QED BY <1>1, <1>4, <2>1 DEF Reply, TrailOK, TrailIsComplete, trail
<1>5. CASE UNCHANGED <<trail, answered>>
  BY <1>1, <1>5 DEF TrailOK, TrailIsComplete, trail
<1> QED BY <1>2, <1>3, <1>4, <1>5
        DEF Step, StartUpdate, UpdateSelect, UpdateWrite, StartUpsert, Upsert, StartList, Scan,
            StartDownload, SearchRound, Pick, Render, Abandon, outside

LEMMA StepPrints ==
  ASSUME FlowOK, WorkersOK, PrintedRowIsOwners, NEW w \in Workers, Step(w)
  PROVE  PrintedRowIsOwners'
<1>1. CASE Render(w)
  <2> DEFINE j == job[w]
             c == [given |-> DOMAIN j.factors, cells |-> j.row.cells,
                   owner |-> j.found.cells]
  <2>1. LocalOK("render", j, audit)
    BY <1>1 DEF Render, WorkersOK
  <2>2. \A col \in DOMAIN j.factors : j.row.cells[col] = j.found.cells[col]
    BY <2>1 DEF LocalOK, SearchOK, Asked
  <2>3. c.given = DOMAIN j.factors /\ c.cells = j.row.cells /\ c.owner = j.found.cells
    OBVIOUS
  <2>4. printed' = printed \cup {c}
    BY <1>1 DEF Render
  <2> HIDE DEF c, j
  <2> QED BY <2>2, <2>3, <2>4 DEF PrintedRowIsOwners
<1>2. CASE UNCHANGED printed
  BY <1>2 DEF PrintedRowIsOwners
<1> QED BY <1>1, <1>2
        DEF Step, StartUpdate, UpdateSelect, UpdateWrite, StartUpsert, Upsert, StartList, Scan,
            Log, Forward, Reply, StartDownload, SearchRound, Pick, Abandon, outside

-----------------------------------------------------------------------------
\* A part of the invariant stands while its variables do.
LEMMA Kept ==
  /\ TablesOK /\ EditsStand /\ UNCHANGED tables => TablesOK' /\ EditsStand'
  /\ TrailOK /\ TrailIsComplete /\ requests' \in 0..MaxRequests /\ UNCHANGED <<trail, answered>>
       => TrailOK' /\ TrailIsComplete'
  /\ FlowOK /\ WorkersOK /\ UNCHANGED <<pc, job, audit>> => FlowOK' /\ WorkersOK'
  /\ PrintedRowIsOwners /\ UNCHANGED printed => PrintedRowIsOwners'
<1>1. TablesOK /\ EditsStand /\ UNCHANGED tables => TablesOK' /\ EditsStand'
  BY DEF tables, TablesOK, EditsStand
<1>2. TrailOK /\ TrailIsComplete /\ requests' \in 0..MaxRequests /\ UNCHANGED <<trail, answered>>
        => TrailOK' /\ TrailIsComplete'
  BY DEF trail, TrailOK, TrailIsComplete
<1>3. FlowOK /\ WorkersOK /\ UNCHANGED <<pc, job, audit>> => FlowOK' /\ WorkersOK'
  BY DEF FlowOK, WorkersOK
<1>4. PrintedRowIsOwners /\ UNCHANGED printed => PrintedRowIsOwners'
  BY DEF PrintedRowIsOwners
<1> QED BY <1>1, <1>2, <1>3, <1>4

LEMMA InitInv == Init => Inv
<1> SUFFICES ASSUME Init PROVE Inv
  OBVIOUS
<1>1. PICK first \in [RoundIds -> Sources] :
        table = [r \in RoundIds |-> Ingested(EmptyTable, first[r], "warn")]
  BY DEF Init
<1>2. \A r \in RoundIds : Ingested(EmptyTable, first[r], "warn") \in Table
  <2> TAKE r \in RoundIds
  <2>1. first[r] \in Seq(SourceRow)
    BY RecordsAssumption
  <2> QED BY <2>1, Blanks, IngestedSays
<1>3. table \in Tables
  BY <1>1, <1>2 DEF Tables
<1>4. \A r \in RoundIds, s \in Students : table[r][s].cells \in [Columns -> Cells]
  BY <1>3 DEF Tables, Table, Row
<1>5. shipments \in [Students -> Shipment]
  BY Blanks DEF Init
<1>6. /\ last.cells = [r \in RoundIds |-> [s \in Students |-> table[r][s].cells]]
      /\ last.shipments = shipments
      /\ last \in [cells: [RoundIds -> CellsOf], shipments: [Students -> Shipment]]
  BY <1>4, <1>5 DEF Init, CellsOf
<1>7. TablesOK /\ EditsStand
  BY <1>3, <1>5, <1>6 DEF TablesOK, EditsStand
<1>8. TrailOK /\ TrailIsComplete /\ PrintedRowIsOwners
  BY RecordsAssumption DEF Init, TrailOK, TrailIsComplete, PrintedRowIsOwners
<1>9. FlowOK /\ WorkersOK
  BY NoJobType DEF Init, FlowOK, PCs, WorkersOK, LocalOK, SearchOK
<1> QED BY <1>7, <1>8, <1>9, TypeParts DEF Inv

LEMMA NextInv == Inv /\ [Next]_vars => Inv'
<1> SUFFICES ASSUME Inv, [Next]_vars PROVE Inv'
  OBVIOUS
<1>0. /\ TablesOK /\ TrailOK /\ FlowOK /\ WorkersOK
      /\ EditsStand /\ TrailIsComplete /\ PrintedRowIsOwners
      /\ requests \in 0..MaxRequests
  BY TypeParts DEF Inv, TrailOK
<1>1. ASSUME TablesOK', TrailOK', FlowOK', WorkersOK',
             EditsStand', TrailIsComplete', PrintedRowIsOwners'
      PROVE  Inv'
  <2>1. TypeOK'
    BY <1>1, TypeParts, PTL
  <2> QED BY <1>1, <2>1 DEF Inv
<1>2. ASSUME NEW w \in Workers, Step(w) PROVE Inv'
  <2>1. Moved(w)
    BY <1>2, StepMoves
  <2>2. TablesOK' /\ EditsStand'
    BY <1>0, <1>2, StepEdits
  <2>3. TrailOK' /\ TrailIsComplete' /\ audit \subseteq audit'
    BY <1>2, <2>1, StepTrail DEF Moved
  <2>4. PrintedRowIsOwners'
    BY <1>0, <1>2, StepPrints
  <2>5. WorkersOK'
    BY <1>0, <2>1, <2>3 DEF WorkersOK, Moved, LocalOK
  <2> QED BY <1>1, <2>1, <2>2, <2>3, <2>4, <2>5 DEF Moved
<1>3. CASE Ingest
  <2>1. TablesOK' /\ EditsStand'
    BY <1>0, <1>3, IngestEdits
  <2>2. /\ UNCHANGED <<trail, answered>> /\ UNCHANGED <<pc, job, audit>> /\ UNCHANGED printed
        /\ requests' \in 0..MaxRequests
    BY <1>0, <1>3, RecordsAssumption DEF Ingest, trail, outside
  <2> QED BY <1>0, <1>1, <2>1, <2>2, Kept
<1>4. CASE Post
  <2>1. /\ UNCHANGED tables /\ UNCHANGED <<pc, job, audit>> /\ UNCHANGED printed
        /\ UNCHANGED <<requests, answered>>
    BY <1>4 DEF Post, outside
  <2>2. TrailOK' /\ TrailIsComplete'
    BY <1>0, <1>4, <2>1 DEF Post, TrailOK, TrailIsComplete
  <2> QED BY <1>0, <1>1, <2>1, <2>2, Kept
<1>5. CASE Crash
  <2>1. FlowOK' /\ WorkersOK'
    BY <1>5, NoJobType DEF Crash, FlowOK, PCs, WorkersOK, LocalOK, SearchOK
  <2>2. UNCHANGED tables /\ UNCHANGED printed /\ UNCHANGED <<requests, audit, posted, answered>>
    BY <1>5 DEF Crash, outside
  <2>3. TrailOK' /\ TrailIsComplete'
    BY <1>0, <1>5, <2>2 DEF Crash, TrailOK, TrailIsComplete
  <2> QED BY <1>0, <1>1, <2>1, <2>2, <2>3, Kept
<1>6. CASE UNCHANGED vars
  <2>1. /\ UNCHANGED tables /\ UNCHANGED <<trail, answered>> /\ UNCHANGED <<pc, job, audit>>
        /\ UNCHANGED printed /\ UNCHANGED requests
    BY <1>6 DEF vars, trail, outside
  <2> QED BY <1>0, <1>1, <2>1, Kept
<1> QED BY <1>2, <1>3, <1>4, <1>5, <1>6 DEF Next

LEMMA Invariance == Spec => []Inv
BY InitInv, NextInv, PTL DEF Spec

\* The variables of Records keep their types.
THEOREM TypeCorrect == Spec => []TypeOK
<1>1. Inv => TypeOK
  BY DEF Inv
<1> QED BY <1>1, Invariance, PTL

\* No edit of update_student_field, ingest_rows or upsert_shipment is lost, for
\* any source files and any number of requests at once.
THEOREM NoEditLost == Spec => []EditsStand
<1>1. Inv => EditsStand
  BY DEF Inv
<1> QED BY <1>1, Invariance, PTL

\* log_admin_action commits its row before the answer or the webhook leaves.
THEOREM TrailComplete == Spec => []TrailIsComplete
<1>1. Inv => TrailIsComplete
  BY DEF Inv
<1> QED BY <1>1, Invariance, PTL

\* search_student matches every row it takes: what a student gave to be found, the
\* name unless the mode is sbd_phone, is the same in the row whose columns are
\* printed and in the row whose result is printed.
THEOREM FactorsAgree == Spec => []PrintedRowIsOwners
<1>1. Inv => PrintedRowIsOwners
  BY DEF Inv
<1> QED BY <1>1, Invariance, PTL
=============================================================================
