-------------------------- MODULE CommandLine_proofs --------------------------
(***************************************************************************)
(* Theorems about what a process of lvt-cert may do, for any threads,      *)
(* keys, students, files and bounds.  Each part of a process keeps its own *)
(* invariant, and the other parts leave its variables alone.               *)
(***************************************************************************)
EXTENDS CommandLine, FiniteSetTheorems, SequenceTheorems, TLAPS
-----------------------------------------------------------------------------
(* init: the proofs of ProjectInit, for the variables it has here.          *)

Runner == INSTANCE ProjectInit_proofs WITH stage <- initStage

LEMMA RunsDistinct == Runner!Distinct
BY CommandLineAssumption
   DEF Runner!Distinct, Runner!User, Runner!Nobody, Project!User, Project!Nobody

LEMMA SameInit == Project!Init => Runner!Init
BY DEF Project!Init, Project!None, Project!Nobody, Runner!Init, Runner!None, Runner!Nobody

LEMMA SameNext == Project!Next => Runner!Next
BY DEF Project!Next, Project!Use, Project!Step, Project!Look, Project!Refuse, Project!MakeStaging,
       Project!Write, Project!Validate, Project!AllWritten, Project!Place, Project!Removable,
       Project!Rename, Project!RenamesOnto, Project!Fail, Project!Cleaned, Project!Kill,
       Project!Goto, Project!None, Project!Nobody, Project!User, Project!Failed,
       Runner!Next, Runner!Use, Runner!Step, Runner!Look, Runner!Refuse, Runner!MakeStaging,
       Runner!Write, Runner!Validate, Runner!AllWritten, Runner!Place, Runner!Removable,
       Runner!Rename, Runner!RenamesOnto, Runner!Fail, Runner!Cleaned, Runner!Kill,
       Runner!Goto, Runner!None, Runner!Nobody, Runner!User, Runner!Failed

LEMMA InitProject == ASSUME [CliNext]_cliVars PROVE [Runner!Next]_(Runner!vars)
<1>1. CASE RunInit
  BY <1>1, SameNext DEF RunInit
<1>2. CASE ~RunInit
  <2>1. UNCHANGED initVars
    BY <1>2 DEF CliNext, cliVars, Dev, Dispatch, ServeFile, ServeRest, RunImport
  <2>2. QED BY <2>1 DEF initVars, Runner!vars
<1>3. QED BY <1>1, <1>2

LEMMA ProjectInvariant == CliSpec => []Runner!Inv
<1>1. CliInit => Runner!Inv
  BY SameInit, RunsDistinct, Runner!InitInv DEF CliInit
<1>2. Runner!Inv /\ [CliNext]_cliVars => Runner!Inv'
  BY InitProject, RunsDistinct, Runner!NextInv
<1>3. QED BY <1>1, <1>2, PTL DEF CliSpec

LEMMA ProjectWhole == ASSUME Runner!Inv PROVE Project!TargetWhole /\ Project!NothingLeftBehind
<1>1. Project!TargetWhole
  BY DEF Runner!Inv, Runner!TargetWhole, Runner!OfScaffold, Project!TargetWhole, Project!OfScaffold
<1>2. Project!NothingLeftBehind
  BY DEF Runner!Inv, Runner!StagingOK, Runner!Failed, Runner!None, Runner!Nobody,
         Project!NothingLeftBehind, Project!Failed, Project!None, Project!Nobody
<1>3. QED BY <1>1, <1>2
-----------------------------------------------------------------------------
(* import-shipments and the route of the portal.                            *)

\* Nobody gets further than the checks without the right to; the upload is there
\* while it is needed; what was written is a whole import that was asked for.
ImportInv ==
  /\ importStage \notin {"idle", "asked", "refused"} => Shipments!MayImport(request)
  /\ temp => importStage \in {"importing", "logging", "closing", "killed"}
  /\ history # {} => importStage \in {"logging", "closing", "answered", "failed", "killed"}
  /\ Shipments!WrittenByRight

LEMMA InitImport == ASSUME [CliNext]_cliVars PROVE [Shipments!Go]_importVars
BY DEF CliNext, cliVars, Dev, Dispatch, ServeFile, ServeRest, RunInit, RunImport

LEMMA GoInv == ASSUME ImportInv, Shipments!Go PROVE ImportInv'
<1> USE DEF ImportInv, Shipments!MayImport, Shipments!WrittenByRight
<1>1. CASE Shipments!Ask
  BY <1>1 DEF Shipments!Ask, Shipments!vars, Shipments!loop
<1>2. CASE Shipments!Refuse
  BY <1>2 DEF Shipments!Refuse, Shipments!vars, Shipments!loop
<1>3. CASE Shipments!Accept
  BY <1>3 DEF Shipments!Accept, Shipments!vars, Shipments!loop
<1>4. CASE Shipments!Import
  BY <1>4 DEF Shipments!Import, Shipments!entry
<1>5. CASE Shipments!Insert
  BY <1>5 DEF Shipments!Insert, Shipments!InsertedRow, Shipments!vars, Shipments!loop
<1>6. CASE Shipments!Commit
  BY <1>6 DEF Shipments!Commit, Shipments!WantsCommit, Shipments!vars, Shipments!loop
<1>7. CASE Shipments!Log
  BY <1>7 DEF Shipments!Log, Shipments!vars, Shipments!loop
<1>8. CASE Shipments!Abort
  BY <1>8 DEF Shipments!Abort, Shipments!KeptFile
<1>9. CASE Shipments!FailToLog
  BY <1>9 DEF Shipments!FailToLog, Shipments!KeptFile, Shipments!vars, Shipments!loop
<1>10. CASE Shipments!Close
  BY <1>10 DEF Shipments!Close, Shipments!KeptFile, Shipments!vars, Shipments!loop
<1>11. CASE Shipments!Kill
  BY <1>11 DEF Shipments!Kill, Shipments!vars, Shipments!loop
<1>12. QED BY <1>1, <1>2, <1>3, <1>4, <1>5, <1>6, <1>7, <1>8, <1>9, <1>10, <1>11
           DEF Shipments!Go

LEMMA ImportInvariant == CliSpec => []ImportInv
<1>1. CliInit => ImportInv
  BY DEF CliInit, Shipments!Begin, ImportInv, Shipments!WrittenByRight
<1>2. ImportInv /\ [CliNext]_cliVars => ImportInv'
  <2> SUFFICES ASSUME ImportInv, [CliNext]_cliVars PROVE ImportInv'
    OBVIOUS
  <2>1. CASE Shipments!Go
    BY <2>1, GoInv
  <2>2. CASE UNCHANGED importVars
    BY <2>2 DEF importVars, ImportInv, Shipments!MayImport, Shipments!WrittenByRight
  <2>3. QED BY <2>1, <2>2, InitImport
<1>3. QED BY <1>1, <1>2, PTL DEF CliSpec

\* What fails, is interrupted or races another leaves nothing half done: init its
\* scaffold, the import its rows and its upload (init_project, _admin_shipments_import).
THEOREM NothingIsHalfDone == CliSpec => []NothingHalfDone
<1>1. ImportInv => Shipments!WrittenByRight /\ Shipments!NoTempLeft
  BY DEF ImportInv, Shipments!NoTempLeft
<1>2. Runner!Inv /\ ImportInv => NothingHalfDone
  BY <1>1, ProjectWhole DEF NothingHalfDone
<1>3. QED BY <1>2, ProjectInvariant, ImportInvariant, PTL

\* No run of init takes a file out of its target (_place and os.rename).
THEOREM NoFileLost == CliSpec => FilesStay
<1>1. ASSUME Runner!Inv, [CliNext]_cliVars
      PROVE  [target \ Project!None \subseteq target']_target
  <2> USE DEF Runner!None, Runner!Nobody, Project!None, Project!Nobody
  <2>1. CASE UNCHANGED Runner!vars
    BY <2>1 DEF Runner!vars
  <2>2. CASE Runner!Use
    BY <2>2 DEF Runner!Use
  <2>3. ASSUME NEW r \in Runs, Runner!Step(r)
        PROVE  target \ Project!None \subseteq target' \/ UNCHANGED target
    BY <2>3 DEF Runner!Step, Runner!Look, Runner!Refuse, Runner!MakeStaging, Runner!Write,
                Runner!Validate, Runner!Place, Runner!Removable, Runner!Rename,
                Runner!RenamesOnto, Runner!Fail, Runner!Kill
  <2>4. QED BY <1>1, <2>1, <2>2, <2>3, InitProject DEF Runner!Next
<1>2. QED BY <1>1, ProjectInvariant, PTL DEF CliSpec, FilesStay, Project!FilesStay
-----------------------------------------------------------------------------
(* The rows of a carrier import.                                            *)

CanImport(row) ==
  row.code # Shipments!NoCode /\ row.status # "skipped" /\ row.phone # Shipments!NoPhone
FirstIn(sh, i) ==
  CanImport(sh[i]) /\ \A j \in 1..(i - 1) : CanImport(sh[j]) => sh[j].code # sh[i].code
Repeats(sh) ==
  {i \in 1..Len(sh) : \E j \in 1..(i - 1) : FirstIn(sh, j) /\ sh[j].code = sh[i].code}

Number(cell) == Shipments!NormalizePhone(cell)
SbdsIn(rd, cell) == {s \in Students : rd[s] # Shipments!NoPhone /\ Number(rd[s]) = Number(cell)}
Row == [sbd: Students, code: Codes, success: BOOLEAN]
RowsFor(rd, row) ==
  {[sbd |-> s, code |-> row.code, success |-> Shipments!IsSuccess(row.status)] :
     s \in SbdsIn(rd, row.phone)}
Whys == {"noTracking", "prefix", "noPhone"}

\* What the loop has made of the rows sh that it read: the codes se it has seen are
\* those of rows that may be imported, each has a first row, and what is to be
\* inserted are the rows of these; the counters account for every row.
SheetTypes(sh, se, ins, sk) ==
  sh \in Seq(Shipments!SheetRow) /\ se \subseteq Codes /\ ins \in Seq(Row) /\ sk \in [Whys -> Nat]
SeenOK(sh, se) ==
  /\ \A c : c \in se => \E i \in 1..Len(sh) : FirstIn(sh, i) /\ sh[i].code = c
  /\ \A i \in 1..Len(sh) : CanImport(sh[i]) => sh[i].code \in se
InsertedOK(sh, ins, rd) ==
  /\ \A r : r \in Shipments!ToSet(ins) <=> \E i \in 1..Len(sh) : FirstIn(sh, i) /\ r \in RowsFor(rd, sh[i])
  /\ \A i, j \in 1..Len(ins) : ins[i].sbd = ins[j].sbd /\ ins[i].code = ins[j].code => i = j
CountsOK(sh, se, sk) ==
  /\ IsFiniteSet(se)
  /\ Len(sh) = sk.noTracking + sk.prefix + sk.noPhone + Cardinality(se) + Cardinality(Repeats(sh))
AccountedOK(sh, se, ins, un) ==
  \A c \in se : \/ \E i \in 1..Len(ins) : ins[i].code = c
                \/ \E i \in 1..Len(sh) : FirstIn(sh, i) /\ sh[i].code = c /\ Number(sh[i].phone) \in un
SheetOK(sh, se, ins, un, sk, rd) ==
  /\ SheetTypes(sh, se, ins, sk) /\ SeenOK(sh, se) /\ InsertedOK(sh, ins, rd)
  /\ CountsOK(sh, se, sk) /\ AccountedOK(sh, se, ins, un)
-----------------------------------------------------------------------------
\* One more row: the earlier ones stay first or not, and the new one is first when it
\* may be imported and its code was not seen.
MoreOf(sh, se, row, sh2) ==
  /\ sh2 \in Seq(Shipments!SheetRow) /\ Len(sh2) = Len(sh) + 1 /\ Len(sh) \in Nat
  /\ \A i \in 1..Len(sh) : sh2[i] = sh[i]
  /\ sh2[Len(sh) + 1] = row
  /\ \A i \in 1..Len(sh2) : i = Len(sh) + 1 \/ i \in 1..Len(sh)
  /\ \A i \in 1..Len(sh) : FirstIn(sh2, i) <=> FirstIn(sh, i)
  /\ FirstIn(sh2, Len(sh) + 1) <=> CanImport(row) /\ row.code \notin se
  /\ IsFiniteSet(Repeats(sh)) /\ Len(sh) + 1 \notin Repeats(sh)
  /\ Repeats(sh2) = IF row.code \in se THEN Repeats(sh) \cup {Len(sh) + 1} ELSE Repeats(sh)

LEMMA OneMore ==
  ASSUME NEW sh \in Seq(Shipments!SheetRow), NEW se, SeenOK(sh, se), NEW row \in Shipments!SheetRow,
         NEW sh2, sh2 = Append(sh, row)
  PROVE  MoreOf(sh, se, row, sh2)
<1> DEFINE n == Len(sh)
<1>1. /\ sh2 \in Seq(Shipments!SheetRow) /\ Len(sh2) = n + 1 /\ n \in Nat
      /\ \A i \in 1..n : sh2[i] = sh[i]
      /\ sh2[n + 1] = row
  OBVIOUS
<1> HIDE DEF n
<1>2. \A i \in 1..Len(sh2) : i = n + 1 \/ i \in 1..n
  BY <1>1
<1>3. ASSUME NEW i \in 1..n PROVE FirstIn(sh2, i) <=> FirstIn(sh, i)
  <2>1. \A j \in 1..(i - 1) : j \in 1..n
    BY <1>1
  <2>2. \A j \in 1..(i - 1) : sh2[j] = sh[j]
    BY <1>1, <2>1
  <2>3. sh2[i] = sh[i]
    BY <1>1
  <2>4. QED BY <2>2, <2>3 DEF FirstIn
<1>4. \A i \in 1..n : FirstIn(sh, i) => sh[i].code \in se
  BY DEF FirstIn, SeenOK, n
<1>5. FirstIn(sh2, n + 1) <=> CanImport(row) /\ row.code \notin se
  <2>1. (n + 1) - 1 = n
    BY <1>1
  <2>2. FirstIn(sh2, n + 1) <=>
          CanImport(row) /\ \A j \in 1..n : CanImport(sh2[j]) => sh2[j].code # row.code
    BY <1>1, <2>1 DEF FirstIn
  <2>3. FirstIn(sh2, n + 1) <=>
          CanImport(row) /\ \A j \in 1..n : CanImport(sh[j]) => sh[j].code # row.code
    BY <1>1, <2>2
  <2>4. row.code \in se => \E j \in 1..n : CanImport(sh[j]) /\ sh[j].code = row.code
    BY DEF SeenOK, FirstIn, n
  <2>5. \A j \in 1..n : CanImport(sh[j]) /\ sh[j].code = row.code => row.code \in se
    BY DEF SeenOK, n
  <2>6. QED BY <2>3, <2>4, <2>5
<1>6. IsFiniteSet(Repeats(sh)) /\ n + 1 \notin Repeats(sh)
  <2>1. Repeats(sh) \subseteq 1..n
    BY DEF Repeats, n
  <2>2. IsFiniteSet(1..n)
    BY <1>1, FS_Interval
  <2>3. QED BY <1>1, <2>1, <2>2, FS_Subset
<1>7. ASSUME NEW i \in 1..n PROVE i \in Repeats(sh2) <=> i \in Repeats(sh)
  <2>1. \A j \in 1..(i - 1) : j \in 1..n
    BY <1>1
  <2>2. \A j \in 1..(i - 1) : sh2[j] = sh[j] /\ (FirstIn(sh2, j) <=> FirstIn(sh, j))
    BY <1>1, <1>3, <2>1
  <2>3. sh2[i] = sh[i] /\ i \in 1..Len(sh2)
    BY <1>1
  <2>4. QED BY <2>2, <2>3 DEF Repeats, n
<1>8. n + 1 \in Repeats(sh2) <=> row.code \in se
  <2>1. (n + 1) - 1 = n /\ n + 1 \in 1..Len(sh2)
    BY <1>1
  <2>2. n + 1 \in Repeats(sh2) <=> \E j \in 1..n : FirstIn(sh2, j) /\ sh2[j].code = row.code
    BY <1>1, <2>1 DEF Repeats
  <2>3. n + 1 \in Repeats(sh2) <=> \E j \in 1..n : FirstIn(sh, j) /\ sh[j].code = row.code
    BY <1>1, <1>3, <2>2
  <2>4. QED BY <1>4, <2>3 DEF SeenOK, n
<1>9. Repeats(sh2) = IF row.code \in se THEN Repeats(sh) \cup {n + 1} ELSE Repeats(sh)
  <2>1. Repeats(sh2) \subseteq 1..Len(sh2) /\ Repeats(sh) \subseteq 1..n
    BY DEF Repeats, n
  <2>2. \A i : i \in Repeats(sh2) <=> i \in Repeats(sh) \/ (i = n + 1 /\ row.code \in se)
    BY <1>2, <1>6, <1>7, <1>8, <2>1
  <2>3. row.code \in se => Repeats(sh2) = Repeats(sh) \cup {n + 1}
    BY <2>2
  <2>4. row.code \notin se => Repeats(sh2) = Repeats(sh)
    BY <2>2
  <2>5. QED BY <2>3, <2>4
<1>10. QED BY <1>1, <1>2, <1>3, <1>5, <1>6, <1>9 DEF n, MoreOf

\* A row that is skipped.
LEMMA RowSkipped ==
  ASSUME NEW sh, NEW se, NEW ins, NEW un, NEW sk, NEW rd, SheetOK(sh, se, ins, un, sk, rd),
         NEW row \in Shipments!SheetRow, NEW sh2, sh2 = Append(sh, row), NEW sk2 \in [Whys -> Nat],
         \/ row.code \in se /\ sk2 = sk
         \/ /\ row.code \notin se /\ ~CanImport(row)
            /\ sk2.noTracking + sk2.prefix + sk2.noPhone = sk.noTracking + sk.prefix + sk.noPhone + 1
  PROVE  SheetOK(sh2, se, ins, un, sk2, rd)
<1>0. /\ SheetTypes(sh, se, ins, sk) /\ SeenOK(sh, se) /\ InsertedOK(sh, ins, rd)
      /\ CountsOK(sh, se, sk) /\ AccountedOK(sh, se, ins, un)
  BY DEF SheetOK
<1>10. sh \in Seq(Shipments!SheetRow)
  BY <1>0 DEF SheetTypes
<1> DEFINE n == Len(sh)
<1>1. /\ sh2 \in Seq(Shipments!SheetRow) /\ Len(sh2) = n + 1 /\ n \in Nat
      /\ \A i \in 1..n : sh2[i] = sh[i]
      /\ sh2[n + 1] = row
      /\ \A i \in 1..Len(sh2) : i = n + 1 \/ i \in 1..n
      /\ \A i \in 1..n : FirstIn(sh2, i) <=> FirstIn(sh, i)
      /\ FirstIn(sh2, n + 1) <=> CanImport(row) /\ row.code \notin se
      /\ IsFiniteSet(Repeats(sh)) /\ n + 1 \notin Repeats(sh)
      /\ Repeats(sh2) = IF row.code \in se THEN Repeats(sh) \cup {n + 1} ELSE Repeats(sh)
  <2>1. MoreOf(sh, se, row, sh2)
    BY <1>0, <1>10, OneMore
  <2>2. QED BY <2>1 DEF MoreOf
<1> HIDE DEF n
<1>2. ~FirstIn(sh2, n + 1)
  BY <1>1
<1>3. \A i \in 1..n : i \in 1..Len(sh2)
  BY <1>1
<1>4. SheetTypes(sh2, se, ins, sk2)
  BY <1>0, <1>1 DEF SheetTypes
<1>5. SeenOK(sh2, se)
  <2>1. ASSUME NEW c \in se PROVE \E i \in 1..Len(sh2) : FirstIn(sh2, i) /\ sh2[i].code = c
    <3>1. PICK i \in 1..n : FirstIn(sh, i) /\ sh[i].code = c
      BY <1>0 DEF SeenOK, n
    <3>2. QED BY <1>1, <1>3, <3>1
  <2>2. \A i \in 1..n : CanImport(sh[i]) => sh[i].code \in se
    BY <1>0 DEF SeenOK, n
  <2>3. \A i \in 1..Len(sh2) : CanImport(sh2[i]) => sh2[i].code \in se
    BY <1>1, <2>2
  <2>4. QED BY <2>1, <2>3 DEF SeenOK
<1>6. InsertedOK(sh2, ins, rd)
  <2>1. ASSUME NEW r
        PROVE  (\E i \in 1..Len(sh2) : FirstIn(sh2, i) /\ r \in RowsFor(rd, sh2[i])) <=>
               \E i \in 1..n : FirstIn(sh, i) /\ r \in RowsFor(rd, sh[i])
    BY <1>1, <1>2, <1>3
  <2>2. QED BY <1>0, <2>1 DEF InsertedOK, n
<1>7. CountsOK(sh2, se, sk2)
  <2>1. /\ IsFiniteSet(se) /\ Cardinality(se) \in Nat /\ Cardinality(Repeats(sh)) \in Nat
        /\ n = sk.noTracking + sk.prefix + sk.noPhone + Cardinality(se) + Cardinality(Repeats(sh))
    BY <1>0, <1>1, FS_CardinalityType DEF CountsOK, n
  <2>2. Cardinality(Repeats(sh) \cup {n + 1}) = Cardinality(Repeats(sh)) + 1
    BY <1>1, FS_AddElement
  <2>3. /\ {sk.noTracking, sk.prefix, sk.noPhone} \subseteq Nat
        /\ {sk2.noTracking, sk2.prefix, sk2.noPhone} \subseteq Nat
    BY <1>0 DEF SheetTypes, Whys
  <2>4. PICK a, b, x, y : /\ a = sk.noTracking + sk.prefix + sk.noPhone
                          /\ b = sk2.noTracking + sk2.prefix + sk2.noPhone
                          /\ x = Cardinality(se) /\ y = Cardinality(Repeats(sh))
    OBVIOUS
  <2>5. a \in Nat /\ b \in Nat /\ x \in Nat /\ y \in Nat /\ n = a + x + y
    <3>1. /\ sk.noTracking \in Nat /\ sk.prefix \in Nat /\ sk.noPhone \in Nat
          /\ sk2.noTracking \in Nat /\ sk2.prefix \in Nat /\ sk2.noPhone \in Nat
      BY <2>3
    <3>2. a \in Nat /\ b \in Nat
      BY <2>4, <3>1
    <3>3. n = a + Cardinality(se) + Cardinality(Repeats(sh))
      BY <2>1, <2>4
    <3>4. QED BY <2>1, <2>4, <3>2, <3>3
  <2>6. CASE row.code \in se
    <3>1. Cardinality(Repeats(sh2)) = y + 1 /\ b = a
      BY <1>1, <2>2, <2>4, <2>6
    <3>2. Len(sh2) = b + x + Cardinality(Repeats(sh2))
      BY <1>1, <2>5, <3>1
    <3>3. QED BY <2>1, <2>4, <3>2 DEF CountsOK
  <2>7. CASE row.code \notin se
    <3>1. Cardinality(Repeats(sh2)) = y /\ b = a + 1
      BY <1>1, <2>4, <2>7
    <3>2. Len(sh2) = b + x + Cardinality(Repeats(sh2))
      BY <1>1, <2>5, <3>1
    <3>3. QED BY <2>1, <2>4, <3>2 DEF CountsOK
  <2>8. QED BY <2>6, <2>7
<1>8. AccountedOK(sh2, se, ins, un)
  <2>1. ASSUME NEW c \in se, NEW i \in 1..n, FirstIn(sh, i), sh[i].code = c, Number(sh[i].phone) \in un
        PROVE  \E j \in 1..Len(sh2) : FirstIn(sh2, j) /\ sh2[j].code = c /\ Number(sh2[j].phone) \in un
    BY <1>1, <1>3, <2>1
  <2>2. QED BY <1>0, <2>1 DEF AccountedOK, n
<1>9. QED BY <1>4, <1>5, <1>6, <1>7, <1>8 DEF SheetOK

\* Each row of a finite set of rows is listed once.
LEMMA RowsListed ==
  ASSUME NEW S, IsFiniteSet(S)
  PROVE  LET q == Shipments!SetToSeq(S)
         IN /\ q \in Seq(S) /\ Shipments!ToSet(q) = S
            /\ \A i, j \in 1..Len(q) : q[i] = q[j] => i = j
<1> DEFINE m == Cardinality(S)
           q == Shipments!SetToSeq(S)
<1>1. m \in Nat /\ ExistsBijection(1..m, S)
  BY FS_CardinalityType
<1>2. PICK g : g \in Bijection(1..m, S)
  BY <1>1 DEF ExistsBijection
<1>3. g \in [1..m -> S] /\ Shipments!IsInjective(g)
  BY <1>2 DEF Bijection, Injection, IsInjective, Shipments!IsInjective
<1>4. Shipments!Cardinality(S) = m
  BY DEF Shipments!Cardinality, Cardinality
<1>5. q \in [1..m -> S] /\ Shipments!IsInjective(q)
  BY <1>3, <1>4 DEF Shipments!SetToSeq
<1>6. q \in Injection(1..m, S)
  BY <1>5 DEF Injection, IsInjective, Shipments!IsInjective
<1>7. IsFiniteSet(1..m) /\ Cardinality(1..m) = m
  BY <1>1, FS_Interval
<1>8. q \in Surjection(1..m, S)
  BY <1>6, <1>7, FS_Injection
<1> HIDE DEF q
<1>9. S = {q[i] : i \in DOMAIN q}
  BY <1>5, <1>8 DEF Surjection
<1>10. q \in Seq(S) /\ Len(q) = m
  BY <1>1, <1>5
<1>11. Shipments!ToSet(q) = S
  BY <1>9 DEF Shipments!ToSet
<1>12. \A i, j \in 1..Len(q) : q[i] = q[j] => i = j
  BY <1>5, <1>10 DEF Shipments!IsInjective
<1>13. QED BY <1>10, <1>11, <1>12 DEF q

\* The rows of one row of the sheet, one for each student with its phone.
LEMMA RowsOfOne ==
  ASSUME NEW rd, NEW row \in Shipments!SheetRow, CanImport(row)
  PROVE  /\ IsFiniteSet(RowsFor(rd, row)) /\ RowsFor(rd, row) \subseteq Row /\ row.code \in Codes
         /\ \A r \in RowsFor(rd, row) : r.code = row.code
         /\ \A r, p \in RowsFor(rd, row) : r.sbd = p.sbd => r = p
         /\ RowsFor(rd, row) = {} <=> SbdsIn(rd, row.phone) = {}
<1>1. row.code \in Codes
  BY DEF CanImport, Shipments!SheetRow
<1>2. SbdsIn(rd, row.phone) \subseteq Students /\ IsFiniteSet(SbdsIn(rd, row.phone))
  BY CommandLineAssumption, FS_Subset DEF SbdsIn
<1>3. IsFiniteSet(RowsFor(rd, row))
  <2> DEFINE f == [s \in SbdsIn(rd, row.phone) |->
                     [sbd |-> s, code |-> row.code, success |-> Shipments!IsSuccess(row.status)]]
  <2>1. RowsFor(rd, row) = {f[s] : s \in SbdsIn(rd, row.phone)}
    BY DEF RowsFor
  <2>2. f \in Surjection(SbdsIn(rd, row.phone), RowsFor(rd, row))
    BY <2>1 DEF Surjection
  <2>3. QED BY <1>2, <2>2, FS_Surjection
<1>4. Shipments!IsSuccess(row.status) \in BOOLEAN
  BY DEF Shipments!IsSuccess
<1>5. RowsFor(rd, row) \subseteq Row
  BY <1>1, <1>2, <1>4 DEF RowsFor, Row
<1>6. \A r \in RowsFor(rd, row) : r.code = row.code
  BY DEF RowsFor
<1>7. \A r, p \in RowsFor(rd, row) : r.sbd = p.sbd => r = p
  BY DEF RowsFor
<1>8. RowsFor(rd, row) = {} <=> SbdsIn(rd, row.phone) = {}
  BY DEF RowsFor
<1>9. QED BY <1>1, <1>3, <1>5, <1>6, <1>7, <1>8

\* A row that is taken.
LEMMA RowTaken ==
  ASSUME NEW sh, NEW se, NEW ins, NEW un, NEW sk, NEW rd, SheetOK(sh, se, ins, un, sk, rd),
         NEW row \in Shipments!SheetRow, NEW sh2, sh2 = Append(sh, row),
         CanImport(row), row.code \notin se,
         NEW ins2, ins2 = ins \o Shipments!SetToSeq(RowsFor(rd, row)),
         NEW un2, un \subseteq un2, SbdsIn(rd, row.phone) = {} => Number(row.phone) \in un2
  PROVE  SheetOK(sh2, se \cup {row.code}, ins2, un2, sk, rd)
<1>0. /\ SheetTypes(sh, se, ins, sk) /\ SeenOK(sh, se) /\ InsertedOK(sh, ins, rd)
      /\ CountsOK(sh, se, sk) /\ AccountedOK(sh, se, ins, un)
  BY DEF SheetOK
<1>1. sh \in Seq(Shipments!SheetRow) /\ ins \in Seq(Row)
  BY <1>0 DEF SheetTypes
<1> DEFINE n == Len(sh)
           new == RowsFor(rd, row)
           q == Shipments!SetToSeq(new)
<1>2. /\ sh2 \in Seq(Shipments!SheetRow) /\ Len(sh2) = n + 1 /\ n \in Nat
      /\ \A i \in 1..n : sh2[i] = sh[i]
      /\ sh2[n + 1] = row
      /\ \A i \in 1..Len(sh2) : i = n + 1 \/ i \in 1..n
      /\ \A i \in 1..n : FirstIn(sh2, i) <=> FirstIn(sh, i)
      /\ FirstIn(sh2, n + 1) /\ IsFiniteSet(Repeats(sh))
      /\ Repeats(sh2) = Repeats(sh)
  <2>1. MoreOf(sh, se, row, sh2)
    BY <1>0, <1>1, OneMore
  <2>2. QED BY <2>1 DEF MoreOf
<1>3. /\ IsFiniteSet(new) /\ new \subseteq Row /\ row.code \in Codes
      /\ \A r \in new : r.code = row.code
      /\ \A r, p \in new : r.sbd = p.sbd => r = p
      /\ new = {} <=> SbdsIn(rd, row.phone) = {}
  BY RowsOfOne
<1>4. q \in Seq(new) /\ Shipments!ToSet(q) = new /\ \A i, j \in 1..Len(q) : q[i] = q[j] => i = j
  BY <1>3, RowsListed
<1> HIDE DEF n, new, q
<1>5. q \in Seq(Row)
  BY <1>3, <1>4
<1>6. /\ ins2 \in Seq(Row) /\ Len(ins2) = Len(ins) + Len(q) /\ Len(ins) \in Nat /\ Len(q) \in Nat
      /\ \A i \in 1..Len(ins) : ins2[i] = ins[i]
      /\ \A i \in 1..Len(q) : ins2[Len(ins) + i] = q[i]
      /\ \A i \in 1..Len(ins2) : i \in 1..Len(ins) \/ (i - Len(ins) \in 1..Len(q) /\ ins2[i] = q[i - Len(ins)])
      /\ DOMAIN ins2 = 1..Len(ins2) /\ DOMAIN ins = 1..Len(ins) /\ DOMAIN q = 1..Len(q)
  <2>1. ins2 = ins \o q
    BY DEF q, new
  <2>2. QED BY <1>1, <1>5, <2>1
<1>7. \A i \in 1..n : i \in 1..Len(sh2)
  BY <1>2
<1>8. n + 1 \in 1..Len(sh2)
  BY <1>2
<1>9. SheetTypes(sh2, se \cup {row.code}, ins2, sk)
  BY <1>0, <1>2, <1>3, <1>6 DEF SheetTypes
<1>10. SeenOK(sh2, se \cup {row.code})
  <2>1. ASSUME NEW c \in se PROVE \E i \in 1..Len(sh2) : FirstIn(sh2, i) /\ sh2[i].code = c
    <3>1. PICK i \in 1..n : FirstIn(sh, i) /\ sh[i].code = c
      BY <1>0 DEF SeenOK, n
    <3>2. QED BY <1>2, <1>7, <3>1
  <2>2. \E i \in 1..Len(sh2) : FirstIn(sh2, i) /\ sh2[i].code = row.code
    BY <1>2, <1>8
  <2>3. \A i \in 1..n : CanImport(sh[i]) => sh[i].code \in se
    BY <1>0 DEF SeenOK, n
  <2>4. \A i \in 1..Len(sh2) : CanImport(sh2[i]) => sh2[i].code \in se \cup {row.code}
    BY <1>2, <2>3
  <2>5. QED BY <2>1, <2>2, <2>4 DEF SeenOK
<1>11. \A r : r \in Shipments!ToSet(ins2) <=> r \in Shipments!ToSet(ins) \/ r \in new
  <2>1. ASSUME NEW r \in Shipments!ToSet(ins2) PROVE r \in Shipments!ToSet(ins) \/ r \in new
    <3>1. PICK i \in 1..Len(ins2) : r = ins2[i]
      BY <1>6 DEF Shipments!ToSet
    <3>2. CASE i \in 1..Len(ins)
      BY <1>6, <3>1, <3>2 DEF Shipments!ToSet
    <3>3. CASE i - Len(ins) \in 1..Len(q) /\ ins2[i] = q[i - Len(ins)]
      BY <1>4, <1>6, <3>1, <3>3
    <3>4. QED BY <1>6, <3>2, <3>3
  <2>2. ASSUME NEW r \in Shipments!ToSet(ins) PROVE r \in Shipments!ToSet(ins2)
    <3>1. PICK i \in 1..Len(ins) : r = ins[i]
      BY <1>6 DEF Shipments!ToSet
    <3>2. i \in 1..Len(ins2) /\ ins2[i] = r
      BY <1>6, <3>1
    <3>3. QED BY <1>6, <3>2 DEF Shipments!ToSet
  <2>3. ASSUME NEW r \in new PROVE r \in Shipments!ToSet(ins2)
    <3>1. PICK i \in 1..Len(q) : r = q[i]
      BY <1>4, <1>6 DEF Shipments!ToSet
    <3>2. Len(ins) + i \in 1..Len(ins2) /\ ins2[Len(ins) + i] = r
      BY <1>6, <3>1
    <3>3. QED BY <1>6, <3>2 DEF Shipments!ToSet
  <2>4. QED BY <2>1, <2>2, <2>3
<1>12. InsertedOK(sh2, ins2, rd)
  <2>1. ASSUME NEW r
        PROVE  r \in Shipments!ToSet(ins2) <=> \E i \in 1..Len(sh2) : FirstIn(sh2, i) /\ r \in RowsFor(rd, sh2[i])
    <3>1. r \in Shipments!ToSet(ins) <=> \E i \in 1..n : FirstIn(sh, i) /\ r \in RowsFor(rd, sh[i])
      BY <1>0 DEF InsertedOK, n
    <3>2. (\E i \in 1..Len(sh2) : FirstIn(sh2, i) /\ r \in RowsFor(rd, sh2[i])) <=>
          (\E i \in 1..n : FirstIn(sh, i) /\ r \in RowsFor(rd, sh[i])) \/ r \in new
      <4>1. r \in new <=> r \in RowsFor(rd, sh2[n + 1])
        BY <1>2 DEF new
      <4>2. QED BY <1>2, <1>7, <1>8, <4>1
    <3>3. QED BY <1>11, <3>1, <3>2
  <2>2. \A i \in 1..Len(ins) : ins[i].code \in se
    <3>1. ASSUME NEW i \in 1..Len(ins) PROVE ins[i].code \in se
      <4>1. ins[i] \in Shipments!ToSet(ins)
        BY <1>6 DEF Shipments!ToSet
      <4>2. PICK j \in 1..n : FirstIn(sh, j) /\ ins[i] \in RowsFor(rd, sh[j])
        BY <1>0, <4>1 DEF InsertedOK, n
      <4>3. ins[i].code = sh[j].code
        BY <4>2 DEF RowsFor
      <4>4. CanImport(sh[j])
        BY <4>2 DEF FirstIn
      <4>5. QED BY <1>0, <4>3, <4>4 DEF SeenOK, n
    <3>2. QED BY <3>1
  <2>3. \A i \in 1..Len(q) : q[i] \in new
    BY <1>4, <1>6 DEF Shipments!ToSet
  <2>4. \A i, j \in 1..Len(ins) : ins[i].sbd = ins[j].sbd /\ ins[i].code = ins[j].code => i = j
    BY <1>0 DEF InsertedOK
  <2>5. ASSUME NEW i \in 1..Len(ins2), NEW j \in 1..Len(ins2),
               ins2[i].sbd = ins2[j].sbd, ins2[i].code = ins2[j].code
        PROVE  i = j
    <3>1. CASE i \in 1..Len(ins) /\ j \in 1..Len(ins)
      BY <1>6, <2>4, <2>5, <3>1
    <3>2. ASSUME NEW k \in 1..Len(ins2), k \notin 1..Len(ins)
          PROVE  ins2[k].code = row.code /\ k - Len(ins) \in 1..Len(q) /\ ins2[k] = q[k - Len(ins)] /\ ins2[k] \in new
      BY <1>3, <1>6, <2>3, <3>2
    <3>3. \A k \in 1..Len(ins) : ins2[k].code # row.code
      BY <1>6, <2>2
    <3>4. CASE i \notin 1..Len(ins) /\ j \notin 1..Len(ins)
      <4>1. q[i - Len(ins)] = q[j - Len(ins)]
        BY <1>3, <2>5, <3>2, <3>4
      <4>2. i - Len(ins) = j - Len(ins)
        BY <1>4, <3>2, <3>4, <4>1
      <4>3. QED BY <1>6, <4>2
    <3>5. QED BY <2>5, <3>1, <3>2, <3>3, <3>4
  <2>6. QED BY <2>1, <2>5 DEF InsertedOK
<1>13. CountsOK(sh2, se \cup {row.code}, sk)
  <2>1. /\ IsFiniteSet(se) /\ Cardinality(se) \in Nat /\ Cardinality(Repeats(sh)) \in Nat
        /\ n = sk.noTracking + sk.prefix + sk.noPhone + Cardinality(se) + Cardinality(Repeats(sh))
    BY <1>0, <1>2, FS_CardinalityType DEF CountsOK, n
  <2>2. IsFiniteSet(se \cup {row.code}) /\ Cardinality(se \cup {row.code}) = Cardinality(se) + 1
    BY <2>1, FS_AddElement
  <2>3. sk.noTracking \in Nat /\ sk.prefix \in Nat /\ sk.noPhone \in Nat
    BY <1>0 DEF SheetTypes, Whys
  <2>4. PICK a, x, y : /\ a = sk.noTracking + sk.prefix + sk.noPhone
                       /\ x = Cardinality(se) /\ y = Cardinality(Repeats(sh))
    OBVIOUS
  <2>5. a \in Nat /\ x \in Nat /\ y \in Nat
    <3>1. a \in Nat
      BY <2>3, <2>4
    <3>2. x \in Nat /\ y \in Nat
      BY <2>1, <2>4
    <3>3. QED BY <3>1, <3>2
  <2>6. n = a + x + y
    BY <2>1, <2>4
  <2>7. Len(sh2) = a + (x + 1) + y
    BY <1>2, <2>5, <2>6
  <2>8. QED BY <1>2, <2>2, <2>4, <2>7 DEF CountsOK
<1>14. AccountedOK(sh2, se \cup {row.code}, ins2, un2)
  <2>1. ASSUME NEW c \in se
        PROVE  \/ \E i \in 1..Len(ins2) : ins2[i].code = c
               \/ \E i \in 1..Len(sh2) : FirstIn(sh2, i) /\ sh2[i].code = c /\ Number(sh2[i].phone) \in un2
    <3>1. CASE \E i \in 1..Len(ins) : ins[i].code = c
      <4>1. PICK i \in 1..Len(ins) : ins[i].code = c
        BY <3>1
      <4>2. i \in 1..Len(ins2) /\ ins2[i].code = c
        BY <1>6, <4>1
      <4>3. QED BY <4>2
    <3>2. CASE \E i \in 1..n : FirstIn(sh, i) /\ sh[i].code = c /\ Number(sh[i].phone) \in un
      BY <1>2, <1>7, <3>2
    <3>3. QED BY <1>0, <3>1, <3>2 DEF AccountedOK, n
  <2>2. \/ \E i \in 1..Len(ins2) : ins2[i].code = row.code
        \/ \E i \in 1..Len(sh2) : FirstIn(sh2, i) /\ sh2[i].code = row.code /\ Number(sh2[i].phone) \in un2
    <3>1. CASE SbdsIn(rd, row.phone) = {}
      BY <1>2, <1>8, <3>1
    <3>2. CASE SbdsIn(rd, row.phone) # {}
      <4>1. PICK r \in new : r.code = row.code
        BY <1>3, <3>2
      <4>2. r \in Shipments!ToSet(ins2)
        BY <1>11
      <4>3. PICK i \in 1..Len(ins2) : ins2[i] = r
        BY <1>6, <4>2 DEF Shipments!ToSet
      <4>4. QED BY <4>1, <4>3
    <3>3. QED BY <3>1, <3>2
  <2>3. \A c \in se \cup {row.code} :
          \/ \E i \in 1..Len(ins2) : ins2[i].code = c
          \/ \E i \in 1..Len(sh2) : FirstIn(sh2, i) /\ sh2[i].code = c /\ Number(sh2[i].phone) \in un2
    <3>1. SUFFICES ASSUME NEW c \in se \cup {row.code}
                   PROVE  \/ \E i \in 1..Len(ins2) : ins2[i].code = c
                          \/ \E i \in 1..Len(sh2) : FirstIn(sh2, i) /\ sh2[i].code = c /\ Number(sh2[i].phone) \in un2
      OBVIOUS
    <3>2. CASE c \in se
      BY <2>1, <3>2
    <3>3. CASE c = row.code
      BY <2>2, <3>3
    <3>4. QED BY <3>2, <3>3
  <2>4. QED BY <2>3 DEF AccountedOK
<1>15. QED BY <1>9, <1>10, <1>12, <1>13, <1>14 DEF SheetOK

\* The loop starts with nothing, in whatever state the table of students is.
NoCounts == [noTracking |-> 0, prefix |-> 0, noPhone |-> 0]
SheetInv ==
  /\ phones \in [Students -> Shipments!PhoneCells] /\ read \in [Students -> Shipments!PhoneCells]
  /\ importPc = "start" =>
       sheet = <<>> /\ seen = {} /\ toInsert = <<>> /\ unmatched = {} /\ skipped = NoCounts
  /\ SheetOK(sheet, seen, toInsert, unmatched, skipped, read)

LEMMA NoRows == ASSUME NEW rd PROVE SheetOK(<<>>, {}, <<>>, {}, NoCounts, rd)
<1>1. NoCounts \in [Whys -> Nat]
  BY DEF NoCounts, Whys
<1>2. SheetTypes(<<>>, {}, <<>>, NoCounts)
  BY <1>1 DEF SheetTypes
<1>3. SeenOK(<<>>, {})
  BY DEF SeenOK
<1>4. InsertedOK(<<>>, <<>>, rd)
  BY DEF InsertedOK, Shipments!ToSet
<1>5. CountsOK(<<>>, {}, NoCounts)
  <2>1. Repeats(<<>>) = {}
    BY DEF Repeats
  <2>2. IsFiniteSet({}) /\ Cardinality({}) = 0
    BY FS_EmptySet
  <2>3. PICK d : d = Cardinality(Repeats(<<>>))
    OBVIOUS
  <2>4. d = 0
    BY <2>1, <2>2, <2>3
  <2>5. PICK e : e = Cardinality({})
    OBVIOUS
  <2>6. e = 0
    BY <2>2, <2>5
  <2>7. Len(<<>>) = NoCounts.noTracking + NoCounts.prefix + NoCounts.noPhone + e + d
    BY <2>4, <2>6 DEF NoCounts
  <2>8. QED BY <2>2, <2>3, <2>5, <2>7 DEF CountsOK
<1>6. AccountedOK(<<>>, {}, <<>>, {})
  BY DEF AccountedOK
<1>7. QED BY <1>2, <1>3, <1>4, <1>5, <1>6 DEF SheetOK

\* Every branch of the loop keeps the account.
LEMMA RowRead ==
  ASSUME SheetInv, Shipments!ReadRow
  PROVE  SheetOK(sheet', seen', toInsert', unmatched', skipped', read')
<1>1. PICK row \in Shipments!SheetRow :
        /\ sheet' = Append(sheet, row)
        /\ \/ Shipments!SkipNoTracking(row) \/ Shipments!SkipRepeated(row) \/ Shipments!SkipPrefix(row)
           \/ Shipments!SkipNoPhone(row) \/ Shipments!Take(row)
  BY DEF Shipments!ReadRow
<1>2. SheetOK(sheet, seen, toInsert, unmatched, skipped, read) /\ read' = read
  BY DEF SheetInv, Shipments!ReadRow
<1>3. skipped \in [Whys -> Nat] /\ seen \subseteq Codes
      /\ \A c \in seen : c # Shipments!NoCode
  BY <1>2 DEF SheetOK, SheetTypes, SeenOK, FirstIn, CanImport
<1>4. ASSUME NEW why \in Whys, skipped' = [skipped EXCEPT ![why] = @ + 1]
      PROVE  /\ skipped' \in [Whys -> Nat]
             /\ skipped'.noTracking + skipped'.prefix + skipped'.noPhone
                  = skipped.noTracking + skipped.prefix + skipped.noPhone + 1
  <2>1. skipped' \in [Whys -> Nat]
    BY <1>3, <1>4
  <2>2. /\ skipped["noTracking"] \in Nat /\ skipped["prefix"] \in Nat /\ skipped["noPhone"] \in Nat
        /\ why \in {"noTracking", "prefix", "noPhone"}
    BY <1>3 DEF Whys
  <2>3. /\ skipped'["noTracking"] = IF why = "noTracking" THEN skipped["noTracking"] + 1 ELSE skipped["noTracking"]
        /\ skipped'["prefix"] = IF why = "prefix" THEN skipped["prefix"] + 1 ELSE skipped["prefix"]
        /\ skipped'["noPhone"] = IF why = "noPhone" THEN skipped["noPhone"] + 1 ELSE skipped["noPhone"]
    BY <1>3, <1>4 DEF Whys
  <2>4. skipped'["noTracking"] + skipped'["prefix"] + skipped'["noPhone"]
          = skipped["noTracking"] + skipped["prefix"] + skipped["noPhone"] + 1
    BY <2>2, <2>3
  <2>5. QED BY <2>1, <2>4
<1>5. ASSUME NEW why \in Whys, skipped' = [skipped EXCEPT ![why] = @ + 1], ~CanImport(row),
             row.code \notin seen, UNCHANGED <<seen, toInsert, unmatched>>
      PROVE  SheetOK(sheet', seen', toInsert', unmatched', skipped', read')
  <2>1. /\ skipped' \in [Whys -> Nat]
        /\ skipped'.noTracking + skipped'.prefix + skipped'.noPhone
             = skipped.noTracking + skipped.prefix + skipped.noPhone + 1
    BY <1>4, <1>5
  <2>2. SheetOK(sheet', seen, toInsert, unmatched, skipped', read)
    BY <1>1, <1>2, <1>5, <2>1, RowSkipped
  <2>3. QED BY <1>2, <1>5, <2>2
<1>6. CASE Shipments!SkipNoTracking(row)
  <2>1. /\ skipped' = [skipped EXCEPT !["noTracking"] = @ + 1] /\ row.code = Shipments!NoCode
        /\ UNCHANGED <<seen, toInsert, unmatched>>
    BY <1>6 DEF Shipments!SkipNoTracking, Shipments!Count, Shipments!Skip
  <2>2. ~CanImport(row) /\ row.code \notin seen /\ "noTracking" \in Whys
    BY <1>3, <2>1 DEF CanImport, Whys
  <2>3. QED BY <1>5, <2>1, <2>2
<1>7. CASE Shipments!SkipRepeated(row)
  <2>1. row.code \in seen /\ UNCHANGED <<seen, toInsert, unmatched, skipped>>
    BY <1>7 DEF Shipments!SkipRepeated, Shipments!Repeated, Shipments!Skip
  <2>2. SheetOK(sheet', seen, toInsert, unmatched, skipped, read)
    BY <1>1, <1>2, <1>3, <2>1, RowSkipped
  <2>3. QED BY <1>2, <2>1, <2>2
<1>8. CASE Shipments!SkipPrefix(row)
  <2>1. /\ skipped' = [skipped EXCEPT !["prefix"] = @ + 1] /\ row.status = "skipped"
        /\ row.code \notin seen /\ UNCHANGED <<seen, toInsert, unmatched>>
    BY <1>8 DEF Shipments!SkipPrefix, Shipments!Count, Shipments!Skip, Shipments!HasSkipPrefix, Shipments!Repeated
  <2>2. ~CanImport(row) /\ "prefix" \in Whys
    BY <2>1 DEF CanImport, Whys
  <2>3. QED BY <1>5, <2>1, <2>2
<1>9. CASE Shipments!SkipNoPhone(row)
  <2>1. /\ skipped' = [skipped EXCEPT !["noPhone"] = @ + 1] /\ row.phone = Shipments!NoPhone
        /\ row.code \notin seen /\ UNCHANGED <<seen, toInsert, unmatched>>
    BY <1>9 DEF Shipments!SkipNoPhone, Shipments!Count, Shipments!Skip, Shipments!Repeated
  <2>2. ~CanImport(row) /\ "noPhone" \in Whys
    BY <2>1 DEF CanImport, Whys
  <2>3. QED BY <1>5, <2>1, <2>2
<1>10. CASE Shipments!Take(row)
  <2>1. Shipments!SbdsOf(Shipments!NormalizePhone(row.phone)) = SbdsIn(read, row.phone)
    BY DEF Shipments!SbdsOf, SbdsIn, Number
  <2>2. /\ row.code # Shipments!NoCode /\ row.code \notin seen /\ row.status # "skipped"
        /\ row.phone # Shipments!NoPhone /\ seen' = seen \cup {row.code} /\ skipped' = skipped
    BY <1>10 DEF Shipments!Take, Shipments!Repeated, Shipments!HasSkipPrefix, Shipments!Remembered
  <2>3. toInsert' = toInsert \o Shipments!SetToSeq(RowsFor(read, row))
    BY <1>10, <2>1 DEF Shipments!Take, RowsFor
  <2>4. unmatched' = unmatched \cup (IF SbdsIn(read, row.phone) = {} THEN {Number(row.phone)} ELSE {})
    BY <1>10, <2>1 DEF Shipments!Take, Number
  <2>5. CanImport(row) /\ unmatched \subseteq unmatched'
        /\ (SbdsIn(read, row.phone) = {} => Number(row.phone) \in unmatched')
    BY <2>2, <2>4 DEF CanImport
  <2>6. SheetOK(sheet', seen \cup {row.code}, toInsert', unmatched', skipped, read)
    BY <1>1, <1>2, <2>2, <2>3, <2>5, RowTaken
  <2>7. QED BY <1>2, <2>2, <2>6
<1>11. QED BY <1>1, <1>6, <1>7, <1>8, <1>9, <1>10

LEMMA SheetStep == ASSUME SheetInv, [Shipments!Go]_importVars PROVE SheetInv'
<1>1. ASSUME /\ phones' \in [Students -> Shipments!PhoneCells] /\ read' \in [Students -> Shipments!PhoneCells]
             /\ importPc' = "start" => sheet' = <<>> /\ seen' = {} /\ toInsert' = <<>>
                                       /\ unmatched' = {} /\ skipped' = NoCounts
             /\ SheetOK(sheet', seen', toInsert', unmatched', skipped', read')
      PROVE  SheetInv'
  BY <1>1 DEF SheetInv, SheetOK, SheetTypes, SeenOK, InsertedOK, CountsOK, AccountedOK, FirstIn,
              Repeats, RowsFor, SbdsIn, Number, CanImport, Row, NoCounts, Shipments!PhoneCells,
              Shipments!NoPhone, Shipments!ToSet, Shipments!SheetRow, Shipments!NoCode,
              Shipments!Statuses, Shipments!NormalizePhone, Shipments!IsSuccess
<1>2. CASE UNCHANGED <<phones, read, importPc, sheet, seen, toInsert, unmatched, skipped>>
  BY <1>1, <1>2 DEF SheetInv
<1>3. CASE Shipments!Next
  <2>1. CASE Shipments!Unresolved \/ Shipments!Finish
    BY <1>1, <2>1 DEF SheetInv, Shipments!Unresolved, Shipments!Finish, Shipments!loop
  <2>2. CASE Shipments!Build
    <3>1. /\ read' = phones /\ phones' = phones /\ importPc' = "reading"
          /\ sheet' = <<>> /\ seen' = {} /\ toInsert' = <<>> /\ unmatched' = {} /\ skipped' = NoCounts
      BY <2>2 DEF SheetInv, Shipments!Build, Shipments!loop
    <3>2. SheetOK(<<>>, {}, <<>>, {}, NoCounts, read')
      BY NoRows
    <3>3. QED BY <1>1, <3>1, <3>2 DEF SheetInv
  <2>3. CASE Shipments!Correct
    <3>1. /\ UNCHANGED <<read, importPc, sheet, seen, toInsert, unmatched, skipped>>
          /\ \E c \in Corrections : phones' = [phones EXCEPT ![c[1]] = c[2]]
      BY <2>3 DEF Shipments!Correct, Shipments!loop
    <3>2. phones' \in [Students -> Shipments!PhoneCells]
      BY <3>1, CommandLineAssumption DEF SheetInv
    <3>3. QED BY <1>1, <3>1, <3>2 DEF SheetInv
  <2>4. CASE Shipments!ReadRow
    <3>1. UNCHANGED <<phones, read, importPc>> /\ importPc # "start"
      BY <2>4 DEF Shipments!ReadRow
    <3>2. SheetOK(sheet', seen', toInsert', unmatched', skipped', read')
      BY <2>4, RowRead
    <3>3. QED BY <1>1, <3>1, <3>2 DEF SheetInv
  <2>5. QED BY <1>3, <2>1, <2>2, <2>3, <2>4 DEF Shipments!Next
<1>4. CASE Shipments!GiveUp
  <2>1. /\ read' = Directory /\ phones' = phones /\ importPc' = "error"
        /\ sheet' = <<>> /\ seen' = {} /\ toInsert' = <<>> /\ unmatched' = {} /\ skipped' = NoCounts
    BY <1>4 DEF Shipments!GiveUp, NoCounts
  <2>2. SheetOK(<<>>, {}, <<>>, {}, NoCounts, read')
    BY NoRows
  <2>3. QED BY <1>1, <2>1, <2>2, CommandLineAssumption DEF SheetInv
<1>5. QED BY <1>2, <1>3, <1>4
  DEF Shipments!Go, Shipments!Ask, Shipments!Refuse, Shipments!Accept, Shipments!Import,
      Shipments!Insert, Shipments!Commit, Shipments!Log, Shipments!Abort, Shipments!FailToLog,
      Shipments!Close, Shipments!Kill, Shipments!vars, Shipments!loop, importVars

LEMMA SheetInvariant == CliSpec => []SheetInv
<1>1. CliInit => SheetInv
  <2> SUFFICES ASSUME CliInit PROVE SheetInv
    OBVIOUS
  <2>1. /\ phones = Directory /\ read = Directory /\ sheet = <<>> /\ seen = {} /\ toInsert = <<>>
        /\ unmatched = {} /\ skipped = NoCounts
    BY DEF CliInit, Shipments!Begin, Shipments!Init, NoCounts
  <2>2. SheetOK(<<>>, {}, <<>>, {}, NoCounts, read)
    BY NoRows
  <2>3. QED BY <2>1, <2>2, CommandLineAssumption DEF SheetInv
<1>2. SheetInv /\ [CliNext]_cliVars => SheetInv'
  BY InitImport, SheetStep
<1>3. QED BY <1>1, <1>2, PTL DEF CliSpec

LEMMA FirstRows ==
  ASSUME NEW i
  PROVE  Shipments!First(i) <=> FirstIn(sheet, i)
BY DEF Shipments!First, Shipments!Eligible, FirstIn, CanImport

\* Two cells have the same number when they have the same subscriber and are both
\* written with the country code or both without.
LEMMA SameNumber ==
  ASSUME NEW a, NEW b
  PROVE  Number(a) = Number(b) <=> a.of = b.of /\ (Shipments!Abroad(a) <=> Shipments!Abroad(b))
<1>1. Number(a) = Number(b) <=>
        /\ (IF a.form = "international" THEN "84" ELSE "") = (IF b.form = "international" THEN "84" ELSE "")
        /\ a.of = b.of
  BY DEF Number, Shipments!NormalizePhone
<1>2. QED BY <1>1 DEF Shipments!Abroad

\* The rows of one row of the sheet, the way the reference definition names them.
LEMMA RowsReferred ==
  ASSUME SheetInv, NEW i \in 1..Len(sheet), FirstIn(sheet, i), NEW r
  PROVE  r \in RowsFor(read, sheet[i]) <=>
           /\ r \in Row
           /\ r.code = sheet[i].code
           /\ r.success = (sheet[i].status = "delivered")
           /\ read[r.sbd].of = sheet[i].phone.of
           /\ Shipments!Abroad(read[r.sbd]) <=> Shipments!Abroad(sheet[i].phone)
<1> DEFINE row == sheet[i]
<1>1. row \in Shipments!SheetRow /\ CanImport(row)
  BY DEF SheetInv, SheetOK, SheetTypes, FirstIn
<1> HIDE DEF row
<1>2. row.phone \in [form: Forms, of: Subscribers] /\ row.phone.of \in Subscribers /\ row.code \in Codes
  BY <1>1 DEF CanImport, Shipments!SheetRow, Shipments!PhoneCells
<1>3. ASSUME NEW s \in Students
      PROVE  s \in SbdsIn(read, row.phone) <=>
               read[s].of = row.phone.of /\ (Shipments!Abroad(read[s]) <=> Shipments!Abroad(row.phone))
  <2>1. read[s] = Shipments!NoPhone => read[s].of # row.phone.of
    BY <1>2, CommandLineAssumption
  <2>2. Number(read[s]) = Number(row.phone) <=>
          read[s].of = row.phone.of /\ (Shipments!Abroad(read[s]) <=> Shipments!Abroad(row.phone))
    BY SameNumber
  <2>3. QED BY <2>1, <2>2 DEF SbdsIn
<1>4. Shipments!IsSuccess(row.status) = (row.status = "delivered") /\ Shipments!IsSuccess(row.status) \in BOOLEAN
  BY DEF Shipments!IsSuccess
<1>5. ASSUME r \in RowsFor(read, row)
      PROVE  r \in Row /\ r.code = row.code /\ r.success = (row.status = "delivered")
             /\ read[r.sbd].of = row.phone.of
             /\ (Shipments!Abroad(read[r.sbd]) <=> Shipments!Abroad(row.phone))
  <2>1. PICK s \in SbdsIn(read, row.phone) :
          r = [sbd |-> s, code |-> row.code, success |-> Shipments!IsSuccess(row.status)]
    BY <1>5 DEF RowsFor
  <2>2. s \in Students
    BY DEF SbdsIn
  <2>3. r \in Row /\ r.code = row.code /\ r.success = (row.status = "delivered") /\ r.sbd = s
    BY <1>2, <1>4, <2>1, <2>2 DEF Row
  <2>4. QED BY <1>3, <2>2, <2>3
<1>6. ASSUME r \in Row, r.code = row.code, r.success = (row.status = "delivered"),
             read[r.sbd].of = row.phone.of,
             Shipments!Abroad(read[r.sbd]) <=> Shipments!Abroad(row.phone)
      PROVE  r \in RowsFor(read, row)
  <2>1. r.sbd \in Students
    BY <1>6 DEF Row
  <2>2. r.sbd \in SbdsIn(read, row.phone)
    BY <1>3, <1>6, <2>1
  <2>3. r = [sbd |-> r.sbd, code |-> row.code, success |-> Shipments!IsSuccess(row.status)]
    BY <1>4, <1>6 DEF Row
  <2>4. QED BY <2>2, <2>3 DEF RowsFor
<1>7. QED BY <1>5, <1>6 DEF row

\* docs/features/shipment.md and bulk_import_shipments: what a carrier import is
\* about to insert is what its reference definition names, after every row it reads,
\* for every sheet, every directory of phones and whatever is corrected meanwhile.
THEOREM RowsAreRight == CliSpec => []RowsMatchReference
<1>1. SheetInv => RowsMatchReference
  <2> SUFFICES ASSUME SheetInv PROVE RowsMatchReference
    OBVIOUS
  <2>1. \A r : r \in Shipments!ToSet(toInsert) <=>
                 \E i \in 1..Len(sheet) : FirstIn(sheet, i) /\ r \in RowsFor(read, sheet[i])
    BY DEF SheetInv, SheetOK, InsertedOK
  <2> DEFINE Named(r) ==
        \E i \in 1..Len(sheet) :
          /\ Shipments!First(i)
          /\ r.code = sheet[i].code
          /\ r.success = (sheet[i].status = "delivered")
          /\ read[r.sbd].of = sheet[i].phone.of
          /\ Shipments!Abroad(read[r.sbd]) <=> Shipments!Abroad(sheet[i].phone)
  <2>2. ASSUME NEW r PROVE r \in Shipments!ToSet(toInsert) <=> r \in Row /\ Named(r)
    <3>1. ASSUME NEW i \in 1..Len(sheet)
          PROVE  FirstIn(sheet, i) /\ r \in RowsFor(read, sheet[i]) <=>
                   /\ r \in Row
                   /\ Shipments!First(i)
                   /\ r.code = sheet[i].code
                   /\ r.success = (sheet[i].status = "delivered")
                   /\ read[r.sbd].of = sheet[i].phone.of
                   /\ Shipments!Abroad(read[r.sbd]) <=> Shipments!Abroad(sheet[i].phone)
      BY FirstRows, RowsReferred
    <3>2. QED BY <2>1, <3>1
  <2>3. Shipments!ToSet(toInsert) = {r \in Row : Named(r)}
    BY <2>2
  <2>4. QED BY <2>3 DEF RowsMatchReference, Shipments!RowsMatchReference, Row
<1>2. QED BY <1>1, SheetInvariant, PTL

\* bulk_import_shipments: the statistics account for every row of the sheet, no two
\* rows to insert have the same primary key, and each code seen has a row or a phone
\* among the unmatched ones.
THEOREM StatisticsAddUp == CliSpec => []StatsAddUp
<1>1. SheetInv => StatsAddUp
  <2> SUFFICES ASSUME SheetInv PROVE StatsAddUp
    OBVIOUS
  <2>1. /\ SheetTypes(sheet, seen, toInsert, skipped) /\ InsertedOK(sheet, toInsert, read)
        /\ CountsOK(sheet, seen, skipped) /\ AccountedOK(sheet, seen, toInsert, unmatched)
    BY DEF SheetInv, SheetOK
  <2>2. Shipments!KeysDistinct
    <3> DEFINE f == [i \in DOMAIN toInsert |-> <<toInsert[i].sbd, toInsert[i].code>>]
    <3>1. DOMAIN toInsert = 1..Len(toInsert)
      BY <2>1 DEF SheetTypes
    <3>2. ASSUME NEW i \in DOMAIN f, NEW j \in DOMAIN f, f[i] = f[j] PROVE i = j
      BY <2>1, <3>1, <3>2 DEF InsertedOK
    <3>3. Shipments!IsInjective(f)
      BY <3>2 DEF Shipments!IsInjective
    <3>4. QED BY <3>3 DEF Shipments!KeysDistinct
  <2>3. Repeats(sheet) = {i \in 1..Len(sheet) :
                            \E j \in 1..(i - 1) : Shipments!First(j) /\ sheet[j].code = sheet[i].code}
    BY FirstRows DEF Repeats
  <2>4. \A S : Shipments!Cardinality(S) = Cardinality(S)
    BY DEF Shipments!Cardinality, Cardinality
  <2>5. \A c \in seen :
          \/ \E i \in 1..Len(toInsert) : toInsert[i].code = c
          \/ \E i \in 1..Len(sheet) :
               Shipments!First(i) /\ sheet[i].code = c /\ Shipments!NormalizePhone(sheet[i].phone) \in unmatched
    BY <2>1, FirstRows DEF AccountedOK, Number
  <2>6. Len(sheet) = skipped.noTracking + skipped.prefix + skipped.noPhone
          + Shipments!Cardinality(seen)
          + Shipments!Cardinality({i \in 1..Len(sheet) :
              \E j \in 1..(i - 1) : Shipments!First(j) /\ sheet[j].code = sheet[i].code})
    BY <2>1, <2>3, <2>4 DEF CountsOK
  <2>7. QED BY <2>2, <2>5, <2>6 DEF StatsAddUp, Shipments!StatsAddUp
<1>2. QED BY <1>1, SheetInvariant, PTL
-----------------------------------------------------------------------------
(* The store in a file.                                                     *)

FileEntry == [stamp: Nat, value: Nat, expires: {Never} \cup Times]
FileOp == [kind: Kinds, key: Keys, expires: {Never} \cup Times, since: Nat,
           data: [Keys -> FileEntry], held: FileEntry]
FileTypes ==
  /\ now \in 0..MaxTime /\ opened \in Nat
  /\ file \in [Keys -> FileEntry]
  /\ pc \in [Threads -> PCs]
  /\ op \in [Threads -> FileOp]
  /\ given \in Seq(FileEntry)

\* Only the thread in the lock is between load and return.
Inside(at) == at \in {"load", "act", "save", "return"}
LockOK == \A t \in Threads : Inside(pc[t]) => lock = t

StampedOK == \A k \in Keys : file[k] = Nothing \/ (file[k].stamp \in 1..opened /\ file[k].value >= 1)

\* What a thread is about to save, and to answer with, is what its operation makes of
\* the file as it is.
SavesOK(o) ==
  LET k == o.key
  IN /\ o.kind = "get" => o.data = Without(file, k) /\ ~Alive(file[k])
     /\ o.kind = "scan" =>
          \A l \in Keys : o.data[l] = file[l] \/ (o.data[l] = Nothing /\ ~Alive(file[l]))
     /\ o.kind = "set" =>
          o.data = [file EXCEPT ![k] = [stamp |-> opened + 1, value |-> 1, expires |-> o.expires]]
     /\ o.kind = "delete" => o.data = Without(file, k)
     /\ o.kind = "consume" => o.data = Without(file, k) /\ o.held = file[k]
     /\ o.kind = "incr" =>
          /\ o.data = [file EXCEPT ![k] = o.held]
          /\ \/ KV!AliveAt(file[k], o.since) /\ o.held = [file[k] EXCEPT !.value = @ + 1]
             \/ /\ ~Alive(file[k])
                /\ \E x \in {Never} \cup Times : o.held = [stamp |-> opened + 1, value |-> 1, expires |-> x]
     /\ o.kind \notin {"consume", "incr"} => o.held = Nothing

LocalsOK(at, o) ==
  /\ o.kind \in KindsOf(o.key) /\ o.since <= now
  /\ at = "idle" => o = NoOp
  /\ at = "act" => o.data = file
  /\ at = "save" => SavesOK(o)
ThreadsOK == \A t \in Threads : LocalsOK(pc[t], op[t])

FileOK == FileTypes /\ LockOK /\ StampedOK /\ ThreadsOK
-----------------------------------------------------------------------------
\* What the other commands and the other store do leaves the file alone.
LEMMA FileMoves == [CliNext]_cliVars => [Next]_vars
<1> SUFFICES ASSUME [CliNext]_cliVars PROVE [Next]_vars
  OBVIOUS
<1>1. CASE ServeFile
  BY <1>1 DEF ServeFile
<1>2. CASE ServeRest
  <2>1. UNCHANGED fileVars
    BY <1>2 DEF ServeRest
  <2>2. now' = now \/ (now < MaxTime /\ now' = now + 1)
    BY <1>2 DEF ServeRest, Rest!Next, Rest!Crash, Rest!Arrive, Rest!Tick, Rest!Step, Rest!Call,
                Rest!Serve, Rest!ServePage, Rest!Receive, Rest!ReceivePage, Rest!Fail, Rest!Return
  <2>3. QED BY <2>1, <2>2 DEF fileVars, vars, Next, Tick
<1>3. CASE ~ServeFile /\ ~ServeRest
  BY <1>3 DEF CliNext, cliVars, Dev, Dispatch, RunInit, RunImport, vars, fileVars
<1>4. QED BY <1>1, <1>2, <1>3

THEOREM FileSpec == CliSpec => Spec
<1>1. CliInit => Init
  BY DEF CliInit
<1>2. QED BY <1>1, FileMoves, PTL DEF CliSpec, Spec

LEMMA FileFacts ==
  /\ Nothing \in FileEntry /\ Nothing.stamp = 0 /\ Nothing.value = 0 /\ Nothing.expires = Never
  /\ Never = 0 /\ Tokens \cap Counters = {} /\ Keys = Tokens \cup Counters
  /\ MaxTime \in Nat /\ MaxTTL \in Nat /\ TTLs \subseteq 0..MaxTTL
  /\ NoOp \in FileOp /\ NoOp.kind = "get" /\ NoOp.held = Nothing /\ NoOp.since = 0
  /\ NoOp.expires = Never /\ NoOp.kind \in KindsOf(NoOp.key)
<1>1. /\ Nothing \in FileEntry /\ Nothing.stamp = 0 /\ Nothing.value = 0 /\ Nothing.expires = Never
      /\ Never = 0 /\ Tokens \cap Counters = {} /\ Keys = Tokens \cup Counters /\ Keys # {}
      /\ MaxTime \in Nat /\ TTLs \subseteq Nat
  BY LocalFileAssumption DEF Nothing, Never, FileEntry, Keys
<1>2. MaxTTL \in TTLs /\ \A m \in TTLs : m <= MaxTTL
  <2>1. TTLs # {} /\ \E n \in TTLs : \A m \in TTLs : m <= n
    BY LocalFileAssumption, CommandLineAssumption
  <2>2. QED BY <2>1 DEF MaxTTL
<1>3. MaxTTL \in Nat /\ TTLs \subseteq 0..MaxTTL
  BY <1>1, <1>2
<1>4. NoOp.key \in Keys
  BY <1>1 DEF NoOp
<1>5. Empty \in [Keys -> FileEntry]
  BY <1>1 DEF Empty
<1>6. NoOp \in FileOp
  BY <1>1, <1>4, <1>5 DEF NoOp, FileOp, Kinds
<1>7. NoOp.kind = "get" /\ NoOp.held = Nothing /\ NoOp.since = 0 /\ NoOp.expires = Never
  BY DEF NoOp
<1>8. QED BY <1>1, <1>3, <1>6, <1>7 DEF KindsOf

\* An expiry that the store can compute, and what time does to an entry.
LEMMA FileTimes ==
  ASSUME FileTypes
  PROVE  /\ \A ttl \in TTLs : Expiry(ttl) \in {Never} \cup Times
         /\ \A e \in FileEntry, s \in Nat : Alive(e) /\ s <= now => KV!AliveAt(e, s)
         /\ \A e \in FileEntry : KV!Alive(e) <=> Alive(e)
<1>1. now \in 0..MaxTime
  BY DEF FileTypes
<1>2. ASSUME NEW ttl \in TTLs PROVE Expiry(ttl) \in {Never} \cup Times
  <2>1. ttl \in 0..MaxTTL /\ MaxTime \in Nat /\ MaxTTL \in Nat
    BY FileFacts
  <2>2. ttl > 0 => now + ttl \in 1..(MaxTime + MaxTTL)
    BY <1>1, <2>1
  <2>3. QED BY <2>2 DEF Expiry, Times
<1>3. ASSUME NEW e \in FileEntry, NEW s \in Nat, Alive(e), s <= now PROVE KV!AliveAt(e, s)
  <2>1. e.expires = Never \/ e.expires \in Nat
    BY DEF FileEntry, Times
  <2>2. QED BY <1>1, <1>3, <2>1 DEF Alive, KV!AliveAt, KV!Nothing, KV!Never, Nothing, Never
<1>4. \A e : KV!Alive(e) <=> Alive(e)
  BY DEF Alive, KV!Alive, KV!AliveAt, KV!Nothing, KV!Never, Nothing, Never
<1>5. QED BY <1>2, <1>3, <1>4

LEMMA TypesLater ==
  ASSUME now' \in 0..MaxTime, opened' \in Nat, file' \in [Keys -> FileEntry],
         pc' \in [Threads -> PCs], op' \in [Threads -> FileOp], given' \in Seq(FileEntry)
  PROVE  FileTypes'
BY DEF FileTypes, FileOp, FileEntry, Kinds, Keys, Times, Never, MaxTTL, PCs

LEMMA FileInit == Init => FileOK
<1> SUFFICES ASSUME Init PROVE FileOK
  OBVIOUS
<1>1. FileTypes
  BY FileFacts DEF Init, FileTypes, PCs, Empty
<1>2. LockOK /\ StampedOK /\ ThreadsOK
  BY FileFacts DEF Init, LockOK, Inside, StampedOK, ThreadsOK, LocalsOK, Empty
<1>3. QED BY <1>1, <1>2 DEF FileOK
-----------------------------------------------------------------------------
\* A step of one thread that leaves the file and the clock alone.
LEMMA FileMoved ==
  ASSUME FileOK, NEW t \in Threads, NEW at \in PCs, NEW o \in FileOp,
         pc' = [pc EXCEPT ![t] = at], op' = [op EXCEPT ![t] = o],
         UNCHANGED <<now, file, opened>>, given' \in Seq(FileEntry),
         LocalsOK(at, o), Inside(at) => lock' = t,
         \A u \in Threads \ {t} : Inside(pc[u]) => lock' = u
  PROVE  FileOK'
<1>1. pc \in [Threads -> PCs] /\ op \in [Threads -> FileOp]
  BY DEF FileOK, FileTypes
<1>2. /\ pc'[t] = at /\ op'[t] = o
      /\ \A u \in Threads \ {t} : pc'[u] = pc[u] /\ op'[u] = op[u]
  BY <1>1
<1>3. FileTypes'
  BY <1>1 DEF FileOK, FileTypes, FileOp, FileEntry, Kinds, Keys, Times, Never, MaxTTL, PCs
<1>4. LockOK'
  BY <1>2 DEF FileOK, LockOK, Inside
<1>5. StampedOK'
  BY DEF FileOK, StampedOK, Keys, Nothing, Never
<1>6. \A u \in Threads : LocalsOK(pc'[u], op'[u])
  BY <1>2 DEF FileOK, ThreadsOK
<1>7. ThreadsOK'
  <2>1. ASSUME NEW q, SavesOK(q) PROVE SavesOK(q)'
    BY <2>1 DEF SavesOK, Keys, Nothing, Never, Without, Alive, KV!AliveAt, KV!Nothing, KV!Never,
                Times, MaxTTL
  <2>2. ASSUME NEW a, NEW q, LocalsOK(a, q) PROVE LocalsOK(a, q)'
    BY <2>1, <2>2 DEF LocalsOK, KindsOf, NoOp, Empty, Keys, Nothing, Never
  <2>3. \A u \in Threads : LocalsOK(pc[u], op[u])'
    <3> SUFFICES ASSUME NEW u \in Threads PROVE LocalsOK(pc[u], op[u])'
      OBVIOUS
    <3>1. PICK a, q : a = pc'[u] /\ q = op'[u]
      OBVIOUS
    <3>2. LocalsOK(a, q)'
      BY <1>6, <2>2, <3>1
    <3>3. QED BY <3>1, <3>2 DEF LocalsOK, SavesOK
  <2>4. QED BY <2>3 DEF ThreadsOK
<1>8. QED BY <1>3, <1>4, <1>5, <1>7 DEF FileOK

\* What the thread in the lock does to its dictionary: the data and the answer are
\* those of its operation.
LEMMA FileActed ==
  ASSUME FileOK, NEW t \in Threads, NEW data \in [Keys -> FileEntry], NEW e \in FileEntry,
         NEW saves \in BOOLEAN, Act(t, data, e, saves),
         saves => SavesOK([op[t] EXCEPT !.data = data, !.held = e])
  PROVE  FileOK'
<1> DEFINE o == [op[t] EXCEPT !.data = data, !.held = e]
           at == IF saves THEN "save" ELSE "return"
<1>1. /\ pc[t] = "act" /\ pc' = [pc EXCEPT ![t] = at] /\ UNCHANGED <<now, file, lock, opened, given>>
      /\ op' = [op EXCEPT ![t].data = data, ![t].held = e]
  BY DEF Act, Goto
<1>2. /\ op \in [Threads -> FileOp] /\ op[t] \in FileOp /\ LocalsOK(pc[t], op[t])
      /\ given \in Seq(FileEntry)
  BY DEF FileOK, FileTypes, ThreadsOK
<1>3. op' = [op EXCEPT ![t] = o]
  BY <1>1, <1>2
<1>4. /\ o \in FileOp /\ o.kind = op[t].kind /\ o.key = op[t].key /\ o.since = op[t].since
  BY <1>2 DEF FileOp
<1>5. at \in {"save", "return"} /\ at \in PCs /\ (at = "save" => SavesOK(o))
  BY DEF PCs
<1>6. lock = t
  BY <1>1 DEF FileOK, LockOK, Inside
<1> HIDE DEF o, at
<1>7. LocalsOK(at, o)
  BY <1>2, <1>4, <1>5 DEF LocalsOK
<1>8. \A u \in Threads \ {t} : ~Inside(pc[u])
  BY <1>6 DEF FileOK, LockOK
<1>9. QED BY <1>1, <1>2, <1>3, <1>4, <1>5, <1>6, <1>7, <1>8, FileMoved

\* The entry that the next number of a window makes.
LEMMA CountedOK ==
  ASSUME FileOK, NEW e \in FileEntry, NEW x \in {Never} \cup Times
  PROVE  /\ Counted(e, x) \in FileEntry
         /\ Alive(e) => Counted(e, x) = [e EXCEPT !.value = @ + 1]
         /\ ~Alive(e) => Counted(e, x) = [stamp |-> opened + 1, value |-> 1, expires |-> x]
<1>1. opened \in Nat
  BY DEF FileOK, FileTypes
<1>2. QED BY <1>1 DEF Counted, FileEntry

LEMMA FileActs ==
  ASSUME FileOK, NEW t \in Threads,
         Get(t) \/ Scan(t) \/ Set(t) \/ Delete(t) \/ Consume(t) \/ Incr(t)
  PROVE  FileOK'
<1> DEFINE p == op[t]
           k == op[t].key
<1>1. pc[t] = "act"
  BY DEF Get, Scan, Set, Delete, Consume, Incr, Act
<1>2. p \in FileOp /\ p.data = file /\ p.since <= now /\ p.since \in Nat
  BY <1>1 DEF FileOK, FileTypes, ThreadsOK, LocalsOK, FileOp
<1>3. /\ file \in [Keys -> FileEntry] /\ k \in Keys /\ p.expires \in {Never} \cup Times
      /\ opened \in Nat /\ now \in Nat /\ FileTypes
  BY <1>2 DEF FileOK, FileTypes, FileOp
<1>4. file[k] \in FileEntry /\ Nothing \in FileEntry /\ Without(file, k) \in [Keys -> FileEntry]
  BY <1>3, FileFacts DEF Without
<1> DEFINE o(d, e) == [p EXCEPT !.data = d, !.held = e]
<1>5. \A d, e : /\ o(d, e).data = d /\ o(d, e).held = e /\ o(d, e).kind = p.kind /\ o(d, e).key = k
               /\ o(d, e).since = p.since /\ o(d, e).expires = p.expires
  BY <1>2 DEF FileOp
<1> HIDE DEF o
<1>6. CASE Get(t)
  <2>1. CASE file[k] = Nothing \/ Alive(file[k])
    <3>1. Act(t, file, file[k], FALSE)
      BY <1>2, <1>6, <2>1 DEF Get
    <3>2. QED BY <1>3, <1>4, <3>1, FileActed DEF o
  <2>2. CASE ~(file[k] = Nothing \/ Alive(file[k]))
    <3>1. Act(t, Without(file, k), Nothing, TRUE) /\ p.kind = "get"
      BY <1>2, <1>6, <2>2 DEF Get
    <3>2. SavesOK(o(Without(file, k), Nothing))
      BY <1>5, <2>2, <3>1 DEF SavesOK
    <3>3. QED BY <1>4, <3>1, <3>2, FileActed DEF o
  <2>3. QED BY <2>1, <2>2
<1>7. CASE Scan(t)
  <2>1. PICK keys \in SUBSET Keys :
          LET expired == {l \in keys : file[l] # Nothing /\ ~Alive(file[l])}
          IN Act(t, [l \in Keys |-> IF l \in expired THEN Nothing ELSE file[l]], Nothing, expired # {})
    BY <1>2, <1>7 DEF Scan
  <2> DEFINE expired == {l \in keys : file[l] # Nothing /\ ~Alive(file[l])}
             d == [l \in Keys |-> IF l \in expired THEN Nothing ELSE file[l]]
  <2>2. Act(t, d, Nothing, expired # {})
    BY <2>1
  <2>3. d \in [Keys -> FileEntry] /\ \A l \in Keys : d[l] = file[l] \/ (d[l] = Nothing /\ ~Alive(file[l]))
    BY <1>3, <1>4
  <2>4. p.kind = "scan"
    BY <1>7 DEF Scan
  <2> HIDE DEF d, expired
  <2>5. SavesOK(o(d, Nothing))
    BY <1>5, <2>3, <2>4 DEF SavesOK
  <2>6. (expired # {}) \in BOOLEAN
    OBVIOUS
  <2>7. QED BY <1>4, <2>2, <2>3, <2>5, <2>6, FileActed DEF o
<1>8. CASE Set(t)
  <2> DEFINE e == [stamp |-> opened + 1, value |-> 1, expires |-> p.expires]
             d == [file EXCEPT ![k] = e]
  <2>1. Act(t, d, Nothing, TRUE) /\ p.kind = "set"
    BY <1>2, <1>8 DEF Set
  <2>2. d \in [Keys -> FileEntry]
    BY <1>3 DEF FileEntry
  <2>3. SavesOK(o(d, Nothing))
    <3>1. d = [file EXCEPT ![k] = [stamp |-> opened + 1, value |-> 1, expires |-> p.expires]]
      OBVIOUS
    <3> HIDE DEF d
    <3> DEFINE q == o(d, Nothing)
    <3>2. /\ q.data = d /\ q.held = Nothing /\ q.kind = "set" /\ q.key = k
         /\ q.since = p.since /\ q.expires = p.expires
      BY <1>5, <2>1
    <3> HIDE DEF q, k, p
    <3>3. QED BY <3>1, <3>2 DEF SavesOK, q
  <2>4. QED BY <1>4, <2>1, <2>2, <2>3, FileActed DEF o
<1>9. CASE Delete(t)
  <2>1. Act(t, Without(file, k), Nothing, file[k] # Nothing) /\ p.kind = "delete"
    BY <1>2, <1>9 DEF Delete
  <2>2. SavesOK(o(Without(file, k), Nothing))
    BY <1>5, <2>1 DEF SavesOK
  <2>3. (file[k] # Nothing) \in BOOLEAN
    OBVIOUS
  <2>4. QED BY <1>4, <2>1, <2>2, <2>3, FileActed DEF o
<1>10. CASE Consume(t)
  <2>1. Act(t, Without(file, k), file[k], file[k] # Nothing) /\ p.kind = "consume"
    BY <1>2, <1>10 DEF Consume
  <2>2. SavesOK(o(Without(file, k), file[k]))
    <3> DEFINE q == o(Without(file, k), file[k])
    <3>1. /\ q.data = Without(file, k) /\ q.held = file[k] /\ q.kind = "consume" /\ q.key = k
         /\ q.since = p.since /\ q.expires = p.expires
      BY <1>5, <2>1
    <3> HIDE DEF q, k, p
    <3>2. QED BY <3>1 DEF SavesOK, q
  <2>3. (file[k] # Nothing) \in BOOLEAN
    OBVIOUS
  <2>4. QED BY <1>4, <2>1, <2>2, <2>3, FileActed DEF o
<1>11. CASE Incr(t)
  <2>1. PICK ttl \in TTLs :
          LET e == Counted(file[k], Expiry(ttl))
          IN Act(t, [file EXCEPT ![k] = e], e, TRUE)
    BY <1>2, <1>11 DEF Incr
  <2> DEFINE x == Expiry(ttl)
             e == Counted(file[k], x)
             d == [file EXCEPT ![k] = e]
  <2>2. Act(t, d, e, TRUE) /\ p.kind = "incr"
    BY <1>11, <2>1 DEF Incr
  <2>3. x \in {Never} \cup Times
    BY <1>3, FileTimes
  <2> HIDE DEF x
  <2>4. /\ e \in FileEntry
        /\ Alive(file[k]) => e = [file[k] EXCEPT !.value = @ + 1]
        /\ ~Alive(file[k]) => e = [stamp |-> opened + 1, value |-> 1, expires |-> x]
    BY <1>4, <2>3, CountedOK
  <2>5. Alive(file[k]) => KV!AliveAt(file[k], p.since)
    BY <1>2, <1>3, <1>4, FileTimes
  <2> HIDE DEF e
  <2>6. d \in [Keys -> FileEntry] /\ d = [file EXCEPT ![k] = e]
    BY <1>3, <2>4
  <2> HIDE DEF d
  <2>7. SavesOK(o(d, e))
    <3> DEFINE q == o(d, e)
    <3>1. /\ q.data = d /\ q.held = e /\ q.kind = "incr" /\ q.key = k
         /\ q.since = p.since /\ q.expires = p.expires
      BY <1>5, <2>2
    <3> HIDE DEF q, k, p
    <3>2. QED BY <2>3, <2>4, <2>5, <2>6, <3>1 DEF SavesOK, q
  <2>8. QED BY <2>2, <2>4, <2>6, <2>7, FileActed DEF o
<1>12. QED BY <1>6, <1>7, <1>8, <1>9, <1>10, <1>11
-----------------------------------------------------------------------------
\* What a save does to the file, key by key.
LEMMA SaveSays ==
  ASSUME FileOK, NEW t \in Threads, Save(t)
  PROVE  LET p == op[t]
             k == op[t].key
         IN /\ pc[t] = "save" /\ lock = t /\ file' = p.data /\ SavesOK(p) /\ p \in FileOp
            /\ \A l \in Keys :
                 file'[l] \in {file[l], Nothing} \/ (l = k /\ p.kind \in {"set", "incr"})
            /\ p.kind = "set" => /\ file'[k] = [stamp |-> opened + 1, value |-> 1, expires |-> p.expires]
                                /\ opened' = opened + 1
            /\ p.kind = "incr" =>
                 /\ file'[k] = p.held
                 /\ \/ /\ KV!AliveAt(file[k], p.since) /\ p.held = [file[k] EXCEPT !.value = @ + 1]
                       /\ opened' = opened
                    \/ /\ ~Alive(file[k]) /\ opened' = opened + 1
                       /\ \E x \in {Never} \cup Times :
                            p.held = [stamp |-> opened + 1, value |-> 1, expires |-> x]
            /\ p.kind \notin {"set", "incr"} => opened' = opened
<1> DEFINE p == op[t]
           k == op[t].key
<1>1. /\ pc[t] = "save" /\ file' = p.data
      /\ opened' = IF \E l \in Keys : file'[l].stamp = opened + 1 THEN opened + 1 ELSE opened
  BY DEF Save
<1>2. p \in FileOp /\ SavesOK(p) /\ lock = t
  BY <1>1 DEF FileOK, FileTypes, ThreadsOK, LocalsOK, LockOK, Inside
<1>3. p.kind \in Kinds /\ k \in Keys /\ p.data \in [Keys -> FileEntry]
  BY <1>2 DEF FileOp
<1>4. /\ file \in [Keys -> FileEntry] /\ opened \in Nat
      /\ \A l \in Keys : file[l] = Nothing \/ file[l].stamp \in 1..opened
      /\ Nothing.stamp = 0
  BY FileFacts DEF FileOK, FileTypes, StampedOK
<1>5. \A l \in Keys : file[l].stamp # opened + 1
  BY <1>4
<1> HIDE DEF p, k
<1>6. \A l \in Keys :
        file'[l] \in {file[l], Nothing} \/ (l = k /\ p.kind \in {"set", "incr"})
  BY <1>1, <1>2, <1>3, <1>4 DEF SavesOK, Without, Kinds, k, p
<1>7. p.kind \notin {"set", "incr"} => opened' = opened
  BY <1>1, <1>4, <1>5, <1>6
<1>8. CASE p.kind = "set"
  <2>1. file'[k] = [stamp |-> opened + 1, value |-> 1, expires |-> p.expires]
    BY <1>1, <1>2, <1>3, <1>4, <1>8 DEF SavesOK, k, p
  <2>2. opened' = opened + 1
    BY <1>1, <1>3, <2>1
  <2>3. QED BY <1>1, <1>2, <1>6, <1>8, <2>1, <2>2 DEF k, p
<1>9. CASE p.kind = "incr"
  <2>1. file'[k] = p.held
    BY <1>1, <1>2, <1>3, <1>4, <1>9 DEF SavesOK, k, p
  <2>2. \/ KV!AliveAt(file[k], p.since) /\ p.held = [file[k] EXCEPT !.value = @ + 1]
        \/ /\ ~Alive(file[k])
           /\ \E x \in {Never} \cup Times : p.held = [stamp |-> opened + 1, value |-> 1, expires |-> x]
    BY <1>2, <1>9 DEF SavesOK, k, p
  <2>3. CASE KV!AliveAt(file[k], p.since) /\ p.held = [file[k] EXCEPT !.value = @ + 1]
    <3>1. file'[k].stamp = file[k].stamp
      BY <1>3, <1>4, <2>1, <2>3 DEF FileEntry
    <3>2. opened' = opened
      BY <1>1, <1>4, <1>5, <1>6, <3>1
    <3>3. QED BY <1>1, <1>2, <1>6, <1>9, <2>1, <2>3, <3>2 DEF k, p
  <2>4. CASE /\ ~Alive(file[k])
             /\ \E x \in {Never} \cup Times : p.held = [stamp |-> opened + 1, value |-> 1, expires |-> x]
    <3>1. opened' = opened + 1
      BY <1>1, <1>3, <2>1, <2>4
    <3>2. QED BY <1>1, <1>2, <1>6, <1>9, <2>1, <2>4, <3>1 DEF k, p
  <2>5. QED BY <2>2, <2>3, <2>4
<1>10. CASE p.kind \notin {"set", "incr"}
  BY <1>1, <1>2, <1>6, <1>7, <1>10 DEF k, p
<1>11. QED BY <1>8, <1>9, <1>10

LEMMA FileSaved ==
  ASSUME FileOK, NEW t \in Threads, Save(t)
  PROVE  FileOK'
<1>1. /\ pc' = [pc EXCEPT ![t] = "return"] /\ UNCHANGED <<now, lock, op, given>>
  BY DEF Save, Goto
<1>2. /\ pc[t] = "save" /\ lock = t /\ file' = op[t].data /\ op[t] \in FileOp
      /\ \A l \in Keys :
           file'[l] \in {file[l], Nothing} \/ (l = op[t].key /\ op[t].kind \in {"set", "incr"})
  BY SaveSays
<1>3. pc \in [Threads -> PCs] /\ file' \in [Keys -> FileEntry]
      /\ opened \in Nat /\ opened' \in {opened, opened + 1}
  BY <1>2 DEF FileOK, FileTypes, FileOp, Save
<1>4. FileTypes'
  <2>1. /\ now' \in 0..MaxTime /\ op' \in [Threads -> FileOp] /\ given' \in Seq(FileEntry)
        /\ opened' \in Nat /\ pc' \in [Threads -> PCs]
    BY <1>1, <1>3 DEF FileOK, FileTypes, PCs
  <2>2. QED BY <1>3, <2>1, TypesLater
<1>5. /\ pc'[t] = "return" /\ \A u \in Threads \ {t} : pc'[u] = pc[u] /\ ~Inside(pc[u])
  BY <1>1, <1>2, <1>3 DEF FileOK, LockOK
<1>6. LockOK'
  BY <1>1, <1>2, <1>5 DEF LockOK, Inside
<1>7. StampedOK'
  <2> DEFINE k == op[t].key
  <2>1. file \in [Keys -> FileEntry] /\ k \in Keys /\ opened' \in Nat /\ opened <= opened'
    BY <1>2, <1>3 DEF FileOK, FileTypes, FileOp
  <2>2. \A l \in Keys : file[l] = Nothing \/ (file[l].stamp \in 1..opened /\ file[l].value >= 1)
    BY DEF FileOK, StampedOK
  <2>3. op[t].kind = "set" => file'[k].stamp \in 1..opened' /\ file'[k].value >= 1
    <3>1. op[t].kind = "set" =>
            /\ file'[k] = [stamp |-> opened + 1, value |-> 1, expires |-> op[t].expires]
            /\ opened' = opened + 1
      BY SaveSays
    <3>2. QED BY <1>3, <3>1
  <2>4. op[t].kind = "incr" => file'[k].stamp \in 1..opened' /\ file'[k].value >= 1
    <3> SUFFICES ASSUME op[t].kind = "incr" PROVE file'[k].stamp \in 1..opened' /\ file'[k].value >= 1
      OBVIOUS
    <3>1. /\ file'[k] = op[t].held
          /\ \/ KV!AliveAt(file[k], op[t].since) /\ op[t].held = [file[k] EXCEPT !.value = @ + 1]
             \/ /\ opened' = opened + 1
                /\ \E x \in {Never} \cup Times : op[t].held = [stamp |-> opened + 1, value |-> 1, expires |-> x]
      BY SaveSays
    <3>2. CASE KV!AliveAt(file[k], op[t].since) /\ op[t].held = [file[k] EXCEPT !.value = @ + 1]
      <4>1. file[k] # Nothing
        BY <3>2 DEF KV!AliveAt, KV!Nothing, KV!Never, Nothing, Never
      <4>2. file[k] \in FileEntry
        BY <2>1
      <4>3. file'[k].stamp = file[k].stamp /\ file'[k].value = file[k].value + 1
        BY <3>1, <3>2, <4>2 DEF FileEntry
      <4>4. file[k].stamp \in 1..opened /\ file[k].value >= 1 /\ file[k].value \in Nat
        BY <2>1, <2>2, <4>1, <4>2 DEF FileEntry
      <4>5. QED BY <1>3, <2>1, <4>3, <4>4
    <3>3. CASE /\ opened' = opened + 1
               /\ \E x \in {Never} \cup Times : op[t].held = [stamp |-> opened + 1, value |-> 1, expires |-> x]
      <4>1. op[t].held.stamp = opened + 1 /\ op[t].held.value = 1
        BY <3>3
      <4>2. QED BY <1>3, <3>1, <3>3, <4>1
    <3>4. QED BY <3>1, <3>2, <3>3
  <2>5. \A l \in Keys : file'[l] = Nothing \/ (file'[l].stamp \in 1..opened' /\ file'[l].value >= 1)
    BY <1>2, <1>3, <2>1, <2>2, <2>3, <2>4
  <2>6. QED BY <2>5 DEF StampedOK, Keys, Nothing, Never
<1>8. ThreadsOK'
  <2>1. \A u \in Threads :
          /\ op[u].kind \in KindsOf(op[u].key) /\ op[u].since <= now
          /\ pc[u] = "idle" => op[u] = NoOp
    BY DEF FileOK, ThreadsOK, LocalsOK
  <2>2. \A u \in Threads : pc'[u] # "act" /\ pc'[u] # "save" /\ (pc'[u] = "idle" => pc[u] = "idle")
    BY <1>5 DEF Inside
  <2>3. QED BY <1>1, <2>1, <2>2 DEF ThreadsOK, LocalsOK, KindsOf, NoOp, Empty, Keys, Nothing, Never
<1>9. QED BY <1>4, <1>6, <1>7, <1>8 DEF FileOK

LEMMA FileStep == FileOK /\ [Next]_vars => FileOK'
<1> SUFFICES ASSUME FileOK, [Next]_vars PROVE FileOK'
  OBVIOUS
<1>0. /\ pc \in [Threads -> PCs] /\ op \in [Threads -> FileOp] /\ given \in Seq(FileEntry)
      /\ now \in Nat /\ MaxTime \in Nat /\ now \in 0..MaxTime
  BY LocalFileAssumption DEF FileOK, FileTypes
<1>1. ASSUME NEW t \in Threads, Step(t) PROVE FileOK'
  <2>0. /\ op[t] \in FileOp /\ LocalsOK(pc[t], op[t])
        /\ \A u \in Threads \ {t} : Inside(pc[u]) => lock = u /\ lock # t
    BY <1>0 DEF FileOK, ThreadsOK, LockOK
  <2>9. LocalsOK("idle", NoOp)
    BY <1>0, FileFacts DEF LocalsOK
  <2>1. CASE Call(t)
    <3>1. PICK k \in Keys : \E kind \in KindsOf(k) :
            \E x \in IF kind = "set" THEN {Expiry(ttl) : ttl \in TTLs} ELSE {Never} :
              op' = [op EXCEPT ![t] = [NoOp EXCEPT !.kind = kind, !.key = k, !.expires = x, !.since = now]]
      BY <2>1 DEF Call
    <3>9. PICK kind \in KindsOf(k) :
            \E x \in IF kind = "set" THEN {Expiry(ttl) : ttl \in TTLs} ELSE {Never} :
              op' = [op EXCEPT ![t] = [NoOp EXCEPT !.kind = kind, !.key = k, !.expires = x, !.since = now]]
      BY <3>1
    <3>10. PICK x \in IF kind = "set" THEN {Expiry(ttl) : ttl \in TTLs} ELSE {Never} :
             op' = [op EXCEPT ![t] = [NoOp EXCEPT !.kind = kind, !.key = k, !.expires = x, !.since = now]]
      BY <3>9
    <3> DEFINE o == [NoOp EXCEPT !.kind = kind, !.key = k, !.expires = x, !.since = now]
    <3>2. x \in {Never} \cup Times
      BY FileTimes DEF FileOK
    <3>3. kind \in Kinds
      BY DEF KindsOf, Kinds
    <3>4. o \in FileOp /\ o.kind = kind /\ o.key = k /\ o.since = now
      BY <1>0, <3>2, <3>3, FileFacts DEF FileOp
    <3>5. pc' = [pc EXCEPT ![t] = "lock"] /\ UNCHANGED <<now, file, lock, opened, given>>
      BY <2>1 DEF Call, Goto
    <3> HIDE DEF o
    <3>6. LocalsOK("lock", o)
      BY <1>0, <3>4 DEF LocalsOK
    <3>7. "lock" \in PCs /\ ~Inside("lock")
      BY DEF PCs, Inside
    <3>8. QED BY <1>0, <2>0, <3>10, <3>4, <3>5, <3>6, <3>7, FileMoved DEF o
  <2>2. CASE Lock(t)
    <3>1. /\ pc[t] = "lock" /\ lock = Free /\ lock' = t /\ pc' = [pc EXCEPT ![t] = "load"]
          /\ UNCHANGED <<now, file, opened, op, given>>
      BY <2>2 DEF Lock, CanLock, Goto
    <3>2. \A u \in Threads : ~Inside(pc[u])
      BY <3>1, LocalFileAssumption DEF FileOK, LockOK, Free
    <3>3. LocalsOK("load", op[t]) /\ "load" \in PCs /\ op' = [op EXCEPT ![t] = op[t]]
      BY <1>0, <2>0, <3>1 DEF LocalsOK, PCs
    <3>4. QED BY <1>0, <2>0, <3>1, <3>2, <3>3, FileMoved
  <2>3. CASE Load(t)
    <3> DEFINE o == [op[t] EXCEPT !.data = file]
    <3>1. /\ pc[t] = "load" /\ pc' = [pc EXCEPT ![t] = "act"] /\ op' = [op EXCEPT ![t] = o]
          /\ UNCHANGED <<now, file, lock, opened, given>>
      BY <1>0, <2>3 DEF Load, Goto
    <3>2. o \in FileOp /\ o.data = file /\ o.kind = op[t].kind /\ o.key = op[t].key /\ o.since = op[t].since
      BY <2>0 DEF FileOp, FileOK, FileTypes
    <3> HIDE DEF o
    <3>3. LocalsOK("act", o) /\ "act" \in PCs
      BY <2>0, <3>2 DEF LocalsOK, PCs
    <3>4. lock = t
      BY <3>1 DEF FileOK, LockOK, Inside
    <3>5. QED BY <1>0, <2>0, <3>1, <3>2, <3>3, <3>4, FileMoved
  <2>4. CASE Get(t) \/ Scan(t) \/ Set(t) \/ Delete(t) \/ Consume(t) \/ Incr(t)
    BY <2>4, FileActs
  <2>5. CASE Save(t)
    BY <2>5, FileSaved
  <2>6. CASE SaveFails(t) \/ Return(t)
    <3>1. /\ pc[t] \in {"save", "return"} /\ pc' = [pc EXCEPT ![t] = "idle"]
          /\ op' = [op EXCEPT ![t] = NoOp] /\ UNCHANGED <<now, file, opened>>
      BY <2>6 DEF SaveFails, Return, Goto
    <3>2. given' \in Seq(FileEntry)
      <4>1. op[t].held \in FileEntry
        BY <2>0 DEF FileOp
      <4>2. Append(given, op[t].held) \in Seq(FileEntry)
        BY <1>0, <4>1
      <4>3. given' = given \/ given' = Append(given, op[t].held)
        BY <2>6 DEF SaveFails, Return
      <4>4. QED BY <1>0, <4>2, <4>3
    <3>3. lock = t
      BY <3>1 DEF FileOK, LockOK, Inside
    <3>4. "idle" \in PCs /\ ~Inside("idle")
      BY DEF PCs, Inside
    <3>5. QED BY <2>0, <2>9, <3>1, <3>2, <3>3, <3>4, FileFacts, FileMoved
  <2>7. QED BY <1>1, <2>1, <2>2, <2>3, <2>4, <2>5, <2>6 DEF Step
<1>2. CASE Crash
  <2>1. /\ pc' = [t \in Threads |-> "idle"] /\ op' = [t \in Threads |-> NoOp]
        /\ UNCHANGED <<now, file, opened, given>>
    BY <1>2 DEF Crash
  <2>2. FileTypes'
    BY <2>1, FileFacts DEF FileOK, FileTypes, FileOp, FileEntry, Kinds, Keys, Times, Never, MaxTTL, PCs
  <2>3. LockOK' /\ StampedOK'
    BY <2>1 DEF FileOK, LockOK, Inside, StampedOK, Keys, Nothing, Never
  <2>4. \A t \in Threads : LocalsOK("idle", NoOp)
    BY <1>0, FileFacts DEF LocalsOK
  <2>5. ThreadsOK'
    BY <2>1, <2>4 DEF ThreadsOK, LocalsOK, KindsOf, NoOp, Empty, Keys, Nothing, Never
  <2>6. QED BY <2>2, <2>3, <2>5 DEF FileOK
<1>3. CASE Tick
  <2>1. now < MaxTime /\ now' = now + 1 /\ UNCHANGED <<file, lock, opened, pc, op, given>>
    BY <1>3 DEF Tick
  <2>2. FileTypes'
    BY <1>0, <2>1, TypesLater DEF FileOK, FileTypes
  <2>3. LockOK' /\ StampedOK'
    BY <2>1 DEF FileOK, LockOK, Inside, StampedOK, Keys, Nothing, Never
  <2>4. \A k \in Keys : ~Alive(file[k]) => ~Alive(file[k])'
    <3>1. \A k \in Keys : file[k].expires \in Nat
      BY FileFacts DEF FileOK, FileTypes, FileEntry, Times
    <3>2. QED BY <1>0, <2>1, <3>1 DEF Alive, Nothing, Never
  <2>5. ASSUME NEW t \in Threads, SavesOK(op[t]) PROVE SavesOK(op[t])'
    <3>1. op[t].key \in Keys
      BY <1>0 DEF FileOp
    <3>2. QED BY <2>1, <2>4, <2>5, <3>1 DEF SavesOK, Keys, Nothing, Never, Without, KV!AliveAt,
                 KV!Nothing, KV!Never, Times, MaxTTL
  <2>6. \A t \in Threads : LocalsOK(pc[t], op[t])'
    <3> SUFFICES ASSUME NEW t \in Threads PROVE LocalsOK(pc[t], op[t])'
      OBVIOUS
    <3>1. LocalsOK(pc[t], op[t]) /\ op[t].since \in Nat
      BY <1>0 DEF FileOK, ThreadsOK, FileOp
    <3>2. QED BY <1>0, <2>1, <2>5, <3>1 DEF LocalsOK, KindsOf, NoOp, Empty, Keys, Nothing, Never
  <2>7. QED BY <2>2, <2>3, <2>6 DEF FileOK, ThreadsOK
<1>4. CASE UNCHANGED vars
  <2>1. UNCHANGED <<now, file, lock, opened, pc, op, given>>
    BY <1>4 DEF vars
  <2>2. FileTypes' /\ LockOK' /\ StampedOK'
    BY <2>1 DEF FileOK, FileTypes, FileOp, FileEntry, Kinds, Keys, Times, Never, MaxTTL, PCs,
                LockOK, Inside, StampedOK, Nothing
  <2>3. ASSUME NEW t \in Threads PROVE LocalsOK(pc[t], op[t])'
    <3>1. LocalsOK(pc[t], op[t])
      BY DEF FileOK, ThreadsOK
    <3>2. SavesOK(op[t]) => SavesOK(op[t])'
      BY <2>1 DEF SavesOK, Keys, Nothing, Never, Without, Alive, KV!AliveAt, KV!Nothing, KV!Never,
                  Times, MaxTTL
    <3>3. QED BY <2>1, <3>1, <3>2 DEF LocalsOK, KindsOf, NoOp, Empty, Keys, Nothing, Never
  <2>4. QED BY <2>2, <2>3 DEF FileOK, ThreadsOK
<1>5. QED BY <1>1, <1>2, <1>3, <1>4 DEF Next
-----------------------------------------------------------------------------
(* The file behaves as a store whose operations are atomic.                 *)

StageAt(at) == CASE at = "idle" -> "idle" [] at = "return" -> "done" [] OTHER -> "asked"
AskedAt(at, o) == [stage |-> StageAt(at), kind |-> o.kind, key |-> o.key,
                   expires |-> o.expires, since |-> o.since]
HeldAt(at, o) == IF at = "return" THEN o.held ELSE Nothing
AskedNow == [t \in Threads |-> AskedAt(pc[t], op[t])]
HeldNow == [t \in Threads |-> HeldAt(pc[t], op[t])]

\* A step of one thread, as the abstract store sees it.
LEMMA SeenStep ==
  ASSUME FileOK, NEW t \in Threads, NEW at, NEW o,
         pc' = [pc EXCEPT ![t] = at], op' = [op EXCEPT ![t] = o]
  PROVE  /\ AskedNow' = [AskedNow EXCEPT ![t] = AskedAt(at, o)]
         /\ HeldNow' = [HeldNow EXCEPT ![t] = HeldAt(at, o)]
         /\ AskedNow[t] = AskedAt(pc[t], op[t]) /\ HeldNow[t] = HeldAt(pc[t], op[t])
         /\ DOMAIN AskedNow = Threads /\ DOMAIN HeldNow = Threads
<1>1. /\ pc'[t] = at /\ op'[t] = o
      /\ \A u \in Threads \ {t} : pc'[u] = pc[u] /\ op'[u] = op[u]
  BY DEF FileOK, FileTypes
<1>2. AskedNow' = [u \in Threads |-> AskedAt(pc'[u], op'[u])]
  BY DEF AskedNow, AskedAt, StageAt
<1>3. HeldNow' = [u \in Threads |-> HeldAt(pc'[u], op'[u])]
  BY DEF HeldNow, HeldAt, Nothing, Never
<1>4. /\ \A u \in Threads : AskedNow[u] = AskedAt(pc[u], op[u]) /\ HeldNow[u] = HeldAt(pc[u], op[u])
      /\ DOMAIN AskedNow = Threads /\ DOMAIN HeldNow = Threads
      /\ AskedNow = [u \in Threads |-> AskedNow[u]] /\ HeldNow = [u \in Threads |-> HeldNow[u]]
  BY DEF AskedNow, HeldNow
<1>5. \A u \in Threads : AskedAt(pc'[u], op'[u]) = IF u = t THEN AskedAt(at, o) ELSE AskedNow[u]
  BY <1>1, <1>4
<1>6. \A u \in Threads : HeldAt(pc'[u], op'[u]) = IF u = t THEN HeldAt(at, o) ELSE HeldNow[u]
  BY <1>1, <1>4
<1>7. AskedNow' = [AskedNow EXCEPT ![t] = AskedAt(at, o)]
  BY <1>2, <1>4, <1>5
<1>8. HeldNow' = [HeldNow EXCEPT ![t] = HeldAt(at, o)]
  BY <1>3, <1>4, <1>6
<1>9. QED BY <1>4, <1>7, <1>8

LEMMA SeenIs ==
  /\ AskedNow = [t \in Threads |-> [stage |-> StageOf(t), kind |-> op[t].kind, key |-> op[t].key,
                                    expires |-> op[t].expires, since |-> op[t].since]]
  /\ HeldNow = [t \in Threads |-> IF pc[t] = "return" THEN op[t].held ELSE Nothing]
  /\ AskedNow' = [t \in Threads |-> [stage |-> StageOf(t), kind |-> op[t].kind, key |-> op[t].key,
                                     expires |-> op[t].expires, since |-> op[t].since]]'
  /\ HeldNow' = [t \in Threads |-> IF pc[t] = "return" THEN op[t].held ELSE Nothing]'
BY DEF AskedNow, HeldNow, AskedAt, HeldAt, StageAt, StageOf

LEMMA SeenCall ==
  ASSUME FileOK, NEW t \in Threads, Call(t) PROVE KV!Call(t)
<1>1. PICK o : op' = [op EXCEPT ![t] = o] /\ o.expires \in {Never} \cup Times /\ o.since = now
  <2>1. PICK k \in Keys : \E kind \in KindsOf(k) :
          \E x \in IF kind = "set" THEN {Expiry(ttl) : ttl \in TTLs} ELSE {Never} :
            op' = [op EXCEPT ![t] = [NoOp EXCEPT !.kind = kind, !.key = k, !.expires = x, !.since = now]]
    BY DEF Call
  <2>2. PICK kind \in KindsOf(k) :
          \E x \in IF kind = "set" THEN {Expiry(ttl) : ttl \in TTLs} ELSE {Never} :
            op' = [op EXCEPT ![t] = [NoOp EXCEPT !.kind = kind, !.key = k, !.expires = x, !.since = now]]
    BY <2>1
  <2>3. PICK x \in IF kind = "set" THEN {Expiry(ttl) : ttl \in TTLs} ELSE {Never} :
          op' = [op EXCEPT ![t] = [NoOp EXCEPT !.kind = kind, !.key = k, !.expires = x, !.since = now]]
    BY <2>2
  <2>4. x \in {Never} \cup Times
    BY FileTimes DEF FileOK
  <2> DEFINE o == [NoOp EXCEPT !.kind = kind, !.key = k, !.expires = x, !.since = now]
  <2>5. o.expires = x /\ o.since = now
    BY FileFacts DEF FileOp
  <2>6. QED BY <2>3, <2>4, <2>5
<1>2. pc[t] = "idle" /\ pc' = [pc EXCEPT ![t] = "lock"] /\ UNCHANGED <<now, file, opened, given>>
  BY DEF Call, Goto
<1>3. /\ AskedNow' = [AskedNow EXCEPT ![t] = AskedAt("lock", o)]
      /\ HeldNow' = [HeldNow EXCEPT ![t] = HeldAt("lock", o)]
      /\ AskedNow[t] = AskedAt("idle", op[t]) /\ HeldNow[t] = HeldAt("idle", op[t])
      /\ DOMAIN AskedNow = Threads /\ DOMAIN HeldNow = Threads
  <2>1. /\ AskedNow' = [AskedNow EXCEPT ![t] = AskedAt("lock", o)]
        /\ HeldNow' = [HeldNow EXCEPT ![t] = HeldAt("lock", o)]
        /\ AskedNow[t] = AskedAt(pc[t], op[t]) /\ HeldNow[t] = HeldAt(pc[t], op[t])
        /\ DOMAIN AskedNow = Threads /\ DOMAIN HeldNow = Threads
    BY <1>1, <1>2, SeenStep
  <2>2. QED BY <1>2, <2>1
<1>4. HeldNow' = HeldNow
  BY <1>3 DEF HeldAt, HeldNow
<1>5. /\ AskedNow[t].stage = "idle" /\ AskedNow'[t].stage = "asked"
      /\ AskedNow'[t].expires \in {Never} \cup Times /\ AskedNow'[t].since = now
      /\ AskedNow' = [AskedNow EXCEPT ![t] = AskedNow'[t]]
  <2>1. AskedNow'[t] = AskedAt("lock", o)
    BY <1>3 DEF AskedNow
  <2>2. QED BY <1>1, <1>3, <2>1 DEF AskedAt, StageAt
<1>6. QED BY <1>2, <1>4, <1>5, SeenIs DEF KV!Call, KV!Expiries, KV!Never, Never

\* A thread that comes to return has its operation done, and holds the answer.
LEMMA SeenDone ==
  ASSUME FileOK, NEW t \in Threads, pc[t] \in {"act", "save"}, NEW o,
         pc' = [pc EXCEPT ![t] = "return"], op' = [op EXCEPT ![t] = o],
         o.kind = op[t].kind, o.key = op[t].key, o.expires = op[t].expires, o.since = op[t].since
  PROVE  /\ AskedNow[t].stage = "asked" /\ AskedNow[t].kind = op[t].kind
         /\ AskedNow' = [AskedNow EXCEPT ![t].stage = "done"]
         /\ HeldNow' = [HeldNow EXCEPT ![t] = o.held]
         /\ o.held = Nothing => HeldNow' = HeldNow
<1>1. /\ AskedNow' = [AskedNow EXCEPT ![t] = AskedAt("return", o)]
      /\ HeldNow' = [HeldNow EXCEPT ![t] = HeldAt("return", o)]
      /\ AskedNow[t] = AskedAt(pc[t], op[t]) /\ HeldNow[t] = HeldAt(pc[t], op[t])
      /\ DOMAIN AskedNow = Threads /\ DOMAIN HeldNow = Threads
  BY SeenStep
<1>2. HeldAt("return", o) = o.held /\ HeldAt(pc[t], op[t]) = Nothing
  BY DEF HeldAt
<1>3. HeldNow' = [HeldNow EXCEPT ![t] = o.held]
  BY <1>1, <1>2
<1>4. o.held = Nothing => HeldNow' = HeldNow
  BY <1>1, <1>2, <1>3 DEF HeldNow
<1>5. StageAt("return") = "done" /\ StageAt(pc[t]) = "asked"
  BY DEF StageAt
<1>6. AskedAt("return", o) = [AskedNow[t] EXCEPT !.stage = "done"]
  BY <1>1, <1>5 DEF AskedAt
<1>7. AskedNow' = [AskedNow EXCEPT ![t].stage = "done"]
  BY <1>1, <1>6
<1>8. AskedNow[t].stage = "asked" /\ AskedNow[t].kind = op[t].kind
  BY <1>1, <1>5 DEF AskedAt
<1>9. QED BY <1>3, <1>4, <1>7, <1>8

\* The key an operation is for, when it was called, and the abstract store's words.
LEMMA SeenKey ==
  ASSUME FileOK, NEW t \in Threads
  PROVE  /\ AskedNow[t].key = op[t].key /\ AskedNow[t].expires = op[t].expires
         /\ AskedNow[t].since = op[t].since
         /\ file \in [Keys -> FileEntry] /\ op[t] \in FileOp /\ op[t].key \in Keys
         /\ KV!Nothing = Nothing /\ \A x : KV!Alive(x) <=> Alive(x)
<1>1. /\ AskedNow[t].key = op[t].key /\ AskedNow[t].expires = op[t].expires
      /\ AskedNow[t].since = op[t].since
  BY DEF AskedNow, AskedAt
<1>2. file \in [Keys -> FileEntry] /\ op[t] \in FileOp /\ op[t].key \in Keys
  BY DEF FileOK, FileTypes, FileOp
<1>3. KV!Nothing = Nothing /\ \A x : KV!Alive(x) <=> Alive(x)
  BY DEF KV!Alive, KV!AliveAt, Alive, KV!Nothing, KV!Never, Nothing, Never
<1>4. QED BY <1>1, <1>2, <1>3

\* What an operation does to the file is what it does to the abstract store.
LEMMA SeenGet ==
  ASSUME FileOK, NEW t \in Threads, AskedNow[t].stage = "asked", AskedNow[t].kind = "get",
         AskedNow' = [AskedNow EXCEPT ![t].stage = "done"], UNCHANGED <<now, opened, given>>,
         NEW e, HeldNow' = [HeldNow EXCEPT ![t] = e],
         \/ Alive(file[op[t].key]) /\ e = file[op[t].key] /\ file' = file
         \/ ~Alive(file[op[t].key]) /\ e = Nothing /\ file' = Without(file, op[t].key)
  PROVE  KV!Get(t)
<1> DEFINE k == op[t].key
<1>1. AskedNow[t].key = k /\ file \in [Keys -> FileEntry] /\ k \in Keys
      /\ KV!Nothing = Nothing /\ (KV!Alive(file[k]) <=> Alive(file[k]))
  BY SeenKey
<1>2. e = IF KV!Alive(file[k]) THEN file[k] ELSE KV!Nothing
  BY <1>1
<1>3. file' = [file EXCEPT ![k] = IF KV!Alive(file[k]) THEN file[k] ELSE KV!Nothing]
  BY <1>1 DEF Without
<1> HIDE DEF k
<1>4. QED BY <1>1, <1>2, <1>3, SeenIs DEF KV!Get, KV!Asking, KV!Done, KV!Holds

LEMMA SeenScan ==
  ASSUME FileOK, NEW t \in Threads, AskedNow[t].stage = "asked", AskedNow[t].kind = "scan",
         AskedNow' = [AskedNow EXCEPT ![t].stage = "done"], UNCHANGED <<now, opened, given>>,
         HeldNow' = HeldNow, DOMAIN file' = Keys,
         \A l \in Keys : file'[l] = file[l] \/ (file'[l] = Nothing /\ ~Alive(file[l]))
  PROVE  KV!Scan(t)
<1>1. KV!Nothing = Nothing /\ \A x : KV!Alive(x) <=> Alive(x)
  BY SeenKey
<1>2. QED BY <1>1, SeenIs DEF KV!Scan, KV!Asking, KV!Done

LEMMA SeenSet ==
  ASSUME FileOK, NEW t \in Threads, AskedNow[t].stage = "asked", AskedNow[t].kind = "set",
         AskedNow' = [AskedNow EXCEPT ![t].stage = "done"], UNCHANGED <<now, given>>,
         HeldNow' = HeldNow, opened' = opened + 1,
         file' = [file EXCEPT ![op[t].key] =
                    [stamp |-> opened + 1, value |-> 1, expires |-> op[t].expires]]
  PROVE  KV!Set(t)
BY SeenKey, SeenIs DEF KV!Set, KV!Asking, KV!Done, KV!Opened

LEMMA SeenDelete ==
  ASSUME FileOK, NEW t \in Threads, AskedNow[t].stage = "asked", AskedNow[t].kind = "delete",
         AskedNow' = [AskedNow EXCEPT ![t].stage = "done"], UNCHANGED <<now, opened, given>>,
         HeldNow' = HeldNow, file' = Without(file, op[t].key)
  PROVE  KV!Delete(t)
BY SeenKey, SeenIs DEF KV!Delete, KV!Asking, KV!Done, Without

LEMMA SeenConsume ==
  ASSUME FileOK, NEW t \in Threads, AskedNow[t].stage = "asked", AskedNow[t].kind = "consume",
         AskedNow' = [AskedNow EXCEPT ![t].stage = "done"], UNCHANGED <<now, opened, given>>,
         HeldNow' = [HeldNow EXCEPT ![t] = file[op[t].key]], file' = Without(file, op[t].key)
  PROVE  KV!Consume(t)
<1> DEFINE k == op[t].key
<1>1. AskedNow[t].key = k /\ KV!Nothing = Nothing
  BY SeenKey
<1>2. file' = [file EXCEPT ![k] = KV!Nothing] /\ HeldNow' = [HeldNow EXCEPT ![t] = file[k]]
  BY <1>1 DEF Without
<1> HIDE DEF k
<1>3. QED BY <1>1, <1>2, SeenIs DEF KV!Consume, KV!Asking, KV!Done, KV!Holds

LEMMA SeenIncr ==
  ASSUME FileOK, NEW t \in Threads, AskedNow[t].stage = "asked", AskedNow[t].kind = "incr",
         AskedNow' = [AskedNow EXCEPT ![t].stage = "done"], UNCHANGED <<now, given>>,
         NEW e, HeldNow' = [HeldNow EXCEPT ![t] = e], file' = [file EXCEPT ![op[t].key] = e],
         \/ /\ KV!AliveAt(file[op[t].key], op[t].since)
            /\ e = [file[op[t].key] EXCEPT !.value = @ + 1] /\ opened' = opened
         \/ /\ ~Alive(file[op[t].key]) /\ opened' = opened + 1
            /\ \E x \in {Never} \cup Times : e = [stamp |-> opened + 1, value |-> 1, expires |-> x]
  PROVE  KV!Incr(t)
<1> DEFINE k == op[t].key
<1>1. /\ AskedNow[t].key = k /\ AskedNow[t].since = op[t].since
      /\ file \in [Keys -> FileEntry] /\ k \in Keys
      /\ KV!Alive(file[k]) <=> Alive(file[k])
  BY SeenKey
<1>2. file'[k] = e /\ HeldNow' = [HeldNow EXCEPT ![t] = file'[k]] /\ file' = [file EXCEPT ![k] = e]
  BY <1>1
<1>3. CASE /\ KV!AliveAt(file[k], op[t].since)
           /\ e = [file[k] EXCEPT !.value = @ + 1] /\ opened' = opened
  <2>1. file' = [file EXCEPT ![k].value = @ + 1]
    BY <1>1, <1>2, <1>3
  <2> HIDE DEF k
  <2>2. QED BY <1>1, <1>2, <1>3, <2>1, SeenIs DEF KV!Incr, KV!Asking, KV!Done, KV!Holds
<1>4. CASE /\ ~Alive(file[k]) /\ opened' = opened + 1
           /\ \E x \in {Never} \cup Times : e = [stamp |-> opened + 1, value |-> 1, expires |-> x]
  <2>1. PICK x \in {Never} \cup Times : e = [stamp |-> opened + 1, value |-> 1, expires |-> x]
    BY <1>4
  <2>2. x \in KV!Expiries /\ e = KV!Opened(x)
    BY <2>1 DEF KV!Expiries, KV!Never, Never, KV!Opened
  <2>3. \E y \in KV!Expiries : file' = [file EXCEPT ![k] = KV!Opened(y)]
    BY <1>2, <2>2
  <2>4. ~KV!Alive(file[k])
    BY <1>1, <1>4
  <2> HIDE DEF k
  <2>5. QED BY <1>1, <1>2, <1>4, <2>3, <2>4, SeenIs DEF KV!Incr, KV!Asking, KV!Done, KV!Holds
<1>5. QED BY <1>3, <1>4

\* A thread that has its answer without saving has read what the file holds.
LEMMA SeenAct ==
  ASSUME FileOK, NEW t \in Threads, NEW data, NEW e, Act(t, data, e, FALSE)
  PROVE  /\ AskedNow[t].stage = "asked" /\ AskedNow[t].kind = op[t].kind
         /\ AskedNow' = [AskedNow EXCEPT ![t].stage = "done"]
         /\ HeldNow' = [HeldNow EXCEPT ![t] = e]
         /\ e = Nothing => HeldNow' = HeldNow
         /\ UNCHANGED <<now, file, opened, given>>
<1> DEFINE o == [op[t] EXCEPT !.data = data, !.held = e]
<1>1. /\ pc[t] = "act" /\ pc' = [pc EXCEPT ![t] = "return"] /\ UNCHANGED <<now, file, opened, given>>
      /\ op' = [op EXCEPT ![t].data = data, ![t].held = e]
  BY DEF Act, Goto
<1>2. op[t] \in FileOp /\ op \in [Threads -> FileOp]
  BY DEF FileOK, FileTypes
<1>3. op' = [op EXCEPT ![t] = o]
  BY <1>1, <1>2
<1>4. o.kind = op[t].kind /\ o.key = op[t].key /\ o.expires = op[t].expires /\ o.since = op[t].since
  BY <1>2 DEF FileOp
<1>5. o.held = e
  BY <1>2 DEF FileOp
<1>6. pc[t] \in {"act", "save"}
  BY <1>1
<1> HIDE DEF o
<1>7. /\ AskedNow[t].stage = "asked" /\ AskedNow[t].kind = op[t].kind
      /\ AskedNow' = [AskedNow EXCEPT ![t].stage = "done"]
      /\ HeldNow' = [HeldNow EXCEPT ![t] = o.held]
      /\ o.held = Nothing => HeldNow' = HeldNow
  BY <1>1, <1>3, <1>4, <1>6, SeenDone
<1>8. QED BY <1>1, <1>5, <1>7

\* A thread that saves or gives up takes its effect in that step.
LEMMA SeenSave ==
  ASSUME FileOK, NEW t \in Threads, Save(t) PROVE KV!Next
<1> DEFINE p == op[t]
           k == op[t].key
<1>1. /\ pc[t] \in {"act", "save"} /\ pc' = [pc EXCEPT ![t] = "return"] /\ UNCHANGED <<now, op, given>>
      /\ p \in FileOp /\ op' = [op EXCEPT ![t] = p] /\ DOMAIN file' = Keys /\ p.kind \in Kinds
  <2>1. /\ pc[t] = "save" /\ pc' = [pc EXCEPT ![t] = "return"] /\ UNCHANGED <<now, op, given>>
        /\ file' = p.data
    BY DEF Save, Goto
  <2>2. p \in FileOp /\ op' = [op EXCEPT ![t] = p]
    BY <2>1 DEF FileOK, FileTypes
  <2>3. QED BY <2>1, <2>2 DEF FileOp
<1>2. /\ AskedNow[t].stage = "asked" /\ AskedNow[t].kind = p.kind
      /\ AskedNow' = [AskedNow EXCEPT ![t].stage = "done"]
      /\ HeldNow' = [HeldNow EXCEPT ![t] = p.held]
      /\ p.held = Nothing => HeldNow' = HeldNow
  BY <1>1, SeenDone
<1>3. /\ file' = p.data /\ SavesOK(p)
      /\ p.kind = "set" => opened' = opened + 1
      /\ p.kind \notin {"set", "incr"} => opened' = opened
  BY SaveSays
<1>4. p.kind = "incr" =>
        /\ file' = [file EXCEPT ![k] = p.held]
        /\ \/ /\ KV!AliveAt(file[k], p.since)
              /\ p.held = [file[k] EXCEPT !.value = @ + 1] /\ opened' = opened
           \/ /\ ~Alive(file[k]) /\ opened' = opened + 1
              /\ \E x \in {Never} \cup Times : p.held = [stamp |-> opened + 1, value |-> 1, expires |-> x]
  <2>1. p.kind = "incr" => file' = [file EXCEPT ![k] = p.held]
    BY <1>3 DEF SavesOK
  <2>2. p.kind = "incr" =>
          \/ /\ KV!AliveAt(file[k], p.since)
             /\ p.held = [file[k] EXCEPT !.value = @ + 1] /\ opened' = opened
          \/ /\ ~Alive(file[k]) /\ opened' = opened + 1
             /\ \E x \in {Never} \cup Times : p.held = [stamp |-> opened + 1, value |-> 1, expires |-> x]
    BY SaveSays
  <2>3. QED BY <2>1, <2>2
<1>5. CASE p.kind = "get"
  <2>1. p.data = Without(file, k) /\ ~Alive(file[k]) /\ p.held = Nothing
    BY <1>3, <1>5 DEF SavesOK
  <2>2. KV!Get(t)
    BY <1>1, <1>2, <1>3, <1>5, <2>1, SeenGet
  <2>3. QED BY <2>2 DEF KV!Next
<1>6. CASE p.kind = "scan"
  <2>1. (\A l \in Keys : p.data[l] = file[l] \/ (p.data[l] = Nothing /\ ~Alive(file[l]))) /\ p.held = Nothing
    BY <1>3, <1>6 DEF SavesOK
  <2>2. KV!Scan(t)
    BY <1>1, <1>2, <1>3, <1>6, <2>1, SeenScan
  <2>3. QED BY <2>2 DEF KV!Next
<1>7. CASE p.kind = "set"
  <2>1. p.data = [file EXCEPT ![k] = [stamp |-> opened + 1, value |-> 1, expires |-> p.expires]]
        /\ p.held = Nothing
    BY <1>3, <1>7 DEF SavesOK
  <2>2. KV!Set(t)
    BY <1>1, <1>2, <1>3, <1>7, <2>1, SeenSet
  <2>3. QED BY <2>2 DEF KV!Next
<1>8. CASE p.kind = "delete"
  <2>1. p.data = Without(file, k) /\ p.held = Nothing
    BY <1>3, <1>8 DEF SavesOK
  <2>2. KV!Delete(t)
    BY <1>1, <1>2, <1>3, <1>8, <2>1, SeenDelete
  <2>3. QED BY <2>2 DEF KV!Next
<1>9. CASE p.kind = "consume"
  <2>1. p.data = Without(file, k) /\ p.held = file[k]
    BY <1>3, <1>9 DEF SavesOK
  <2>2. KV!Consume(t)
    BY <1>1, <1>2, <1>3, <1>9, <2>1, SeenConsume
  <2>3. QED BY <2>2 DEF KV!Next
<1>10. CASE p.kind = "incr"
  <2>1. KV!Incr(t)
    BY <1>1, <1>2, <1>4, <1>10, SeenIncr
  <2>2. QED BY <2>1 DEF KV!Next
<1>11. QED BY <1>1, <1>5, <1>6, <1>7, <1>8, <1>9, <1>10 DEF Kinds

LEMMA SeenActs ==
  ASSUME FileOK, NEW t \in Threads,
         Get(t) \/ Scan(t) \/ Set(t) \/ Delete(t) \/ Consume(t) \/ Incr(t)
  PROVE  KV!Next \/ UNCHANGED KV!vars
<1>1. file \in [Keys -> FileEntry] /\ op[t] \in FileOp /\ op[t].key \in Keys
      /\ op \in [Threads -> FileOp] /\ DOMAIN file = Keys
  BY DEF FileOK, FileTypes, FileOp
<1>2. ASSUME NEW data, NEW e, Act(t, data, e, TRUE) PROVE UNCHANGED KV!vars
  <2> DEFINE o == [op[t] EXCEPT !.data = data, !.held = e]
  <2>1. /\ pc[t] = "act" /\ pc' = [pc EXCEPT ![t] = "save"] /\ op' = [op EXCEPT ![t] = o]
        /\ UNCHANGED <<now, file, opened, given>>
    BY <1>1, <1>2 DEF Act, Goto
  <2>2. o.kind = op[t].kind /\ o.key = op[t].key /\ o.expires = op[t].expires /\ o.since = op[t].since
    BY <1>1 DEF FileOp
  <2> HIDE DEF o
  <2>3. /\ AskedNow' = [AskedNow EXCEPT ![t] = AskedAt("save", o)]
        /\ HeldNow' = [HeldNow EXCEPT ![t] = HeldAt("save", o)]
        /\ AskedNow[t] = AskedAt(pc[t], op[t]) /\ HeldNow[t] = HeldAt(pc[t], op[t])
        /\ DOMAIN AskedNow = Threads /\ DOMAIN HeldNow = Threads
    BY <2>1, SeenStep
  <2>4. AskedAt("save", o) = AskedAt(pc[t], op[t]) /\ HeldAt("save", o) = HeldAt(pc[t], op[t])
    BY <2>1, <2>2 DEF AskedAt, StageAt, HeldAt
  <2>5. AskedNow' = AskedNow /\ HeldNow' = HeldNow
    BY <2>3, <2>4 DEF AskedNow, HeldNow
  <2>6. QED BY <2>1, <2>5, SeenIs DEF KV!vars
<1>3. pc[t] = "act" /\ op[t].data = file
  <2>1. pc[t] = "act"
    BY DEF Get, Scan, Set, Delete, Consume, Incr, Act
  <2>2. QED BY <2>1 DEF FileOK, ThreadsOK, LocalsOK
<1> DEFINE k == op[t].key
<1>4. CASE Get(t)
  <2>1. CASE file[k] = Nothing \/ Alive(file[k])
    <3>1. op[t].kind = "get" /\ Act(t, file, file[k], FALSE)
      BY <1>3, <1>4, <2>1 DEF Get
    <3>2. /\ AskedNow[t].stage = "asked" /\ AskedNow[t].kind = "get"
          /\ AskedNow' = [AskedNow EXCEPT ![t].stage = "done"]
          /\ HeldNow' = [HeldNow EXCEPT ![t] = file[k]]
          /\ UNCHANGED <<now, file, opened, given>>
      BY <3>1, SeenAct
    <3>3. \/ Alive(file[k]) /\ file[k] = file[k] /\ file' = file
          \/ ~Alive(file[k]) /\ file[k] = Nothing /\ file' = Without(file, k)
      BY <1>1, <2>1, <3>2 DEF Without, Alive
    <3>4. PICK e : e = file[k]
      OBVIOUS
    <3>5. KV!Get(t)
      BY <3>2, <3>3, <3>4, SeenGet
    <3>6. QED BY <3>5 DEF KV!Next
  <2>2. CASE ~(file[k] = Nothing \/ Alive(file[k]))
    BY <1>2, <1>3, <1>4, <2>2 DEF Get
  <2>3. QED BY <2>1, <2>2
<1>5. CASE Scan(t)
  <2>1. PICK keys \in SUBSET Keys :
          LET expired == {l \in keys : file[l] # Nothing /\ ~Alive(file[l])}
          IN Act(t, [l \in Keys |-> IF l \in expired THEN Nothing ELSE file[l]], Nothing, expired # {})
    BY <1>3, <1>5 DEF Scan
  <2> DEFINE expired == {l \in keys : file[l] # Nothing /\ ~Alive(file[l])}
             data == [l \in Keys |-> IF l \in expired THEN Nothing ELSE file[l]]
  <2>2. Act(t, data, Nothing, expired # {})
    BY <2>1
  <2>3. CASE expired # {}
    <3>1. Act(t, data, Nothing, TRUE)
      BY <2>2, <2>3 DEF Act
    <3>2. QED BY <1>2, <3>1
  <2>4. CASE ~(expired # {})
    <3>1. Act(t, data, Nothing, FALSE) /\ op[t].kind = "scan"
      BY <1>5, <2>2, <2>4 DEF Act, Scan
    <3>2. /\ AskedNow[t].stage = "asked" /\ AskedNow[t].kind = "scan"
          /\ AskedNow' = [AskedNow EXCEPT ![t].stage = "done"] /\ HeldNow' = HeldNow
          /\ UNCHANGED <<now, file, opened, given>>
      BY <3>1, SeenAct
    <3>3. KV!Scan(t)
      BY <1>1, <3>2, SeenScan
    <3>4. QED BY <3>3 DEF KV!Next
  <2>5. QED BY <2>3, <2>4
<1>6. CASE Set(t)
  BY <1>2, <1>6 DEF Set
<1>7. CASE Delete(t)
  <2>1. CASE file[k] # Nothing
    BY <1>2, <1>3, <1>7, <2>1 DEF Delete, Act
  <2>2. CASE file[k] = Nothing
    <3>1. op[t].kind = "delete" /\ Act(t, Without(file, k), Nothing, FALSE)
      BY <1>3, <1>7, <2>2 DEF Delete, Act
    <3>2. /\ AskedNow[t].stage = "asked" /\ AskedNow[t].kind = "delete"
          /\ AskedNow' = [AskedNow EXCEPT ![t].stage = "done"] /\ HeldNow' = HeldNow
          /\ UNCHANGED <<now, file, opened, given>>
      BY <3>1, SeenAct
    <3>3. file' = Without(file, k)
      BY <1>1, <2>2, <3>2 DEF Without
    <3>4. KV!Delete(t)
      BY <3>2, <3>3, SeenDelete
    <3>5. QED BY <3>4 DEF KV!Next
  <2>3. QED BY <2>1, <2>2
<1>8. CASE Consume(t)
  <2>1. CASE file[k] # Nothing
    BY <1>2, <1>3, <1>8, <2>1 DEF Consume, Act
  <2>2. CASE file[k] = Nothing
    <3>1. op[t].kind = "consume" /\ Act(t, Without(file, k), file[k], FALSE)
      BY <1>3, <1>8, <2>2 DEF Consume, Act
    <3>2. /\ AskedNow[t].stage = "asked" /\ AskedNow[t].kind = "consume"
          /\ AskedNow' = [AskedNow EXCEPT ![t].stage = "done"]
          /\ HeldNow' = [HeldNow EXCEPT ![t] = file[k]]
          /\ UNCHANGED <<now, file, opened, given>>
      BY <3>1, SeenAct
    <3>3. file' = Without(file, k)
      BY <1>1, <2>2, <3>2 DEF Without
    <3>4. KV!Consume(t)
      BY <3>2, <3>3, SeenConsume
    <3>5. QED BY <3>4 DEF KV!Next
  <2>3. QED BY <2>1, <2>2
<1>9. CASE Incr(t)
  BY <1>2, <1>9 DEF Incr
<1>10. QED BY <1>4, <1>5, <1>6, <1>7, <1>8, <1>9

LEMMA SeenLeft ==
  ASSUME FileOK, NEW t \in Threads, NEW at, NEW o,
         pc' = [pc EXCEPT ![t] = at], op' = [op EXCEPT ![t] = o]
  PROVE  at = "idle" /\ o = NoOp => /\ AskedNow' = [AskedNow EXCEPT ![t] = KV!NoCall]
                                    /\ HeldNow' = [HeldNow EXCEPT ![t] = Nothing]
<1>1. /\ AskedNow' = [AskedNow EXCEPT ![t] = AskedAt(at, o)]
      /\ HeldNow' = [HeldNow EXCEPT ![t] = HeldAt(at, o)]
      /\ AskedNow[t] = AskedAt(pc[t], op[t]) /\ HeldNow[t] = HeldAt(pc[t], op[t])
      /\ DOMAIN AskedNow = Threads /\ DOMAIN HeldNow = Threads
  BY SeenStep
<1>2. at = "idle" => StageAt(at) = "idle"
  BY DEF StageAt
<1>3. AskedAt(at, NoOp) = [stage |-> StageAt(at), kind |-> "get", key |-> NoOp.key,
                          expires |-> Never, since |-> 0]
  BY DEF AskedAt, NoOp
<1>4. NoOp.key = CHOOSE l \in Keys : TRUE
  BY DEF NoOp
<1>5. at = "idle" => AskedAt(at, NoOp) = KV!NoCall
  BY <1>2, <1>3, <1>4 DEF KV!NoCall, KV!Never, Never
<1>6. at = "idle" => HeldAt(at, o) = Nothing
  BY DEF HeldAt
<1>7. at = "idle" /\ o = NoOp => AskedNow' = [AskedNow EXCEPT ![t] = KV!NoCall]
  BY <1>1, <1>5
<1>8. at = "idle" /\ o = NoOp => HeldNow' = [HeldNow EXCEPT ![t] = Nothing]
  BY <1>1, <1>6
<1>9. QED BY <1>7, <1>8

LEMMA SeenIdle ==
  ASSUME FileOK, NEW t \in Threads, pc[t] \in {"lock", "load"}, NEW at \in {"load", "act"}, NEW o,
         pc' = [pc EXCEPT ![t] = at], op' = [op EXCEPT ![t] = o],
         o.kind = op[t].kind, o.key = op[t].key, o.expires = op[t].expires, o.since = op[t].since,
         UNCHANGED <<now, file, opened, given>>
  PROVE  UNCHANGED KV!vars
<1>1. /\ AskedNow' = [AskedNow EXCEPT ![t] = AskedAt(at, o)]
      /\ HeldNow' = [HeldNow EXCEPT ![t] = HeldAt(at, o)]
      /\ AskedNow[t] = AskedAt(pc[t], op[t]) /\ HeldNow[t] = HeldAt(pc[t], op[t])
      /\ DOMAIN AskedNow = Threads /\ DOMAIN HeldNow = Threads
  BY SeenStep
<1>2. AskedAt(at, o) = AskedAt(pc[t], op[t]) /\ HeldAt(at, o) = HeldAt(pc[t], op[t])
  BY DEF AskedAt, StageAt, HeldAt
<1>3. AskedNow' = AskedNow /\ HeldNow' = HeldNow
  BY <1>1, <1>2 DEF AskedNow, HeldNow
<1>4. QED BY <1>3, SeenIs DEF KV!vars

\* Every step of the file is one of the abstract store, or changes nothing in it.
LEMMA StoreStep == FileOK /\ [Next]_vars => [KV!Next]_(KV!vars)
<1> SUFFICES ASSUME FileOK, [Next]_vars PROVE KV!Next \/ UNCHANGED KV!vars
  OBVIOUS
<1>0. pc \in [Threads -> PCs] /\ op \in [Threads -> FileOp]
  BY DEF FileOK, FileTypes
<1>1. ASSUME NEW t \in Threads, Step(t) PROVE KV!Next \/ UNCHANGED KV!vars
  <2>1. CASE Call(t)
    BY <2>1, SeenCall DEF KV!Next
  <2>2. CASE Lock(t)
    <3>1. /\ pc[t] \in {"lock", "load"} /\ pc' = [pc EXCEPT ![t] = "load"]
          /\ op' = [op EXCEPT ![t] = op[t]] /\ UNCHANGED <<now, file, opened, given>>
      BY <1>0, <2>2 DEF Lock, Goto
    <3>2. QED BY <3>1, SeenIdle
  <2>3. CASE Load(t)
    <3> DEFINE o == [op[t] EXCEPT !.data = file]
    <3>1. /\ pc[t] \in {"lock", "load"} /\ pc' = [pc EXCEPT ![t] = "act"]
          /\ op' = [op EXCEPT ![t] = o] /\ UNCHANGED <<now, file, opened, given>>
      BY <1>0, <2>3 DEF Load, Goto
    <3>2. o.kind = op[t].kind /\ o.key = op[t].key /\ o.expires = op[t].expires /\ o.since = op[t].since
      BY <1>0 DEF FileOp
    <3> HIDE DEF o
    <3>3. QED BY <3>1, <3>2, SeenIdle
  <2>4. CASE Get(t) \/ Scan(t) \/ Set(t) \/ Delete(t) \/ Consume(t) \/ Incr(t)
    BY <2>4, SeenActs
  <2>5. CASE Save(t)
    BY <2>5, SeenSave
  <2>6. CASE SaveFails(t)
    <3>1. /\ pc[t] = "save" /\ pc' = [pc EXCEPT ![t] = "idle"] /\ op' = [op EXCEPT ![t] = NoOp]
          /\ UNCHANGED <<now, file, opened, given>>
      BY <2>6 DEF SaveFails, Goto
    <3>2. AskedNow' = [AskedNow EXCEPT ![t] = KV!NoCall] /\ HeldNow' = [HeldNow EXCEPT ![t] = Nothing]
      BY <3>1, SeenLeft
    <3>3. AskedNow[t].stage = "asked" /\ HeldNow[t] = Nothing /\ HeldNow \in [Threads -> {HeldNow[u] : u \in Threads}]
      BY <3>1 DEF AskedNow, AskedAt, StageAt, HeldNow, HeldAt
    <3>4. HeldNow' = HeldNow
      BY <3>2, <3>3
    <3>5. KV!Fail(t)
      BY <3>1, <3>2, <3>3, <3>4, SeenIs DEF KV!Fail
    <3>6. QED BY <3>5 DEF KV!Next
  <2>7. CASE Return(t)
    <3>1. /\ pc[t] = "return" /\ pc' = [pc EXCEPT ![t] = "idle"] /\ op' = [op EXCEPT ![t] = NoOp]
          /\ UNCHANGED <<now, file, opened>>
          /\ given' = IF Answers(t) THEN Append(given, op[t].held) ELSE given
      BY <2>7 DEF Return, Goto
    <3>2. AskedNow' = [AskedNow EXCEPT ![t] = KV!NoCall] /\ HeldNow' = [HeldNow EXCEPT ![t] = Nothing]
      BY <3>1, SeenLeft
    <3>3. AskedNow[t].stage = "done" /\ AskedNow[t].kind = op[t].kind /\ HeldNow[t] = op[t].held
      BY <3>1 DEF AskedNow, AskedAt, StageAt, HeldNow, HeldAt
    <3>4. KV!Nothing = Nothing /\ \A x : KV!Alive(x) <=> Alive(x)
      BY SeenKey
    <3>5. Answers(t) <=> (AskedNow[t].kind = "incr" \/ (AskedNow[t].kind = "consume" /\ KV!Alive(HeldNow[t])))
      BY <3>3, <3>4 DEF Answers
    <3>6. KV!Answers(t) <=> (AskedNow[t].kind = "incr" \/ (AskedNow[t].kind = "consume" /\ KV!Alive(HeldNow[t])))
      BY SeenIs DEF KV!Answers
    <3>7. given' = IF KV!Answers(t) THEN Append(given, HeldNow[t]) ELSE given
      BY <3>1, <3>3, <3>5, <3>6
    <3>8. KV!Return(t)
      BY <3>1, <3>2, <3>3, <3>4, <3>7, SeenIs DEF KV!Return, KV!Holds
    <3>9. QED BY <3>8 DEF KV!Next
  <2>8. QED BY <1>1, <2>1, <2>2, <2>3, <2>4, <2>5, <2>6, <2>7 DEF Step
<1>2. CASE Crash
  <2>1. /\ pc' = [t \in Threads |-> "idle"] /\ op' = [t \in Threads |-> NoOp]
        /\ UNCHANGED <<now, file, opened, given>>
    BY <1>2 DEF Crash
  <2>2. AskedNow' = [t \in Threads |-> KV!NoCall] /\ HeldNow' = [t \in Threads |-> KV!Nothing]
    <3>1. AskedAt("idle", NoOp) = KV!NoCall /\ HeldAt("idle", NoOp) = KV!Nothing
      BY DEF AskedAt, StageAt, HeldAt, NoOp, KV!NoCall, KV!Nothing, KV!Never, Never, Nothing
    <3>2. AskedNow' = [t \in Threads |-> AskedAt(pc'[t], op'[t])]
      BY DEF AskedNow, AskedAt, StageAt
    <3>3. HeldNow' = [t \in Threads |-> HeldAt(pc'[t], op'[t])]
      BY DEF HeldNow, HeldAt, Nothing, Never
    <3>4. QED BY <2>1, <3>1, <3>2, <3>3
  <2>3. KV!Crash
    BY <2>1, <2>2, SeenIs DEF KV!Crash
  <2>4. QED BY <2>3 DEF KV!Next
<1>3. CASE Tick
  <2>1. AskedNow' = AskedNow /\ HeldNow' = HeldNow
    BY <1>3 DEF Tick, AskedNow, AskedAt, StageAt, HeldNow, HeldAt, Nothing, Never
  <2>2. KV!Tick
    BY <1>3, <2>1, SeenIs DEF Tick, KV!Tick
  <2>3. QED BY <2>2 DEF KV!Next
<1>4. CASE UNCHANGED vars
  <2>1. AskedNow' = AskedNow /\ HeldNow' = HeldNow
    BY <1>4 DEF vars, AskedNow, AskedAt, StageAt, HeldNow, HeldAt, Nothing, Never
  <2>2. QED BY <1>4, <2>1, SeenIs DEF vars, KV!vars
<1>5. QED BY <1>1, <1>2, <1>3, <1>4 DEF Next

LEMMA StoreInit == Init => KV!Init
<1> SUFFICES ASSUME Init PROVE KV!Init
  OBVIOUS
<1>1. /\ pc = [t \in Threads |-> "idle"] /\ op = [t \in Threads |-> NoOp]
      /\ file = Empty /\ now = 0 /\ opened = 0 /\ given = <<>>
  BY DEF Init
<1>2. AskedNow = [t \in Threads |-> KV!NoCall] /\ HeldNow = [t \in Threads |-> KV!Nothing]
  <2>1. AskedAt("idle", NoOp) = KV!NoCall /\ HeldAt("idle", NoOp) = KV!Nothing
    BY DEF AskedAt, StageAt, HeldAt, NoOp, KV!NoCall, KV!Nothing, KV!Never, Never, Nothing
  <2>2. QED BY <1>1, <2>1 DEF AskedNow, HeldNow
<1>3. file \in [Keys -> {KV!Nothing}]
  BY <1>1 DEF Empty, Nothing, KV!Nothing, Never, KV!Never
<1>4. QED BY <1>1, <1>2, <1>3, SeenIs DEF KV!Init

\* The file behaves as a store whose operations are atomic.
THEOREM FileIsAStore == CliSpec => ImplementsKV
<1>1. Spec => []FileOK
  BY FileInit, FileStep, PTL DEF Spec
<1>2. QED BY <1>1, FileSpec, StoreInit, StoreStep, PTL DEF Spec, ImplementsKV, KV!Spec
-----------------------------------------------------------------------------
(* What the store in a file hands out.                                      *)

\* What was answered with can never be answered with again: its entry is gone, or
\* counts on.
Spent(e) ==
  /\ e.stamp \in 1..opened /\ e.value \in Nat
  /\ \A k \in Keys : file[k].stamp = e.stamp => k \in Counters /\ e.value <= file[k].value
Fresh(e) == \A i \in 1..Len(given) : given[i] # e
Stamps == \A k, l \in Keys : file[k].stamp = file[l].stamp /\ file[k] # Nothing => k = l
ReturnOK(at, o) ==
  at = "return" => /\ o.kind = "incr" => o.held # Nothing
                   /\ o.kind \in {"consume", "incr"} /\ o.held # Nothing => Spent(o.held) /\ Fresh(o.held)
AllSpent == \A i \in 1..Len(given) : Spent(given[i])
ReturnsOK == \A t \in Threads : ReturnOK(pc[t], op[t])
GivenOK == Stamps /\ AllSpent /\ GivenOnce /\ ReturnsOK

LEMMA GivenIs == GivenOnce <=> \A i, j \in 1..Len(given) : given[i] = given[j] => i = j
BY DEF GivenOnce, KV!GivenOnce

LEMMA GivenIsLater == GivenOnce' <=> \A i, j \in 1..Len(given') : given'[i] = given'[j] => i = j
BY DEF GivenOnce, KV!GivenOnce

LEMMA GivenInit == Init => GivenOK
<1> SUFFICES ASSUME Init PROVE GivenOK
  OBVIOUS
<1>1. given = <<>> /\ file = Empty /\ pc = [t \in Threads |-> "idle"]
  BY DEF Init
<1>2. GivenOnce /\ AllSpent
  BY <1>1, GivenIs DEF AllSpent
<1>3. Stamps
  BY <1>1 DEF Stamps, Empty
<1>4. ReturnsOK
  BY <1>1 DEF ReturnsOK, ReturnOK
<1>5. QED BY <1>2, <1>3, <1>4 DEF GivenOK

\* Where the file, the numbers and the answers stay, only the threads matter.
LEMMA GivenStays ==
  ASSUME GivenOK, UNCHANGED <<file, opened, given>>,
         \A t \in Threads : ReturnOK(pc'[t], op'[t])
  PROVE  GivenOK'
<1>1. Stamps'
  BY DEF GivenOK, Stamps, Keys, Nothing, Never
<1>2. AllSpent'
  BY DEF GivenOK, AllSpent, Spent, Keys
<1>3. GivenOnce'
  BY GivenIs, GivenIsLater DEF GivenOK
<1>4. ReturnsOK'
  BY DEF ReturnsOK, ReturnOK, Spent, Fresh, Keys, Nothing, Never
<1>5. QED BY <1>1, <1>2, <1>3, <1>4 DEF GivenOK

LEMMA GivenSaved ==
  ASSUME FileOK, GivenOK, NEW t \in Threads, Save(t)
  PROVE  GivenOK'
<1> DEFINE p == op[t]
           k == op[t].key
<1>1. /\ pc[t] = "save" /\ lock = t /\ file' = p.data /\ SavesOK(p) /\ p \in FileOp
      /\ \A l \in Keys : file'[l] \in {file[l], Nothing} \/ (l = k /\ p.kind \in {"set", "incr"})
  BY SaveSays
<1>2. /\ p.kind = "set" => /\ file'[k] = [stamp |-> opened + 1, value |-> 1, expires |-> p.expires]
                           /\ opened' = opened + 1
      /\ p.kind = "incr" =>
           /\ file'[k] = p.held
           /\ \/ KV!AliveAt(file[k], p.since) /\ p.held = [file[k] EXCEPT !.value = @ + 1] /\ opened' = opened
              \/ /\ opened' = opened + 1
                 /\ \E x \in {Never} \cup Times : p.held = [stamp |-> opened + 1, value |-> 1, expires |-> x]
      /\ p.kind \notin {"set", "incr"} => opened' = opened
  BY SaveSays
<1>3. /\ file \in [Keys -> FileEntry] /\ k \in Keys /\ opened \in Nat /\ opened' \in {opened, opened + 1}
      /\ file' \in [Keys -> FileEntry]
  BY <1>1 DEF FileOK, FileTypes, FileOp, Save
<1>4. /\ pc' = [pc EXCEPT ![t] = "return"] /\ pc \in [Threads -> PCs] /\ UNCHANGED <<now, lock, op, given>>
  BY DEF Save, Goto, FileOK, FileTypes
<1>5. \A l \in Keys : file[l] = Nothing \/ (file[l].stamp \in 1..opened /\ file[l].value >= 1)
  BY DEF FileOK, StampedOK
<1>6. Nothing.stamp = 0 /\ Nothing.value = 0 /\ Tokens \cap Counters = {}
  BY FileFacts
<1>7. p.kind \in KindsOf(k) /\ p.kind \in Kinds /\ p.held \in FileEntry
  BY <1>1 DEF FileOK, ThreadsOK, LocalsOK, FileOp
<1> HIDE DEF p, k
\* The entry that the operation writes, and the one it found.
<1>8. p.kind \in {"set", "incr"} =>
        \/ file'[k].stamp = opened + 1 /\ opened' = opened + 1
        \/ /\ file'[k].stamp = file[k].stamp /\ file'[k].value = file[k].value + 1
           /\ file[k] # Nothing /\ k \in Counters
  <2>1. CASE p.kind = "set"
    BY <1>2, <2>1
  <2>2. CASE p.kind = "incr"
    <3>1. CASE KV!AliveAt(file[k], p.since) /\ p.held = [file[k] EXCEPT !.value = @ + 1]
      <4>1. file[k] # Nothing
        BY <3>1 DEF KV!AliveAt, KV!Nothing, KV!Never, Nothing, Never
      <4>2. file'[k].stamp = file[k].stamp /\ file'[k].value = file[k].value + 1
        BY <1>2, <1>3, <2>2, <3>1 DEF FileEntry
      <4>3. k \in Counters
        BY <1>3, <1>7, <2>2 DEF KindsOf, Keys
      <4>4. QED BY <4>1, <4>2, <4>3
    <3>2. CASE opened' = opened + 1 /\ \E x \in {Never} \cup Times :
                 p.held = [stamp |-> opened + 1, value |-> 1, expires |-> x]
      BY <1>2, <2>2, <3>2
    <3>3. QED BY <1>2, <2>2, <3>1, <3>2
  <2>3. QED BY <2>1, <2>2
<1>9. Stamps'
  <2>1. \A l, m \in Keys : file[l].stamp = file[m].stamp /\ file[l] # Nothing => l = m
    BY DEF GivenOK, Stamps
  <2>2. ASSUME NEW l \in Keys, NEW m \in Keys, file'[l].stamp = file'[m].stamp, file'[l] # Nothing
        PROVE  l = m
    <3>1. file'[l].stamp # 0
      BY <1>1, <1>3, <1>5, <1>8, <2>2
    <3>2. file'[m] # Nothing
      BY <1>6, <2>2, <3>1
    <3>3. CASE p.kind \in {"set", "incr"} /\ file'[k].stamp = opened + 1
      BY <1>1, <1>3, <1>5, <2>1, <2>2, <3>2, <3>3
    <3>4. CASE p.kind \in {"set", "incr"} /\ file'[k].stamp = file[k].stamp /\ file[k] # Nothing
      BY <1>1, <2>1, <2>2, <3>2, <3>4
    <3>5. CASE p.kind \notin {"set", "incr"}
      BY <1>1, <2>1, <2>2, <3>2, <3>5
    <3>6. QED BY <1>8, <3>3, <3>4, <3>5
  <2>3. QED BY <2>2 DEF Stamps, Keys, Nothing, Never
\* What was spent stays spent.
<1>10. ASSUME NEW e, Spent(e)
       PROVE  /\ e.stamp \in 1..opened' /\ e.value \in Nat
              /\ \A l \in Keys : file'[l].stamp = e.stamp => l \in Counters /\ e.value <= file'[l].value
  <2>1. /\ e.stamp \in 1..opened /\ e.value \in Nat
        /\ \A l \in Keys : file[l].stamp = e.stamp => l \in Counters /\ e.value <= file[l].value
    BY <1>10 DEF Spent
  <2>2. ASSUME NEW l \in Keys, file'[l].stamp = e.stamp
        PROVE  l \in Counters /\ e.value <= file'[l].value
    <3>1. CASE file'[l] = file[l]
      BY <2>1, <2>2, <3>1
    <3>2. CASE file'[l] = Nothing
      BY <1>6, <2>1, <2>2, <3>2
    <3>3. CASE l = k /\ p.kind \in {"set", "incr"}
      <4>1. file[k].value \in Nat /\ e.stamp # opened + 1
        BY <1>3, <2>1 DEF FileEntry
      <4>2. file[k].stamp = e.stamp /\ file'[k].value = file[k].value + 1
        BY <1>8, <2>2, <3>3, <4>1
      <4>3. k \in Counters /\ e.value <= file[k].value
        BY <1>3, <2>1, <4>2
      <4>4. QED BY <2>1, <3>3, <4>1, <4>2, <4>3
    <3>4. QED BY <1>1, <3>1, <3>2, <3>3
  <2>3. QED BY <1>3, <2>1, <2>2
<1>11. AllSpent'
  <2>1. \A i \in 1..Len(given) : Spent(given[i])
    BY DEF GivenOK, AllSpent
  <2>2. \A i \in 1..Len(given) :
          /\ given[i].stamp \in 1..opened' /\ given[i].value \in Nat
          /\ \A l \in Keys : file'[l].stamp = given[i].stamp => l \in Counters /\ given[i].value <= file'[l].value
    BY <1>10, <2>1
  <2>3. QED BY <1>4, <2>2 DEF AllSpent, Spent, Keys
<1>12. GivenOnce'
  BY <1>4, GivenIs, GivenIsLater DEF GivenOK
\* The thread holds an entry that nobody was answered with.
<1>13. p.kind \in {"consume", "incr"} /\ p.held # Nothing =>
         /\ p.held.stamp \in 1..opened' /\ p.held.value \in Nat
         /\ \A l \in Keys : file'[l].stamp = p.held.stamp => l \in Counters /\ p.held.value <= file'[l].value
         /\ \A i \in 1..Len(given) : given[i] # p.held
  <2>1. \A i \in 1..Len(given) :
          /\ given[i].stamp \in 1..opened /\ given[i].value \in Nat
          /\ \A l \in Keys : file[l].stamp = given[i].stamp => l \in Counters /\ given[i].value <= file[l].value
    BY DEF GivenOK, AllSpent, Spent
  <2>2. ASSUME p.kind = "consume", p.held # Nothing
        PROVE  /\ p.held.stamp \in 1..opened' /\ p.held.value \in Nat
               /\ \A l \in Keys : file'[l].stamp # p.held.stamp
               /\ \A i \in 1..Len(given) : given[i] # p.held
    <3>1. p.held = file[k] /\ file'[k] = Nothing
      BY <1>1, <1>3, <2>2 DEF SavesOK, Without, k, p
    <3>2. k \notin Counters
      BY <1>6, <1>7, <2>2 DEF KindsOf
    <3>3. p.held.stamp \in 1..opened' /\ p.held.value \in Nat
      BY <1>2, <1>3, <1>5, <2>2, <3>1 DEF FileEntry
    <3>4. \A i \in 1..Len(given) : given[i] # p.held
      BY <1>3, <2>1, <3>1, <3>2
    <3>5. \A l \in Keys : file[l].stamp = file[k].stamp => l = k
      BY <1>3, <2>2, <3>1 DEF GivenOK, Stamps
    <3>6. \A l \in Keys : file'[l] \in {file[l], Nothing}
      BY <1>1, <2>2
    <3>7. \A l \in Keys : file'[l].stamp # p.held.stamp
      BY <1>3, <1>6, <3>1, <3>3, <3>5, <3>6
    <3>8. QED BY <3>3, <3>4, <3>7
  <2>3. ASSUME p.kind = "incr"
        PROVE  /\ p.held.stamp \in 1..opened' /\ p.held.value \in Nat
               /\ \A l \in Keys : file'[l].stamp = p.held.stamp => l \in Counters /\ p.held.value <= file'[l].value
               /\ \A i \in 1..Len(given) : given[i] # p.held
    <3>1. file'[k] = p.held /\ k \in Counters /\ p.held.value \in Nat
      BY <1>2, <1>3, <1>7, <2>3 DEF KindsOf, Keys, FileEntry
    <3>2. \/ p.held.stamp = opened + 1 /\ opened' = opened + 1
          \/ /\ p.held.stamp = file[k].stamp /\ p.held.value = file[k].value + 1
             /\ file[k] # Nothing
      BY <1>8, <2>3, <3>1
    <3>3. p.held.stamp \in 1..opened'
      BY <1>3, <1>5, <3>2
    <3>4. \A l \in Keys : file'[l].stamp = p.held.stamp => l = k
      <4>1. p.held # Nothing
        BY <1>6, <3>3
      <4>2. \A l, m \in Keys : file'[l].stamp = file'[m].stamp /\ file'[l] # Nothing => l = m
        BY <1>9 DEF Stamps, Keys, Nothing, Never
      <4>3. QED BY <1>3, <3>1, <4>1, <4>2
    <3>5. \A i \in 1..Len(given) : given[i] # p.held
      <4>1. file[k].value \in Nat
        BY <1>3 DEF FileEntry
      <4>2. QED BY <1>3, <2>1, <3>2, <4>1
    <3>6. QED BY <3>1, <3>3, <3>4, <3>5
  <2>4. QED BY <2>2, <2>3
<1>14. p.kind = "incr" => p.held # Nothing
  <2>1. file[k].value \in Nat
    BY <1>3 DEF FileEntry
  <2>2. p.kind = "incr" => file'[k] = p.held /\ (p.held.value = 1 \/ p.held.value = file[k].value + 1)
    <3>1. CASE KV!AliveAt(file[k], p.since) /\ p.held = [file[k] EXCEPT !.value = @ + 1]
      <4>1. p.held.value = file[k].value + 1
        BY <1>3, <3>1 DEF FileEntry
      <4>2. QED BY <1>2, <4>1
    <3>2. CASE \E x \in {Never} \cup Times : p.held = [stamp |-> opened + 1, value |-> 1, expires |-> x]
      BY <1>2, <3>2
    <3>3. QED BY <1>2, <3>1, <3>2
  <2>3. QED BY <1>6, <2>1, <2>2
<1>15. ReturnsOK'
  <2>1. \A u \in Threads \ {t} : pc'[u] # "return"
    BY <1>1, <1>4 DEF FileOK, LockOK, Inside
  <2>2. op'[t] = p /\ p = op[t]
    BY <1>4 DEF p
  <2>3. ASSUME NEW u \in Threads PROVE ReturnOK(pc[u], op[u])'
    <3>1. CASE u # t
      BY <2>1, <3>1 DEF ReturnOK
    <3>2. CASE u = t
      BY <1>4, <1>13, <1>14, <2>2, <3>2 DEF ReturnOK, Spent, Fresh, Keys, Nothing, Never
    <3>3. QED BY <3>1, <3>2
  <2>4. QED BY <2>3 DEF ReturnsOK
<1>16. QED BY <1>9, <1>11, <1>12, <1>15 DEF GivenOK

LEMMA GivenReturned ==
  ASSUME FileOK, GivenOK, NEW t \in Threads, Return(t)
  PROVE  GivenOK'
<1> DEFINE e == op[t].held
<1>1. /\ pc[t] = "return" /\ pc' = [pc EXCEPT ![t] = "idle"] /\ UNCHANGED <<now, file, opened>>
      /\ given' = IF Answers(t) THEN Append(given, e) ELSE given
  BY DEF Return, Goto
<1>2. /\ given \in Seq(FileEntry) /\ pc \in [Threads -> PCs] /\ op[t] \in FileOp /\ e \in FileEntry
  BY DEF FileOK, FileTypes, FileOp
<1>3. \A u \in Threads : pc'[u] # "return"
  BY <1>1, <1>2 DEF FileOK, LockOK, Inside
<1>4. \A u \in Threads : ReturnOK(pc'[u], op'[u])
  BY <1>3 DEF ReturnOK
<1>5. CASE ~Answers(t)
  <2>1. given' = given
    BY <1>1, <1>5
  <2>2. QED BY <1>1, <1>4, <2>1, GivenStays
<1>6. CASE Answers(t)
  <2>1. ReturnOK(pc[t], op[t])
    BY DEF GivenOK, ReturnsOK
  <2>2. e # Nothing /\ op[t].kind \in {"consume", "incr"}
    BY <1>1, <1>6, <2>1 DEF ReturnOK, Answers, Alive
  <2>3. Spent(e) /\ Fresh(e)
    BY <1>1, <2>1, <2>2 DEF ReturnOK
  <2> HIDE DEF e
  <2>4. /\ given' = Append(given, e) /\ Len(given') = Len(given) + 1 /\ Len(given) \in Nat
        /\ \A i \in 1..Len(given) : given'[i] = given[i]
        /\ given'[Len(given) + 1] = e
    BY <1>1, <1>2, <1>6 DEF e
  <2>5. \A i \in 1..Len(given') : i = Len(given) + 1 \/ i \in 1..Len(given)
    BY <2>4
  <2>6. AllSpent'
    <3>1. \A i \in 1..Len(given) : Spent(given[i])
      BY DEF GivenOK, AllSpent
    <3>2. \A i \in 1..Len(given') : Spent(given'[i])
      BY <2>3, <2>4, <2>5, <3>1
    <3>3. QED BY <1>1, <3>2 DEF AllSpent, Spent, Keys
  <2>7. GivenOnce'
    <3>1. \A i, j \in 1..Len(given) : given[i] = given[j] => i = j
      BY GivenIs DEF GivenOK
    <3>2. \A i \in 1..Len(given) : given[i] # e
      BY <2>3 DEF Fresh
    <3>3. \A i, j \in 1..Len(given') : given'[i] = given'[j] => i = j
      BY <2>4, <2>5, <3>1, <3>2
    <3>4. QED BY <3>3, GivenIsLater
  <2>8. Stamps'
    BY <1>1 DEF GivenOK, Stamps, Keys, Nothing, Never
  <2>9. ReturnsOK'
    BY <1>3 DEF ReturnsOK, ReturnOK
  <2>10. QED BY <2>6, <2>7, <2>8, <2>9 DEF GivenOK
<1>7. QED BY <1>5, <1>6

LEMMA GivenStep == FileOK /\ GivenOK /\ [Next]_vars => GivenOK'
<1> SUFFICES ASSUME FileOK, GivenOK, [Next]_vars PROVE GivenOK'
  OBVIOUS
<1>0. /\ pc \in [Threads -> PCs] /\ op \in [Threads -> FileOp] /\ file \in [Keys -> FileEntry]
      /\ \A u \in Threads : ReturnOK(pc[u], op[u])
  BY DEF FileOK, FileTypes, GivenOK, ReturnsOK
<1>1. ASSUME NEW t \in Threads, Step(t) PROVE GivenOK'
  \* Every step but Save and Return, which comes to return with nothing to answer.
  <2>1. ASSUME NEW at, NEW o, pc' = [pc EXCEPT ![t] = at], op' = [op EXCEPT ![t] = o],
               UNCHANGED <<file, opened, given>>,
               at = "return" => o.kind # "incr" /\ (o.kind = "consume" => o.held = Nothing)
        PROVE  GivenOK'
    <3>1. \A u \in Threads : (u = t /\ pc'[u] = at /\ op'[u] = o) \/ (pc'[u] = pc[u] /\ op'[u] = op[u])
      BY <1>0, <2>1
    <3>2. ReturnOK(at, o)
      BY <2>1 DEF ReturnOK
    <3>3. \A u \in Threads : ReturnOK(pc'[u], op'[u])
      BY <1>0, <3>1, <3>2
    <3>4. QED BY <2>1, <3>3, GivenStays
  <2>2. CASE Call(t) \/ Lock(t) \/ Load(t) \/ SaveFails(t)
    <3>1. PICK at \in {"lock", "load", "act", "idle"} : pc' = [pc EXCEPT ![t] = at]
      BY <2>2 DEF Call, Lock, Load, SaveFails, Goto
    <3>2. \E o : op' = [op EXCEPT ![t] = o]
      <4>1. CASE Call(t)
        BY <4>1 DEF Call
      <4>2. CASE Lock(t)
        <5>1. op' = [op EXCEPT ![t] = op[t]]
          BY <1>0, <4>2 DEF Lock
        <5>2. QED BY <5>1
      <4>3. CASE Load(t)
        <5>1. op' = [op EXCEPT ![t] = [op[t] EXCEPT !.data = file]]
          BY <1>0, <4>3 DEF Load
        <5>2. QED BY <5>1
      <4>4. CASE SaveFails(t)
        BY <4>4 DEF SaveFails
      <4>5. QED BY <2>2, <4>1, <4>2, <4>3, <4>4
    <3>3. PICK o : op' = [op EXCEPT ![t] = o]
      BY <3>2
    <3>4. UNCHANGED <<file, opened, given>> /\ at # "return"
      BY <2>2 DEF Call, Lock, Load, SaveFails
    <3>5. QED BY <2>1, <3>1, <3>3, <3>4
  <2>3. ASSUME NEW data, NEW e, NEW saves, Act(t, data, e, saves),
               saves = TRUE \/ (op[t].kind # "incr" /\ (op[t].kind = "consume" => e = Nothing))
        PROVE  GivenOK'
    <3> DEFINE o == [op[t] EXCEPT !.data = data, !.held = e]
               at == IF saves THEN "save" ELSE "return"
    <3>1. /\ pc' = [pc EXCEPT ![t] = at] /\ op' = [op EXCEPT ![t] = o]
          /\ UNCHANGED <<file, opened, given>>
      BY <1>0, <2>3 DEF Act, Goto
    <3>2. o.kind = op[t].kind /\ o.held = e
      BY <1>0 DEF FileOp
    <3>3. at = "return" => op[t].kind # "incr" /\ (op[t].kind = "consume" => e = Nothing)
      BY <2>3
    <3> HIDE DEF o, at
    <3>4. QED BY <2>1, <3>1, <3>2, <3>3
  <2>4. CASE Get(t) \/ Scan(t) \/ Set(t) \/ Delete(t)
    <3>1. op[t].kind \notin {"incr", "consume"}
      BY <2>4 DEF Get, Scan, Set, Delete
    <3>2. \E data, e, saves : Act(t, data, e, saves)
      <4>1. CASE Get(t)
        BY <4>1 DEF Get
      <4>2. CASE Scan(t)
        BY <4>2 DEF Scan
      <4>3. CASE Set(t)
        BY <4>3 DEF Set
      <4>4. CASE Delete(t)
        BY <4>4 DEF Delete
      <4>5. QED BY <2>4, <4>1, <4>2, <4>3, <4>4
    <3>3. PICK data, e, saves : Act(t, data, e, saves)
      BY <3>2
    <3>4. QED BY <2>3, <3>1, <3>3
  <2>5. CASE Consume(t)
    <3> DEFINE data == op[t].data
               k == op[t].key
    <3>1. Act(t, Without(data, k), data[k], data[k] # Nothing)
      BY <2>5 DEF Consume
    <3>2. CASE data[k] = Nothing
      <4>1. Act(t, Without(data, k), Nothing, FALSE)
        BY <3>1, <3>2 DEF Act
      <4>2. op[t].kind = "consume"
        BY <2>5 DEF Consume
      <4>3. QED BY <2>3, <4>1, <4>2
    <3>3. CASE data[k] # Nothing
      <4>1. Act(t, Without(data, k), data[k], TRUE)
        BY <3>1, <3>3 DEF Act
      <4>2. QED BY <2>3, <4>1
    <3>4. QED BY <3>2, <3>3
  <2>6. CASE Incr(t)
    <3>1. \E data, e : Act(t, data, e, TRUE)
      BY <2>6 DEF Incr
    <3>2. QED BY <2>3, <3>1
  <2>7. CASE Save(t)
    BY <2>7, GivenSaved
  <2>8. CASE Return(t)
    BY <2>8, GivenReturned
  <2>9. QED BY <1>1, <2>2, <2>4, <2>5, <2>6, <2>7, <2>8 DEF Step
<1>2. CASE Crash
  <2>1. \A u \in Threads : pc'[u] # "return"
    BY <1>2 DEF Crash
  <2>2. UNCHANGED <<file, opened, given>> /\ \A u \in Threads : ReturnOK(pc'[u], op'[u])
    BY <1>2, <2>1 DEF Crash, ReturnOK
  <2>3. QED BY <2>2, GivenStays
<1>3. CASE Tick \/ UNCHANGED vars
  <2>1. UNCHANGED <<file, opened, given, pc, op>>
    BY <1>3 DEF Tick, vars
  <2>2. \A u \in Threads : ReturnOK(pc'[u], op'[u])
    BY <1>0, <2>1
  <2>3. QED BY <2>1, <2>2, GivenStays
<1>4. QED BY <1>1, <1>2, <1>3 DEF Next
-----------------------------------------------------------------------------
(* The store over REST.                                                     *)

RestEntry == [stamp: Nat, value: Nat, expires: Nat]
RestOp == [kind: Rest!Kinds, key: Rest!Keys, ttl: TTLs, step: 1..2, held: RestEntry, limit: Nat,
           left: SUBSET Rest!Keys, batch: SUBSET Rest!Keys, collected: Seq(Rest!Keys)]

RestTypes ==
  /\ now \in Nat /\ restOpened \in Nat
  /\ restStore \in [Rest!Keys -> RestEntry]
  /\ restPc \in [Threads -> Rest!PCs]
  /\ restOp \in [Threads -> RestOp]
  /\ late \subseteq [name: Rest!Names, key: Rest!Keys, ttl: TTLs]
  /\ restGiven \in Seq([stamp: Nat, value: Nat])

\* What is under a key was opened and counts something.
StoredOK ==
  \A k \in Rest!Keys :
    restStore[k] = Rest!Nothing \/ (restStore[k].stamp \in 1..restOpened /\ restStore[k].value >= 1)

\* A thread at "at" with the locals o: a key has its kinds of operations, only the
\* first hit of a window sends a second command.
OpOK(at, o) ==
  /\ o.kind \in Rest!KindsOf(o.key)
  /\ o.kind = "incr" => o.ttl > 0
  /\ at = "idle" => o = Rest!NoOp
  /\ (at = "sent" /\ o.step = 1) \/ o.kind = "scan" => o.held = Rest!Nothing
  /\ o.step = 2 => o.kind = "incr" /\ o.held.value = 1
OpsOK == \A t \in Threads : OpOK(restPc[t], restOp[t])

\* A command fits its key.
CommandOK(c) ==
  /\ c.name \in {"INCR", "EXPIRE"} => c.key \in Counters
  /\ c.name = "EXPIRE" => c.ttl > 0
  /\ c.name \in {"SET", "DEL", "GETDEL"} => c.key \in Tokens
LateOK == \A c \in late : CommandOK(c) /\ (c.name = "INCR" => c.key \in severed)

KeysOK == RestTypes /\ StoredOK /\ OpsOK /\ LateOK
-----------------------------------------------------------------------------
LEMMA RestMoves ==
  ASSUME [CliNext]_cliVars
  PROVE  Rest!Next \/ (UNCHANGED restVars /\ now' \in {now, now + 1})
<1>1. CASE ServeRest
  BY <1>1 DEF ServeRest
<1>2. CASE ServeFile
  <2>1. now' \in {now, now + 1}
    BY <1>2 DEF ServeFile, Next, Crash, Tick, Step, Call, Lock, Load, Get, Scan, Set, Delete,
                Consume, Incr, Act, Save, SaveFails, Return
  <2>2. QED BY <1>2, <2>1 DEF ServeFile
<1>3. CASE ~ServeRest /\ ~ServeFile
  <2>1. UNCHANGED restVars /\ UNCHANGED now
    BY <1>3 DEF CliNext, cliVars, Dev, Dispatch, RunInit, RunImport
  <2>2. QED BY <2>1
<1>4. QED BY <1>1, <1>2, <1>3

LEMMA RestFacts ==
  /\ Rest!Nothing \in RestEntry /\ Rest!Nothing.stamp = 0 /\ Rest!Nothing.value = 0
  /\ Rest!Keys = Tokens \cup Counters /\ Tokens \cap Counters = {}
  /\ TTLs \subseteq Nat
  /\ Rest!NoOp \in RestOp /\ OpOK("idle", Rest!NoOp)
  /\ Rest!NoOp.kind = "get" /\ Rest!NoOp.step = 1 /\ Rest!NoOp.held = Rest!Nothing
  /\ Rest!NoOp.batch = {} /\ Rest!NoOp.collected = <<>>
<1>1. /\ Rest!Nothing \in RestEntry /\ Rest!Nothing.stamp = 0 /\ Rest!Nothing.value = 0
      /\ Rest!Keys = Tokens \cup Counters /\ Tokens \cap Counters = {}
      /\ TTLs \subseteq Nat
  BY LocalFileAssumption DEF Rest!Nothing, Rest!Never, Rest!Keys, RestEntry
<1>2. Rest!NoOp.key \in Rest!Keys /\ Rest!NoOp.ttl \in TTLs
  BY <1>1, LocalFileAssumption, CommandLineAssumption DEF Rest!NoOp
<1>3. /\ Rest!NoOp.kind = "get" /\ Rest!NoOp.step = 1 /\ Rest!NoOp.held = Rest!Nothing
      /\ Rest!NoOp.batch = {} /\ Rest!NoOp.collected = <<>>
  BY DEF Rest!NoOp
<1>4. Rest!NoOp \in RestOp
  BY <1>1, <1>2 DEF Rest!NoOp, RestOp, Rest!Kinds
<1>5. OpOK("idle", Rest!NoOp)
  BY <1>3 DEF OpOK, Rest!KindsOf
<1>6. QED BY <1>1, <1>3, <1>4, <1>5

LEMMA KeysInit == Rest!Init => KeysOK
<1> SUFFICES ASSUME Rest!Init PROVE KeysOK
  OBVIOUS
<1>1. RestTypes
  BY RestFacts DEF Rest!Init, RestTypes, Rest!PCs
<1>2. StoredOK /\ OpsOK /\ LateOK
  BY RestFacts DEF Rest!Init, StoredOK, OpsOK, LateOK
<1>3. QED BY <1>1, <1>2 DEF KeysOK

\* What a command of a thread is.
LEMMA SentIs ==
  ASSUME KeysOK, NEW t \in Threads
  PROVE  /\ Rest!Sent(t) \in [name: Rest!Names, key: Rest!Keys, ttl: TTLs]
         /\ CommandOK(Rest!Sent(t))
         /\ Rest!Sent(t).key = restOp[t].key /\ Rest!Sent(t).ttl = restOp[t].ttl
         /\ restOp[t].step = 2 => Rest!Sent(t).name = "EXPIRE"
         /\ restOp[t].step = 1 /\ restOp[t].kind = "incr" => Rest!Sent(t).name = "INCR"
         /\ restOp[t].kind = "consume" => Rest!Sent(t).name = "GETDEL"
         /\ Rest!Sent(t).name \in {"INCR", "EXPIRE"} => restOp[t].kind = "incr"
         /\ Rest!Sent(t).name = "EXPIRE" => restOp[t].step = 2
<1> DEFINE o == restOp[t]
           c == Rest!Sent(t)
<1>1. o \in RestOp /\ OpOK(restPc[t], o)
  BY DEF KeysOK, RestTypes, OpsOK
<1>2. c.key = o.key /\ c.ttl = o.ttl /\ c.name = Rest!Commands(o.kind)[o.step]
      /\ c = [name |-> c.name, key |-> c.key, ttl |-> c.ttl]
  BY DEF Rest!Sent
<1>3. o.kind \in Rest!Kinds /\ o.step \in {1, 2} /\ o.key \in Rest!Keys /\ o.ttl \in TTLs
  BY <1>1 DEF RestOp
<1>4. /\ o.step = 2 => o.kind = "incr" /\ c.name = "EXPIRE"
      /\ o.step = 1 /\ o.kind = "incr" => c.name = "INCR"
      /\ o.step = 1 /\ o.kind = "get" => c.name = "GET"
      /\ o.step = 1 /\ o.kind = "set" => c.name = "SET"
      /\ o.step = 1 /\ o.kind = "delete" => c.name = "DEL"
      /\ o.step = 1 /\ o.kind = "consume" => c.name = "GETDEL"
      /\ o.step = 1 /\ o.kind = "scan" => c.name = "SCAN"
  BY <1>1, <1>2 DEF OpOK, Rest!Commands
<1> HIDE DEF o, c
<1>5. c.name \in Rest!Names
  BY <1>3, <1>4 DEF Rest!Names, Rest!Kinds
<1>6. CommandOK(c)
  BY <1>1, <1>2, <1>3, <1>4, RestFacts DEF CommandOK, OpOK, Rest!KindsOf, Rest!Kinds
<1>7. c \in [name: Rest!Names, key: Rest!Keys, ttl: TTLs]
  BY <1>2, <1>3, <1>5
<1>8. QED BY <1>2, <1>3, <1>4, <1>6, <1>7 DEF o, c, Rest!Kinds
-----------------------------------------------------------------------------
\* What a command does to the entry of its key.
Effect(c, e, f) ==
  /\ c.name = "SET" => f.stamp = restOpened + 1 /\ f.value = 1 /\ restOpened' = restOpened + 1
  /\ c.name # "SET" /\ ~(c.name = "INCR" /\ ~Rest!Alive(e)) => restOpened' = restOpened
  /\ c.name \in {"DEL", "GETDEL"} => f = Rest!Nothing
  /\ c.name = "INCR" /\ Rest!Alive(e) => f = [e EXCEPT !.value = @ + 1]
  /\ c.name = "INCR" /\ ~Rest!Alive(e) =>
       /\ f = [stamp |-> restOpened + 1, value |-> 1, expires |-> Rest!Never]
       /\ restOpened' = restOpened + 1
  /\ c.name = "EXPIRE" => IF Rest!Alive(e) THEN f = [e EXCEPT !.expires = Rest!Expiry(c.ttl)] ELSE f = e
  /\ c.name \in {"GET", "SCAN"} => f = e

LEMMA EffectOf ==
  ASSUME KeysOK, NEW c \in [name: Rest!Names, key: Rest!Keys, ttl: TTLs], Rest!Applies(c)
  PROVE  /\ \A k \in Rest!Keys \ {c.key} : restStore'[k] = restStore[k]
         /\ Effect(c, restStore[c.key], restStore'[c.key])
         /\ restStore' \in [Rest!Keys -> RestEntry] /\ restOpened' \in Nat /\ StoredOK'
<1> DEFINE e == restStore[c.key]
           f == Rest!After(c)
<1>1. /\ restStore' = [restStore EXCEPT ![c.key] = f]
      /\ restOpened' = IF Rest!Opens(c) THEN restOpened + 1 ELSE restOpened
  BY DEF Rest!Applies
<1>2. /\ e \in RestEntry /\ c.ttl \in Nat /\ now \in Nat /\ restOpened \in Nat
      /\ c.name \in Rest!Names /\ c.key \in Rest!Keys
      /\ restStore \in [Rest!Keys -> RestEntry]
      /\ e = Rest!Nothing \/ (e.stamp \in 1..restOpened /\ e.value >= 1)
  BY RestFacts DEF KeysOK, RestTypes, StoredOK
<1>3. Rest!Expiry(c.ttl) \in Nat
  BY <1>2 DEF Rest!Expiry, Rest!Never
<1>4. restStore'[c.key] = f
  BY <1>1, <1>2
<1>5. Effect(c, e, f)
  BY <1>1, <1>2 DEF Effect, Rest!After, Rest!Opens, Rest!Opened, Rest!Names, Rest!Expiry
<1>6. f \in RestEntry
  <2>1. CASE c.name = "SET"
    BY <1>2, <1>3, <2>1 DEF Rest!After, Rest!Opened, RestEntry
  <2>2. CASE c.name \in {"DEL", "GETDEL"}
    BY <2>2, RestFacts DEF Rest!After
  <2>3. CASE c.name = "INCR" /\ Rest!Alive(e)
    BY <1>2, <1>5, <2>3 DEF Effect, RestEntry
  <2>4. CASE c.name = "INCR" /\ ~Rest!Alive(e)
    BY <1>2, <1>5, <2>4 DEF Effect, RestEntry, Rest!Never
  <2>5. CASE c.name = "EXPIRE"
    BY <1>2, <1>3, <1>5, <2>5 DEF Effect, RestEntry
  <2>6. CASE c.name \in {"GET", "SCAN"}
    BY <1>2, <1>5, <2>6 DEF Effect
  <2>7. QED BY <1>2, <2>1, <2>2, <2>3, <2>4, <2>5, <2>6 DEF Rest!Names
<1>7. restOpened' \in Nat /\ restOpened' >= restOpened
  BY <1>1, <1>2
<1>8. f = Rest!Nothing \/ (f.stamp \in 1..restOpened' /\ f.value >= 1)
  <2>1. Rest!Alive(e) => e # Rest!Nothing
    BY DEF Rest!Alive
  <2>2. CASE c.name \in {"SET", "DEL", "GETDEL"}
    BY <1>2, <1>5, <2>2 DEF Effect
  <2>3. CASE c.name = "INCR"
    BY <1>2, <1>5, <2>1, <2>3 DEF Effect, RestEntry
  <2>4. CASE c.name \in {"GET", "SCAN", "EXPIRE"}
    BY <1>2, <1>5, <1>7, <2>1, <2>4 DEF Effect, RestEntry
  <2>5. QED BY <1>2, <2>2, <2>3, <2>4 DEF Rest!Names
<1> HIDE DEF e, f
<1>9. \A k \in Rest!Keys \ {c.key} : restStore'[k] = restStore[k]
  BY <1>1, <1>2
<1>10. restStore' \in [Rest!Keys -> RestEntry]
  BY <1>1, <1>2, <1>6
<1>11. StoredOK'
  <2> SUFFICES ASSUME NEW k \in Rest!Keys
               PROVE  \/ restStore'[k] = Rest!Nothing
                      \/ restStore'[k].stamp \in 1..restOpened' /\ restStore'[k].value >= 1
    BY DEF StoredOK, Rest!Keys, Rest!Nothing, Rest!Never
  <2>1. CASE k = c.key
    BY <1>4, <1>8, <2>1
  <2>2. CASE k # c.key
    <3>1. restStore[k] = Rest!Nothing \/ (restStore[k].stamp \in 1..restOpened /\ restStore[k].value >= 1)
      BY DEF KeysOK, StoredOK
    <3>2. QED BY <1>2, <1>7, <1>9, <2>2, <3>1
  <2>3. QED BY <2>1, <2>2
<1>12. QED BY <1>4, <1>5, <1>7, <1>9, <1>10, <1>11 DEF e
-----------------------------------------------------------------------------
\* A step of one thread, which comes to "at" with the locals o.
Moves(t, at, o) ==
  /\ restPc' = [restPc EXCEPT ![t] = at] /\ at \in Rest!PCs
  /\ restOp' = [restOp EXCEPT ![t] = o] /\ o \in RestOp
  /\ OpOK(at, o)
Quiet == UNCHANGED <<restStore, restOpened, late, severed>>

LEMMA MovesKeep ==
  ASSUME KeysOK, NEW t \in Threads, NEW at, NEW o, Moves(t, at, o)
  PROVE  /\ restPc' \in [Threads -> Rest!PCs] /\ restOp' \in [Threads -> RestOp]
         /\ restPc'[t] = at /\ restOp'[t] = o
         /\ \A u \in Threads \ {t} : restPc'[u] = restPc[u] /\ restOp'[u] = restOp[u]
         /\ OpsOK'
<1>1. restPc \in [Threads -> Rest!PCs] /\ restOp \in [Threads -> RestOp]
  BY DEF KeysOK, RestTypes
<1>2. /\ restPc' \in [Threads -> Rest!PCs] /\ restOp' \in [Threads -> RestOp]
      /\ restPc'[t] = at /\ restOp'[t] = o
      /\ \A u \in Threads \ {t} : restPc'[u] = restPc[u] /\ restOp'[u] = restOp[u]
  BY <1>1 DEF Moves
<1>3. \A u \in Threads : OpOK(restPc'[u], restOp'[u])
  <2> SUFFICES ASSUME NEW u \in Threads PROVE OpOK(restPc'[u], restOp'[u])
    OBVIOUS
  <2>1. CASE u = t
    BY <1>2, <2>1 DEF Moves
  <2>2. CASE u # t
    BY <1>2, <2>2 DEF KeysOK, OpsOK
  <2>3. QED BY <2>1, <2>2
<1>4. OpsOK'
  BY <1>3 DEF OpsOK, OpOK, Rest!NoOp, Rest!KindsOf, Rest!Keys, Rest!Nothing, Rest!Never
<1>5. QED BY <1>2, <1>4

LEMMA OpTypes ==
  ASSUME KeysOK, NEW t \in Threads
  PROVE  /\ restOp[t] \in RestOp /\ OpOK(restPc[t], restOp[t])
         /\ restOp[t].held \in RestEntry /\ restOp[t].step \in {1, 2}
         /\ restOp[t].key \in Rest!Keys /\ restOp[t].ttl \in TTLs
         /\ restOp[t].kind \in Rest!Kinds
<1>1. restOp[t] \in RestOp /\ OpOK(restPc[t], restOp[t])
  BY DEF KeysOK, RestTypes, OpsOK
<1>2. QED BY <1>1 DEF RestOp

LEMMA CallSays ==
  ASSUME KeysOK, NEW t \in Threads, Rest!Call(t)
  PROVE  /\ restPc[t] = "idle" /\ Quiet /\ UNCHANGED <<now, restGiven>>
         /\ \E o : /\ Moves(t, "sent", o)
                   /\ o.step = 1 /\ o.held = Rest!Nothing
                   /\ o.batch = {} /\ o.collected = <<>>
                   /\ o.kind = "scan" => o.left = Rest!Keys
<1>1. /\ restPc[t] = "idle" /\ Quiet /\ UNCHANGED <<now, restGiven>>
      /\ restPc' = [restPc EXCEPT ![t] = "sent"]
  BY DEF Rest!Call, Rest!Goto, Quiet
<1>2. restOp[t] = Rest!NoOp /\ restOp \in [Threads -> RestOp]
  BY <1>1 DEF KeysOK, OpsOK, OpOK, RestTypes
<1> DEFINE n == Rest!NoOp
<1>3. /\ n \in RestOp /\ n.kind = "get" /\ n.step = 1 /\ n.held = Rest!Nothing /\ n.batch = {}
      /\ n.collected = <<>>
  BY RestFacts
<1> HIDE DEF n
<1>4. ASSUME NEW k \in Rest!Keys, NEW kind \in Rest!KindsOf(k) \ {"scan"}, NEW ttl \in TTLs,
             kind = "incr" => ttl > 0,
             restOp' = [restOp EXCEPT ![t].kind = kind, ![t].key = k, ![t].ttl = ttl]
      PROVE  \E o : /\ Moves(t, "sent", o)
                    /\ o.step = 1 /\ o.held = Rest!Nothing
                    /\ o.batch = {} /\ o.collected = <<>>
                    /\ o.kind = "scan" => o.left = Rest!Keys
  <2> DEFINE o == [n EXCEPT !.kind = kind, !.key = k, !.ttl = ttl]
  <2>1. kind \in Rest!Kinds
    BY DEF Rest!KindsOf, Rest!Kinds
  <2>2. o \in RestOp
    BY <1>3, <2>1 DEF RestOp
  <2>3. /\ o.step = 1 /\ o.held = Rest!Nothing /\ o.batch = {} /\ o.collected = <<>>
        /\ o.kind = kind /\ o.key = k /\ o.ttl = ttl
    BY <1>3 DEF RestOp
  <2>4. restOp' = [restOp EXCEPT ![t] = o]
    BY <1>2, <1>4 DEF n
  <2> HIDE DEF o
  <2>5. OpOK("sent", o)
    BY <1>4, <2>3 DEF OpOK
  <2>6. Moves(t, "sent", o)
    BY <1>1, <2>2, <2>4, <2>5 DEF Moves, Rest!PCs
  <2>7. QED BY <2>3, <2>6
<1>5. ASSUME NEW limit \in 1..Rest!Cardinality(Rest!Keys),
             restOp' = [restOp EXCEPT ![t].kind = "scan", ![t].limit = limit, ![t].left = Rest!Keys]
      PROVE  \E o : /\ Moves(t, "sent", o)
                    /\ o.step = 1 /\ o.held = Rest!Nothing
                    /\ o.batch = {} /\ o.collected = <<>>
                    /\ o.kind = "scan" => o.left = Rest!Keys
  <2> DEFINE o == [n EXCEPT !.kind = "scan", !.limit = limit, !.left = Rest!Keys]
  <2>1. limit \in Nat
    BY <1>5
  <2>2. o \in RestOp
    BY <1>3, <2>1 DEF RestOp, Rest!Kinds
  <2>3. /\ o.step = 1 /\ o.held = Rest!Nothing /\ o.batch = {} /\ o.collected = <<>>
        /\ o.kind = "scan" /\ o.left = Rest!Keys
    BY <1>3 DEF RestOp
  <2>4. restOp' = [restOp EXCEPT ![t] = o]
    BY <1>2, <1>5 DEF n
  <2> HIDE DEF o
  <2>5. OpOK("sent", o)
    BY <2>3 DEF OpOK, Rest!KindsOf
  <2>6. Moves(t, "sent", o)
    BY <1>1, <2>2, <2>4, <2>5 DEF Moves, Rest!PCs
  <2>7. QED BY <2>3, <2>6
<1>6. QED BY <1>1, <1>4, <1>5 DEF Rest!Call

LEMMA ServeSays ==
  ASSUME KeysOK, NEW t \in Threads, Rest!Serve(t)
  PROVE  /\ restPc[t] = "sent" /\ restOp[t].kind # "scan"
         /\ Rest!Applies(Rest!Sent(t))
         /\ UNCHANGED <<now, late, severed, restGiven>>
         /\ \E o : /\ Moves(t, "served", o)
                   /\ o.kind = restOp[t].kind /\ o.key = restOp[t].key /\ o.step = restOp[t].step
                   /\ o.held = IF o.step = 1 THEN Rest!Answer(Rest!Sent(t)) ELSE restOp[t].held
<1> DEFINE c == Rest!Sent(t)
           h == IF restOp[t].step = 1 THEN Rest!Answer(c) ELSE restOp[t].held
           o == [restOp[t] EXCEPT !.held = h]
<1>1. /\ restPc[t] = "sent" /\ restOp[t].kind # "scan" /\ Rest!Applies(c)
      /\ UNCHANGED <<now, late, severed, restGiven>>
      /\ restPc' = [restPc EXCEPT ![t] = "served"]
      /\ restOp' = [restOp EXCEPT ![t].held = IF restOp[t].step = 1 THEN Rest!Answer(c) ELSE @]
  BY DEF Rest!Serve, Rest!Goto
<1>2. /\ restOp[t] \in RestOp /\ OpOK("sent", restOp[t])
      /\ restOp[t].held \in RestEntry /\ restOp[t].key \in Rest!Keys
      /\ restOp \in [Threads -> RestOp]
  BY <1>1, OpTypes DEF KeysOK, RestTypes
<1>3. c \in [name: Rest!Names, key: Rest!Keys, ttl: TTLs]
  BY SentIs
<1>4. Rest!Answer(c) \in RestEntry
  <2>1. restStore[c.key] \in RestEntry /\ Rest!Nothing \in RestEntry
    BY <1>3, RestFacts DEF KeysOK, RestTypes
  <2>2. Rest!After(c) \in RestEntry
    <3>1. restStore'[c.key] \in RestEntry
      BY <1>1, <1>3, EffectOf
    <3>2. restStore'[c.key] = Rest!After(c)
      BY <1>1, <1>3 DEF Rest!Applies, KeysOK, RestTypes
    <3>3. QED BY <3>1, <3>2
  <2>3. QED BY <2>1, <2>2 DEF Rest!Answer
<1>5. h \in RestEntry
  BY <1>2, <1>4
<1>6. restOp' = [restOp EXCEPT ![t] = o]
  BY <1>1, <1>2
<1> HIDE DEF c, h
<1>7. o \in RestOp
  BY <1>2, <1>5 DEF RestOp
<1>8. o.kind = restOp[t].kind /\ o.key = restOp[t].key /\ o.step = restOp[t].step
      /\ o.held = h /\ o.ttl = restOp[t].ttl
  BY <1>2 DEF RestOp
<1> HIDE DEF o
<1>9. o.step = 2 => h = restOp[t].held
  BY <1>2, <1>8 DEF h
<1>10. OpOK("served", o)
  BY <1>1, <1>2, <1>8, <1>9 DEF OpOK
<1>11. Moves(t, "served", o)
  BY <1>1, <1>6, <1>7, <1>10 DEF Moves, Rest!PCs
<1>12. QED BY <1>1, <1>8, <1>11 DEF c, h

LEMMA ServePageSays ==
  ASSUME KeysOK, NEW t \in Threads, Rest!ServePage(t)
  PROVE  /\ restPc[t] = "sent" /\ restOp[t].kind = "scan"
         /\ Quiet /\ UNCHANGED <<now, restGiven>>
         /\ \E o : /\ Moves(t, "served", o)
                   /\ o.kind = "scan" /\ o.key = restOp[t].key /\ o.held = restOp[t].held
                   /\ o.collected = restOp[t].collected /\ o.limit = restOp[t].limit
                   /\ o.left \subseteq restOp[t].left
                   /\ (restOp[t].left \ o.left) \cap Rest!Live \subseteq o.batch
<1>1. /\ restPc[t] = "sent" /\ restOp[t].kind = "scan"
      /\ Quiet /\ UNCHANGED <<now, restGiven>>
      /\ restPc' = [restPc EXCEPT ![t] = "served"]
  BY DEF Rest!ServePage, Rest!Goto, Quiet
<1>2. PICK passed \in SUBSET restOp[t].left \ {{}}, again \in SUBSET (Rest!Live \ restOp[t].left) :
        restOp' = [restOp EXCEPT ![t].left = @ \ passed,
                                 ![t].batch = (passed \cap Rest!Live) \cup again]
  BY DEF Rest!ServePage
<1>3. restOp[t] \in RestOp /\ OpOK("sent", restOp[t]) /\ restOp \in [Threads -> RestOp]
  BY <1>1, OpTypes DEF KeysOK, RestTypes
<1> DEFINE b == (passed \cap Rest!Live) \cup again
           o == [restOp[t] EXCEPT !.left = @ \ passed, !.batch = b]
<1>4. restOp' = [restOp EXCEPT ![t] = o]
  BY <1>2, <1>3
<1>5. b \subseteq Rest!Keys
  BY DEF Rest!Live
<1>6. passed \cap Rest!Live \subseteq b
  OBVIOUS
<1> HIDE DEF b
<1>7. o \in RestOp
  BY <1>3, <1>5 DEF RestOp
<1>8. /\ o.kind = "scan" /\ o.key = restOp[t].key /\ o.held = restOp[t].held
      /\ o.collected = restOp[t].collected /\ o.limit = restOp[t].limit
      /\ o.left = restOp[t].left \ passed /\ o.batch = b /\ o.step = restOp[t].step
      /\ o.ttl = restOp[t].ttl
  BY <1>1, <1>3 DEF RestOp
<1> HIDE DEF o
<1>9. OpOK("served", o)
  BY <1>1, <1>3, <1>8 DEF OpOK
<1>10. Moves(t, "served", o)
  BY <1>1, <1>4, <1>7, <1>9 DEF Moves, Rest!PCs
<1>11. (restOp[t].left \ o.left) \cap Rest!Live \subseteq o.batch
  BY <1>6, <1>8
<1>12. QED BY <1>1, <1>8, <1>10, <1>11

LEMMA GoesOnIs ==
  ASSUME KeysOK, NEW t \in Threads
  PROVE  Rest!GoesOn(t) <=>
           restOp[t].kind = "incr" /\ restOp[t].step = 1 /\ restOp[t].held.value = 1
<1>1. restOp[t].kind \in Rest!Kinds /\ restOp[t].step \in {1, 2}
  BY OpTypes
<1> DEFINE kind == restOp[t].kind
           step == restOp[t].step
           size == Len(Rest!Commands(kind))
<1>2. kind = "incr" => size = 2
  BY DEF Rest!Commands
<1>3. kind # "incr" => size = 1
  BY <1>1 DEF Rest!Commands, Rest!Kinds
<1>4. Rest!GoesOn(t) <=> step < size /\ (kind = "incr" => restOp[t].held.value = 1)
  BY DEF Rest!GoesOn, Rest!FirstHit
<1>5. step < size <=> kind = "incr" /\ step = 1
  <2> HIDE DEF kind, step, size
  <2>1. step \in {1, 2}
    BY <1>1 DEF step
  <2>2. QED BY <1>2, <1>3, <2>1
<1> HIDE DEF size
<1>6. QED BY <1>4, <1>5

LEMMA SecondStep ==
  ASSUME NEW p \in RestOp
  PROVE  LET o == [p EXCEPT !.step = 2]
         IN /\ o \in RestOp /\ o.step = 2 /\ o.kind = p.kind /\ o.key = p.key
            /\ o.held = p.held /\ o.ttl = p.ttl
<1>1. 2 \in 1..2
  OBVIOUS
<1>2. QED BY <1>1 DEF RestOp

LEMMA ReceiveSays ==
  ASSUME KeysOK, NEW t \in Threads, Rest!Receive(t)
  PROVE  /\ restPc[t] = "served" /\ restOp[t].kind # "scan"
         /\ Quiet /\ UNCHANGED <<now, restGiven>>
         /\ \E o : /\ o.kind = restOp[t].kind /\ o.key = restOp[t].key /\ o.held = restOp[t].held
                   /\ \/ /\ Moves(t, "sent", o) /\ o.step = 2
                         /\ restOp[t].kind = "incr" /\ restOp[t].step = 1 /\ restOp[t].held.value = 1
                      \/ /\ Moves(t, "return", o) /\ o = restOp[t]
                         /\ restOp[t].kind = "incr" /\ restOp[t].step = 1 =>
                              restOp[t].held.value # 1
<1>1. /\ restPc[t] = "served" /\ restOp[t].kind # "scan"
      /\ Quiet /\ UNCHANGED <<now, restGiven>>
      /\ restOp' = IF Rest!GoesOn(t) THEN [restOp EXCEPT ![t].step = 2] ELSE restOp
      /\ restPc' = [restPc EXCEPT ![t] = IF Rest!GoesOn(t) THEN "sent" ELSE "return"]
  BY DEF Rest!Receive, Rest!Goto, Quiet
<1>2. restOp[t] \in RestOp /\ OpOK("served", restOp[t]) /\ restOp \in [Threads -> RestOp]
      /\ restOp[t].kind \in Rest!Kinds /\ restOp[t].step \in {1, 2}
  BY <1>1, OpTypes DEF KeysOK, RestTypes
<1>3. CASE Rest!GoesOn(t)
  <2> DEFINE o == [restOp[t] EXCEPT !.step = 2]
  <2>1. restOp[t].kind = "incr" /\ restOp[t].step = 1 /\ restOp[t].held.value = 1
    BY <1>3, GoesOnIs
  <2>2. restOp' = [restOp EXCEPT ![t] = o]
    BY <1>1, <1>2, <1>3
  <2>3. /\ o \in RestOp /\ o.step = 2 /\ o.kind = restOp[t].kind /\ o.key = restOp[t].key
        /\ o.held = restOp[t].held /\ o.ttl = restOp[t].ttl
    BY <1>2, SecondStep
  <2> HIDE DEF o
  <2>5. OpOK("sent", o)
    BY <1>2, <2>1, <2>3 DEF OpOK
  <2>6. Moves(t, "sent", o)
    BY <1>1, <1>3, <2>2, <2>3, <2>5 DEF Moves, Rest!PCs
  <2>7. QED BY <1>1, <2>1, <2>3, <2>6
<1>4. CASE ~Rest!GoesOn(t)
  <2>1. Moves(t, "return", restOp[t])
    <3>1. OpOK("return", restOp[t])
      BY <1>2 DEF OpOK
    <3>2. restOp' = [restOp EXCEPT ![t] = restOp[t]]
      BY <1>1, <1>2, <1>4
    <3>3. QED BY <1>1, <1>2, <1>4, <3>1, <3>2 DEF Moves, Rest!PCs
  <2>2. restOp[t].kind = "incr" /\ restOp[t].step = 1 => restOp[t].held.value # 1
    BY <1>4, GoesOnIs
  <2>3. QED BY <1>1, <2>1, <2>2
<1>5. QED BY <1>3, <1>4

\* The functions of the community modules that scan_prefix is built of.
LEMMA SameCard == ASSUME NEW S PROVE Rest!Cardinality(S) = Cardinality(S)
BY DEF Rest!Cardinality, Cardinality

LEMMA Listed ==
  ASSUME NEW S, IsFiniteSet(S)
  PROVE  /\ Rest!SetToSeq(S) \in [1..Cardinality(S) -> S]
         /\ Rest!ToSet(Rest!SetToSeq(S)) = S
<1> DEFINE n == Cardinality(S)
<1>1. n \in Nat /\ ExistsBijection(1..n, S)
  BY FS_CardinalityType
<1>2. PICK g : g \in Bijection(1..n, S)
  BY <1>1 DEF ExistsBijection
<1>3. g \in [1..n -> S] /\ Rest!IsInjective(g)
  BY <1>2 DEF Bijection, Injection, IsInjective, Rest!IsInjective
<1> DEFINE f == Rest!SetToSeq(S)
<1>4. f \in [1..n -> S] /\ Rest!IsInjective(f)
  BY <1>3, SameCard DEF Rest!SetToSeq
<1>5. f \in Injection(1..n, S)
  BY <1>4 DEF Injection, IsInjective, Rest!IsInjective
<1>6. IsFiniteSet(1..n) /\ Cardinality(1..n) = n
  BY <1>1, FS_Interval
<1>7. f \in Surjection(1..n, S)
  BY <1>5, <1>6, FS_Injection
<1> HIDE DEF f
<1>8. S = {f[i] : i \in DOMAIN f}
  BY <1>4, <1>7 DEF Surjection
<1>9. Rest!ToSet(f) = S
  BY <1>8 DEF Rest!ToSet
<1>10. QED BY <1>4, <1>9 DEF f

LEMMA Joined ==
  ASSUME NEW S, NEW s \in Seq(S), NEW r \in Seq(S)
  PROVE  s \o r \in Seq(S) /\ Rest!ToSet(s \o r) = Rest!ToSet(s) \cup Rest!ToSet(r)
<1> DEFINE q == s \o r
<1>1. /\ q \in Seq(S) /\ Len(q) = Len(s) + Len(r) /\ Len(s) \in Nat /\ Len(r) \in Nat
      /\ \A i \in 1..Len(s) : q[i] = s[i]
      /\ \A i \in 1..Len(r) : q[Len(s) + i] = r[i]
      /\ \A i \in 1..Len(q) : i > Len(s) => q[i] = r[i - Len(s)]
      /\ DOMAIN q = 1..Len(q) /\ DOMAIN s = 1..Len(s) /\ DOMAIN r = 1..Len(r)
  OBVIOUS
<1> HIDE DEF q
<1>2. Rest!ToSet(q) \subseteq Rest!ToSet(s) \cup Rest!ToSet(r)
  <2> SUFFICES ASSUME NEW i \in 1..Len(q)
               PROVE  q[i] \in Rest!ToSet(s) \cup Rest!ToSet(r)
    BY <1>1 DEF Rest!ToSet
  <2>1. CASE i <= Len(s)
    BY <1>1, <2>1 DEF Rest!ToSet
  <2>2. CASE i > Len(s)
    <3>1. i - Len(s) \in 1..Len(r)
      BY <1>1, <2>2
    <3>2. q[i] = r[i - Len(s)]
      BY <1>1, <2>2
    <3>3. QED BY <1>1, <3>1, <3>2 DEF Rest!ToSet
  <2>3. QED BY <1>1, <2>1, <2>2
<1>3. Rest!ToSet(s) \subseteq Rest!ToSet(q)
  <2> SUFFICES ASSUME NEW i \in 1..Len(s) PROVE s[i] \in Rest!ToSet(q)
    BY <1>1 DEF Rest!ToSet
  <2>1. i \in 1..Len(q) /\ q[i] = s[i]
    BY <1>1
  <2>2. QED BY <1>1, <2>1 DEF Rest!ToSet
<1>4. Rest!ToSet(r) \subseteq Rest!ToSet(q)
  <2> SUFFICES ASSUME NEW i \in 1..Len(r) PROVE r[i] \in Rest!ToSet(q)
    BY <1>1 DEF Rest!ToSet
  <2>1. Len(s) + i \in 1..Len(q) /\ q[Len(s) + i] = r[i]
    BY <1>1
  <2>2. QED BY <1>1, <2>1 DEF Rest!ToSet
<1>5. QED BY <1>1, <1>2, <1>3, <1>4 DEF q

\* What a page adds, cut at the limit.
LEMMA Cut ==
  ASSUME NEW S, NEW q \in Seq(S), NEW limit \in Nat
  PROVE  LET cut == SubSeq(q, 1, Rest!Min({Len(q), limit}))
         IN cut \in Seq(S) /\ Len(cut) <= limit /\ (Len(cut) < limit => cut = q)
<1> DEFINE m == Rest!Min({Len(q), limit})
<1>1. Len(q) \in Nat
  OBVIOUS
<1>2. m = IF Len(q) <= limit THEN Len(q) ELSE limit
  <2>1. \E x \in {Len(q), limit} : \A y \in {Len(q), limit} : x <= y
    BY <1>1
  <2>2. m \in {Len(q), limit} /\ \A y \in {Len(q), limit} : m <= y
    BY <2>1 DEF Rest!Min
  <2> HIDE DEF m
  <2>3. QED BY <1>1, <2>2
<1> HIDE DEF m
<1>3. m \in 0..Len(q) /\ m <= limit /\ (m < limit => m = Len(q))
  BY <1>1, <1>2
<1>4. SubSeq(q, 1, m) \in Seq(S) /\ Len(SubSeq(q, 1, m)) = m
  BY <1>1, <1>3
<1>5. m = Len(q) => SubSeq(q, 1, m) = q
  BY <1>1, <1>4
<1>6. QED BY <1>3, <1>4, <1>5 DEF m

LEMMA ReceivePageSays ==
  ASSUME KeysOK, NEW t \in Threads, Rest!ReceivePage(t)
  PROVE  /\ restPc[t] = "served" /\ restOp[t].kind = "scan"
         /\ Quiet /\ UNCHANGED <<now, restGiven>>
         /\ \E o : /\ o.kind = "scan" /\ o.key = restOp[t].key /\ o.held = restOp[t].held
                   /\ o.left = restOp[t].left
                   /\ Len(o.collected) < o.limit =>
                        Rest!ToSet(o.collected) = Rest!ToSet(restOp[t].collected) \cup restOp[t].batch
                   /\ \/ Moves(t, "sent", o) /\ Len(o.collected) < o.limit
                      \/ Moves(t, "return", o) /\ (Len(o.collected) < o.limit => o.left = {})
<1> DEFINE p == restOp[t]
           listed == Rest!SetToSeq(p.batch)
           all == p.collected \o listed
           cut == SubSeq(all, 1, Rest!Min({Len(all), p.limit}))
           o == [p EXCEPT !.collected = cut, !.batch = {}]
           at == IF Len(cut) = p.limit \/ Rest!IsLastPage(t) THEN "return" ELSE "sent"
<1>1. /\ restPc[t] = "served" /\ p.kind = "scan" /\ Quiet /\ UNCHANGED <<now, restGiven>>
      /\ restOp' = [restOp EXCEPT ![t].collected = cut, ![t].batch = {}]
      /\ restPc' = [restPc EXCEPT ![t] = at]
  BY DEF Rest!ReceivePage, Rest!Goto, Quiet
<1>2. p \in RestOp /\ OpOK("served", p) /\ restOp \in [Threads -> RestOp]
  BY <1>1, OpTypes DEF KeysOK, RestTypes
<1>3. restOp' = [restOp EXCEPT ![t] = o]
  BY <1>1, <1>2
<1>4. Rest!IsLastPage(t) <=> p.left = {}
  BY DEF Rest!IsLastPage
<1>5. p.collected \in Seq(Rest!Keys) /\ p.limit \in Nat /\ p.batch \in SUBSET Rest!Keys
  BY <1>2 DEF RestOp
<1> HIDE DEF p
<1>6. IsFiniteSet(p.batch)
  <2>1. IsFiniteSet(Rest!Keys)
    BY CommandLineAssumption DEF Rest!Keys, Keys
  <2>2. QED BY <1>5, <2>1, FS_Subset
<1>7. listed \in Seq(Rest!Keys) /\ Rest!ToSet(listed) = p.batch
  <2>1. /\ listed \in [1..Cardinality(p.batch) -> p.batch] /\ Rest!ToSet(listed) = p.batch
        /\ Cardinality(p.batch) \in Nat
    BY <1>6, Listed, FS_CardinalityType
  <2> DEFINE n == Cardinality(p.batch)
  <2> HIDE DEF listed, n
  <2>2. n \in Nat /\ listed \in [1..n -> p.batch]
    BY <2>1 DEF n
  <2>3. listed \in Seq(Rest!Keys)
    BY <1>5, <2>2
  <2>4. QED BY <2>1, <2>3
<1> HIDE DEF listed
<1>8. all \in Seq(Rest!Keys) /\ Rest!ToSet(all) = Rest!ToSet(p.collected) \cup p.batch
  BY <1>5, <1>7, Joined
<1> HIDE DEF all
<1>9. cut \in Seq(Rest!Keys) /\ Len(cut) <= p.limit /\ (Len(cut) < p.limit => cut = all)
  BY <1>5, <1>8, Cut
<1>10. Len(cut) \in Nat
  BY <1>9
<1> HIDE DEF cut
<1>11. /\ o \in RestOp /\ o.kind = p.kind /\ o.key = p.key /\ o.held = p.held /\ o.left = p.left
       /\ o.limit = p.limit /\ o.collected = cut /\ o.step = p.step /\ o.ttl = p.ttl
  BY <1>2, <1>9 DEF RestOp
<1>12. at \in {"return", "sent"}
  OBVIOUS
<1>13. at = "sent" => Len(cut) < p.limit
  BY <1>5, <1>9, <1>10
<1>14. at = "return" /\ Len(cut) < p.limit => p.left = {}
  BY <1>4, <1>5, <1>10
<1> HIDE DEF o, at
<1>15. OpOK(at, o)
  <2>1. p.step # 2
    BY <1>1, <1>2 DEF OpOK, p
  <2>2. p.held = Rest!Nothing
    BY <1>1, <1>2 DEF OpOK, p
  <2>3. QED BY <1>1, <1>2, <1>11, <1>12, <2>1, <2>2 DEF OpOK
<1>16. Moves(t, at, o)
  BY <1>1, <1>3, <1>11, <1>12, <1>15 DEF Moves, Rest!PCs
<1>17. QED BY <1>1, <1>8, <1>9, <1>11, <1>12, <1>13, <1>14, <1>16 DEF p

LEMMA SeverSays ==
  ASSUME KeysOK, NEW ts \in SUBSET Threads, Rest!Sever(ts)
  PROVE  /\ restPc' \in [Threads -> Rest!PCs] /\ restOp' \in [Threads -> RestOp]
         /\ OpsOK' /\ LateOK'
         /\ \A u \in ts : restPc'[u] = "idle" /\ restOp'[u] = Rest!NoOp
         /\ \A u \in Threads \ ts : restPc'[u] = restPc[u] /\ restOp'[u] = restOp[u]
         /\ severed \subseteq severed'
         /\ \A u \in ts : restPc[u] \in {"sent", "served"} /\ restOp[u].kind = "incr" =>
                           restOp[u].key \in severed'
         /\ late' \subseteq [name: Rest!Names, key: Rest!Keys, ttl: TTLs]
         /\ \A c \in late' \ late : \E u \in ts : restPc[u] = "sent" /\ c = Rest!Sent(u)
<1>1. PICK more \in SUBSET {Rest!Sent(t) : t \in {u \in ts : restPc[u] = "sent"}} :
        late' = late \cup more
  BY DEF Rest!Sever
<1>2. severed' = severed \cup
        {restOp[t].key : t \in {u \in ts : restPc[u] \in {"sent", "served"} /\ restOp[u].kind = "incr"}}
  BY DEF Rest!Sever
<1>3. /\ restPc' = [t \in Threads |-> IF t \in ts THEN "idle" ELSE restPc[t]]
      /\ restOp' = [t \in Threads |-> IF t \in ts THEN Rest!NoOp ELSE restOp[t]]
  BY DEF Rest!Sever
<1>4. restPc \in [Threads -> Rest!PCs] /\ restOp \in [Threads -> RestOp]
  BY DEF KeysOK, RestTypes
<1>5. restPc' \in [Threads -> Rest!PCs] /\ restOp' \in [Threads -> RestOp]
  BY <1>3, <1>4, RestFacts DEF Rest!PCs
<1>6. /\ \A u \in ts : restPc'[u] = "idle" /\ restOp'[u] = Rest!NoOp
      /\ \A u \in Threads \ ts : restPc'[u] = restPc[u] /\ restOp'[u] = restOp[u]
  BY <1>3
<1>7. OpsOK'
  <2>1. \A u \in Threads : OpOK(restPc'[u], restOp'[u])
    BY <1>6, RestFacts DEF KeysOK, OpsOK
  <2>2. QED BY <2>1 DEF OpsOK, OpOK, Rest!NoOp, Rest!KindsOf, Rest!Keys, Rest!Nothing, Rest!Never
<1>8. /\ severed \subseteq severed'
      /\ \A u \in ts : restPc[u] \in {"sent", "served"} /\ restOp[u].kind = "incr" =>
                        restOp[u].key \in severed'
  BY <1>2
<1>9. \A c \in late' \ late : \E u \in ts : restPc[u] = "sent" /\ c = Rest!Sent(u)
  BY <1>1
<1>10. ASSUME NEW c \in late' \ late
       PROVE  /\ c \in [name: Rest!Names, key: Rest!Keys, ttl: TTLs] /\ CommandOK(c)
              /\ c.name = "INCR" => c.key \in severed'
  <2>1. PICK u \in ts : restPc[u] = "sent" /\ c = Rest!Sent(u)
    BY <1>9
  <2>2. u \in Threads
    OBVIOUS
  <2>3. /\ c \in [name: Rest!Names, key: Rest!Keys, ttl: TTLs] /\ CommandOK(c)
        /\ c.key = restOp[u].key
        /\ c.name \in {"INCR", "EXPIRE"} => restOp[u].kind = "incr"
    BY <2>1, <2>2, SentIs
  <2>4. QED BY <1>8, <2>1, <2>3
<1>11. late' \subseteq [name: Rest!Names, key: Rest!Keys, ttl: TTLs]
  BY <1>10 DEF KeysOK, RestTypes
<1>12. LateOK'
  <2>1. \A c \in late' : CommandOK(c) /\ (c.name = "INCR" => c.key \in severed')
    BY <1>8, <1>10 DEF KeysOK, LateOK
  <2>2. QED BY <2>1 DEF LateOK, CommandOK
<1>13. QED BY <1>5, <1>6, <1>7, <1>8, <1>9, <1>11, <1>12

\* What an operation that returns hands out.
Given(t) ==
  IF restOp[t].kind \in {"consume", "incr"} /\ restOp[t].held # Rest!Nothing
  THEN Append(restGiven, [stamp |-> restOp[t].held.stamp, value |-> restOp[t].held.value])
  ELSE restGiven

LEMMA ReturnSays ==
  ASSUME KeysOK, NEW t \in Threads, Rest!Return(t)
  PROVE  /\ restPc[t] = "return" /\ Quiet /\ now' = now
         /\ Moves(t, "idle", Rest!NoOp)
         /\ restGiven' = Given(t) /\ restGiven' \in Seq([stamp: Nat, value: Nat])
<1>1. /\ restPc[t] = "return" /\ Quiet /\ now' = now
      /\ restPc' = [restPc EXCEPT ![t] = "idle"] /\ restOp' = [restOp EXCEPT ![t] = Rest!NoOp]
      /\ restGiven' = Given(t)
  BY DEF Rest!Return, Rest!Goto, Quiet, Given
<1>2. Moves(t, "idle", Rest!NoOp)
  BY <1>1, RestFacts DEF Moves, Rest!PCs
<1>3. restGiven' \in Seq([stamp: Nat, value: Nat])
  <2>1. restOp[t].held \in RestEntry /\ restGiven \in Seq([stamp: Nat, value: Nat])
    BY OpTypes DEF KeysOK, RestTypes
  <2>2. [stamp |-> restOp[t].held.stamp, value |-> restOp[t].held.value] \in [stamp: Nat, value: Nat]
    BY <2>1 DEF RestEntry
  <2> DEFINE x == [stamp |-> restOp[t].held.stamp, value |-> restOp[t].held.value]
  <2> HIDE DEF x
  <2>3. Append(restGiven, x) \in Seq([stamp: Nat, value: Nat])
    BY <2>1, <2>2 DEF x
  <2>4. Given(t) \in {restGiven, Append(restGiven, x)}
    BY DEF Given, x
  <2>5. QED BY <1>1, <2>1, <2>3, <2>4
<1>4. QED BY <1>1, <1>2, <1>3
-----------------------------------------------------------------------------
LEMMA KeysStep == KeysOK /\ [CliNext]_cliVars => KeysOK'
<1> SUFFICES ASSUME KeysOK, [CliNext]_cliVars PROVE KeysOK'
  OBVIOUS
<1> USE DEF KeysOK
<1>1. ASSUME restOpened' = restOpened, restStore' = restStore PROVE StoredOK'
  BY <1>1 DEF StoredOK, Rest!Keys, Rest!Nothing, Rest!Never
<1>2. ASSUME late' = late, severed' = severed PROVE LateOK'
  BY <1>2 DEF LateOK, CommandOK
<1>3. ASSUME NEW t \in Threads, NEW at, NEW o, Moves(t, at, o), Quiet,
             now' \in Nat, restGiven' \in Seq([stamp: Nat, value: Nat])
      PROVE  KeysOK'
  <2>1. restPc' \in [Threads -> Rest!PCs] /\ restOp' \in [Threads -> RestOp] /\ OpsOK'
    BY <1>3, MovesKeep
  <2>2. RestTypes'
    BY <1>3, <2>1 DEF RestTypes, Quiet, Rest!Keys, Rest!PCs, RestOp, RestEntry, Rest!Kinds, Rest!Names
  <2>3. QED BY <1>1, <1>2, <1>3, <2>1, <2>2 DEF Quiet
<1>4. CASE UNCHANGED restVars /\ now' \in {now, now + 1}
  <2>1. RestTypes'
    BY <1>4 DEF restVars, RestTypes, Rest!Keys, Rest!PCs, RestOp, RestEntry, Rest!Kinds, Rest!Names
  <2>2. OpsOK'
    BY <1>4 DEF restVars, OpsOK, OpOK, Rest!NoOp, Rest!KindsOf, Rest!Keys, Rest!Nothing, Rest!Never
  <2>3. QED BY <1>1, <1>2, <1>4, <2>1, <2>2 DEF restVars
<1>5. now \in Nat /\ restGiven \in Seq([stamp: Nat, value: Nat])
  BY DEF RestTypes
<1>6. ASSUME NEW t \in Threads, Rest!Step(t) PROVE KeysOK'
  <2>1. CASE Rest!Call(t)
    BY <1>3, <1>5, <2>1, CallSays
  <2>2. CASE Rest!Serve(t)
    <3>1. /\ Rest!Applies(Rest!Sent(t)) /\ UNCHANGED <<now, late, severed, restGiven>>
          /\ \E o : Moves(t, "served", o)
      BY <2>2, ServeSays
    <3>2. restStore' \in [Rest!Keys -> RestEntry] /\ restOpened' \in Nat /\ StoredOK'
      BY <3>1, SentIs, EffectOf
    <3>3. restPc' \in [Threads -> Rest!PCs] /\ restOp' \in [Threads -> RestOp] /\ OpsOK'
      BY <3>1, MovesKeep
    <3>4. RestTypes'
      BY <3>1, <3>2, <3>3 DEF RestTypes, Rest!Keys, Rest!PCs, RestOp, RestEntry, Rest!Kinds, Rest!Names
    <3>5. QED BY <1>2, <3>1, <3>2, <3>3, <3>4
  <2>3. CASE Rest!ServePage(t)
    BY <1>3, <1>5, <2>3, ServePageSays
  <2>4. CASE Rest!Receive(t)
    BY <1>3, <1>5, <2>4, ReceiveSays
  <2>5. CASE Rest!ReceivePage(t)
    BY <1>3, <1>5, <2>5, ReceivePageSays
  <2>6. CASE Rest!Fail(t)
    <3>1. Rest!Sever({t}) /\ UNCHANGED <<now, restStore, restOpened, restGiven>>
      BY <2>6 DEF Rest!Fail
    <3>2. /\ restPc' \in [Threads -> Rest!PCs] /\ restOp' \in [Threads -> RestOp]
          /\ OpsOK' /\ LateOK' /\ late' \subseteq [name: Rest!Names, key: Rest!Keys, ttl: TTLs]
      BY <3>1, SeverSays
    <3>3. RestTypes'
      BY <3>1, <3>2 DEF RestTypes, Rest!Keys, Rest!PCs, RestOp, RestEntry, Rest!Kinds, Rest!Names
    <3>4. QED BY <1>1, <3>1, <3>2, <3>3
  <2>7. CASE Rest!Return(t)
    BY <1>3, <1>5, <2>7, ReturnSays
  <2>8. QED BY <1>6, <2>1, <2>2, <2>3, <2>4, <2>5, <2>6, <2>7 DEF Rest!Step
<1>7. CASE Rest!Crash
  <2>1. Rest!Sever(Threads) /\ UNCHANGED <<now, restStore, restOpened, restGiven>>
    BY <1>7 DEF Rest!Crash
  <2>2. /\ restPc' \in [Threads -> Rest!PCs] /\ restOp' \in [Threads -> RestOp]
        /\ OpsOK' /\ LateOK' /\ late' \subseteq [name: Rest!Names, key: Rest!Keys, ttl: TTLs]
    BY <2>1, SeverSays
  <2>3. RestTypes'
    BY <2>1, <2>2 DEF RestTypes, Rest!Keys, Rest!PCs, RestOp, RestEntry, Rest!Kinds, Rest!Names
  <2>4. QED BY <1>1, <2>1, <2>2, <2>3
<1>8. CASE Rest!Arrive
  <2>1. PICK c \in late : Rest!Applies(c) /\ late' = late \ {c}
    BY <1>8 DEF Rest!Arrive
  <2>2. UNCHANGED <<now, restPc, restOp, severed, restGiven>>
    BY <1>8 DEF Rest!Arrive
  <2>3. restStore' \in [Rest!Keys -> RestEntry] /\ restOpened' \in Nat /\ StoredOK'
    BY <2>1, EffectOf DEF RestTypes
  <2>4. RestTypes'
    BY <2>1, <2>2, <2>3 DEF RestTypes, Rest!Keys, Rest!PCs, RestOp, RestEntry, Rest!Kinds, Rest!Names
  <2>5. OpsOK'
    BY <2>2 DEF OpsOK, OpOK, Rest!NoOp, Rest!KindsOf, Rest!Keys, Rest!Nothing, Rest!Never
  <2>6. LateOK'
    BY <2>1, <2>2 DEF LateOK, CommandOK
  <2>7. QED BY <2>3, <2>4, <2>5, <2>6
<1>9. CASE Rest!Tick
  <2>1. UNCHANGED restVars \/ UNCHANGED <<restStore, restOpened, restPc, restOp, late, severed, restGiven>>
    BY <1>9 DEF Rest!Tick
  <2>2. now' \in Nat
    BY <1>5, <1>9 DEF Rest!Tick
  <2>3. RestTypes'
    BY <2>1, <2>2 DEF restVars, RestTypes, Rest!Keys, Rest!PCs, RestOp, RestEntry, Rest!Kinds, Rest!Names
  <2>4. OpsOK'
    BY <2>1 DEF restVars, OpsOK, OpOK, Rest!NoOp, Rest!KindsOf, Rest!Keys, Rest!Nothing, Rest!Never
  <2>5. QED BY <1>1, <1>2, <2>1, <2>3, <2>4 DEF restVars
<1>10. QED BY <1>4, <1>6, <1>7, <1>8, <1>9, RestMoves DEF Rest!Next
-----------------------------------------------------------------------------
(* Scans.                                                                   *)

\* A scan at "at" with the locals o, which the keys w can rely on: those the cursor
\* has passed are in the result or in the page that is on its way.
ScanOK(at, o, w) ==
  o.kind = "scan" =>
    /\ at = "sent" => w \ o.left \subseteq Rest!ToSet(o.collected)
    /\ at = "served" => w \ o.left \subseteq Rest!ToSet(o.collected) \cup o.batch
    /\ at = "return" /\ Len(o.collected) < o.limit => w \subseteq Rest!ToSet(o.collected)
ScansOK == \A t \in Threads : ScanOK(restPc[t], restOp[t], steady[t])

LEMMA Shrinks ==
  ASSUME NEW at, NEW o, NEW w, NEW v, ScanOK(at, o, w), v \subseteq w
  PROVE  ScanOK(at, o, v)
BY DEF ScanOK

LEMMA WatchSays ==
  ASSUME KeysOK, Rest!Watch, NEW t \in Threads
  PROVE  /\ restPc[t] # "idle" => steady'[t] \subseteq steady[t]
         /\ steady'[t] \subseteq Rest!Keys \/ steady'[t] \subseteq steady[t]
BY DEF Rest!Watch, Rest!Live

LEMMA ScansStep ==
  ASSUME KeysOK, ScansOK, [CliNext]_cliVars PROVE ScansOK'
<1>1. ASSUME \A t \in Threads : ScanOK(restPc'[t], restOp'[t], steady'[t]) PROVE ScansOK'
  BY <1>1 DEF ScansOK, ScanOK, Rest!ToSet
<1>2. \A u \in Threads : ScanOK(restPc[u], restOp[u], steady[u])
  BY DEF ScansOK
<1>3. CASE UNCHANGED restVars
  BY <1>1, <1>2, <1>3 DEF restVars
<1>4. CASE Rest!Next
  <2> SUFFICES ASSUME NEW u \in Threads PROVE ScanOK(restPc'[u], restOp'[u], steady'[u])
    BY <1>1
  <2>1. /\ restPc[u] # "idle" => steady'[u] \subseteq steady[u]
        /\ steady'[u] \subseteq Rest!Keys \/ steady'[u] \subseteq steady[u]
    BY <1>4, WatchSays DEF Rest!Next
  <2>2. CASE restPc'[u] = restPc[u] /\ restOp'[u] = restOp[u]
    <3>1. CASE restPc[u] = "idle"
      BY <2>2, <3>1 DEF ScanOK
    <3>2. CASE restPc[u] # "idle"
      BY <1>2, <2>1, <2>2, <3>2, Shrinks
    <3>3. QED BY <3>1, <3>2
  <2>3. CASE restPc'[u] = "idle"
    BY <2>3 DEF ScanOK
  <2>4. ASSUME NEW t \in Threads, NEW at, NEW o, Moves(t, at, o),
               o.kind # "scan" \/ ScanOK(at, o, steady'[t])
        PROVE  ScanOK(restPc'[u], restOp'[u], steady'[u])
    <3>1. CASE u = t
      BY <2>4, <3>1, MovesKeep DEF ScanOK
    <3>2. CASE u # t
      BY <2>2, <2>4, <3>2, MovesKeep
    <3>3. QED BY <3>1, <3>2
  <2>5. ASSUME NEW t \in Threads, Rest!Step(t)
        PROVE  ScanOK(restPc'[u], restOp'[u], steady'[u])
    <3>0. ScanOK(restPc[t], restOp[t], steady[t])
      BY <1>2
    <3>1. CASE Rest!Call(t)
      <4>1. PICK o : /\ Moves(t, "sent", o) /\ o.collected = <<>>
                     /\ o.kind = "scan" => o.left = Rest!Keys
        BY <3>1, CallSays
      <4>2. steady'[t] \subseteq Rest!Keys
        <5>1. restOp'[t] = o
          BY <4>1, MovesKeep
        <5>2. restPc[t] = "idle"
          BY <3>1, CallSays
        <5>3. QED BY <1>4, <5>2 DEF Rest!Next, Rest!Watch, Rest!Live
      <4>3. o.kind = "scan" => ScanOK("sent", o, steady'[t])
        BY <4>1, <4>2 DEF ScanOK
      <4>4. QED BY <2>4, <4>1, <4>3
    <3>2. CASE Rest!Serve(t)
      BY <2>4, <3>2, ServeSays
    <3>3. CASE Rest!ServePage(t)
      <4>1. /\ restPc[t] = "sent" /\ restOp[t].kind = "scan" /\ UNCHANGED <<restStore, now>>
        BY <3>3, ServePageSays DEF Quiet
      <4>2. PICK o : /\ Moves(t, "served", o)
                     /\ o.kind = "scan" /\ o.collected = restOp[t].collected
                     /\ (restOp[t].left \ o.left) \cap Rest!Live \subseteq o.batch
        BY <3>3, ServePageSays
      <4>3. Rest!Live' = Rest!Live
        BY <4>1 DEF Rest!Live, Rest!Alive, Rest!Keys, Rest!Nothing, Rest!Never
      <4>4. steady'[t] \subseteq steady[t] \cap Rest!Live
        BY <1>4, <4>1, <4>3 DEF Rest!Next, Rest!Watch
      <4>5. ScanOK("served", o, steady'[t])
        <5>1. steady[t] \ restOp[t].left \subseteq Rest!ToSet(o.collected)
          BY <3>0, <4>1, <4>2 DEF ScanOK
        <5>2. steady'[t] \ o.left \subseteq Rest!ToSet(o.collected) \cup o.batch
          BY <4>2, <4>4, <5>1
        <5>3. QED BY <5>2 DEF ScanOK
      <4>6. QED BY <2>4, <4>2, <4>5
    <3>4. CASE Rest!Receive(t)
      BY <2>4, <3>4, ReceiveSays
    <3>5. CASE Rest!ReceivePage(t)
      <4>1. restPc[t] = "served" /\ restOp[t].kind = "scan"
        BY <3>5, ReceivePageSays
      <4>2. PICK o : /\ o.kind = "scan" /\ o.left = restOp[t].left
                     /\ Len(o.collected) < o.limit =>
                          Rest!ToSet(o.collected) = Rest!ToSet(restOp[t].collected) \cup restOp[t].batch
                     /\ \/ Moves(t, "sent", o) /\ Len(o.collected) < o.limit
                        \/ Moves(t, "return", o) /\ (Len(o.collected) < o.limit => o.left = {})
        BY <3>5, ReceivePageSays
      <4>3. steady[t] \ o.left \subseteq Rest!ToSet(restOp[t].collected) \cup restOp[t].batch
        BY <3>0, <4>1, <4>2 DEF ScanOK
      <4>4. steady'[t] \subseteq steady[t]
        BY <1>4, <4>1, WatchSays DEF Rest!Next
      <4>5. CASE Moves(t, "sent", o) /\ Len(o.collected) < o.limit
        BY <2>4, <4>2, <4>3, <4>4, <4>5 DEF ScanOK
      <4>6. CASE Moves(t, "return", o) /\ (Len(o.collected) < o.limit => o.left = {})
        <5>1. Len(o.collected) < o.limit => steady'[t] \subseteq Rest!ToSet(o.collected)
          BY <4>2, <4>3, <4>4, <4>6
        <5>2. ScanOK("return", o, steady'[t])
          BY <5>1 DEF ScanOK
        <5>3. QED BY <2>4, <4>6, <5>2
      <4>7. QED BY <4>2, <4>5, <4>6
    <3>6. CASE Rest!Fail(t)
      <4>1. Rest!Sever({t})
        BY <3>6 DEF Rest!Fail
      <4>2. (restPc'[u] = restPc[u] /\ restOp'[u] = restOp[u]) \/ restPc'[u] = "idle"
        BY <4>1, SeverSays
      <4>3. QED BY <2>2, <2>3, <4>2
    <3>7. CASE Rest!Return(t)
      BY <2>4, <3>7, ReturnSays, RestFacts
    <3>8. QED BY <2>5, <3>1, <3>2, <3>3, <3>4, <3>5, <3>6, <3>7 DEF Rest!Step
  <2>6. CASE Rest!Crash
    BY <2>3, <2>6, SeverSays DEF Rest!Crash
  <2>7. CASE Rest!Arrive \/ Rest!Tick
    BY <2>2, <2>7 DEF Rest!Arrive, Rest!Tick
  <2>8. QED BY <1>4, <2>5, <2>6, <2>7 DEF Rest!Next
<1>5. QED BY <1>3, <1>4, RestMoves
-----------------------------------------------------------------------------
(* The windows of rate limits.                                              *)

\* A thread at "at" with the locals o has opened a window of its key and has yet to
\* set its end; so has a command EXPIRE that was given up.
OpensWindow(at, o) ==
  /\ o.kind = "incr" /\ o.held.value = 1
  /\ (at = "served" /\ o.step = 1) \/ (at = "sent" /\ o.step = 2)
Opening(t, k) == OpensWindow(restPc[t], restOp[t]) /\ restOp[t].key = k
Expiring(c, k) == c \in late /\ c.name = "EXPIRE" /\ c.key = k

\* A window without an end has somebody who will set it or an incr that failed; only
\* one sets it, and finds it without one.
WindowOK(k) ==
  /\ Rest!Alive(restStore[k]) /\ restStore[k].expires = Rest!Never =>
       k \in severed \/ \E t \in Threads : Opening(t, k)
  /\ (\E t \in Threads : Opening(t, k)) \/ (\E c \in late : Expiring(c, k)) =>
       restStore[k] # Rest!Nothing /\ restStore[k].expires = Rest!Never
  /\ \A t, u \in Threads : Opening(t, k) /\ Opening(u, k) => t = u
  /\ \A t \in Threads, c \in late : ~(Opening(t, k) /\ Expiring(c, k))
  /\ \A c, d \in late : Expiring(c, k) /\ Expiring(d, k) => c = d
WindowsOK == \A k \in Counters : WindowOK(k)

LEMMA WindowSame ==
  ASSUME KeysOK, NEW k \in Counters, WindowOK(k), restStore'[k] = restStore[k],
         now' \in {now, now + 1}, severed \subseteq severed',
         \A t \in Threads : Opening(t, k)' <=> Opening(t, k),
         \A c : Expiring(c, k)' <=> Expiring(c, k)
  PROVE  WindowOK(k)'
<1> DEFINE e == restStore[k]
<1>1. e \in RestEntry /\ now \in Nat
  BY DEF KeysOK, RestTypes, Rest!Keys
<1>2. Rest!Alive(restStore[k])' => Rest!Alive(e)
  BY <1>1 DEF Rest!Alive, Rest!Nothing, Rest!Never, RestEntry
<1>3. (restStore[k] # Rest!Nothing)' <=> e # Rest!Nothing
  BY DEF Rest!Nothing, Rest!Never
<1>4. (restStore[k].expires = Rest!Never)' <=> e.expires = Rest!Never
  BY DEF Rest!Never
<1>5. \A c : c \in late /\ Expiring(c, k) <=> Expiring(c, k)
  BY DEF Expiring
<1>6. \A c : c \in late' /\ Expiring(c, k)' <=> Expiring(c, k)
  BY DEF Expiring
<1> HIDE DEF e
<1> USE DEF WindowOK
<1>7. (Rest!Alive(restStore[k]) /\ restStore[k].expires = Rest!Never =>
         k \in severed \/ \E t \in Threads : Opening(t, k))'
  BY <1>2, <1>4 DEF e
<1>8. ((\E t \in Threads : Opening(t, k)) \/ (\E c \in late : Expiring(c, k)) =>
         restStore[k] # Rest!Nothing /\ restStore[k].expires = Rest!Never)'
  BY <1>3, <1>4, <1>5, <1>6 DEF e
<1>9. (\A t, u \in Threads : Opening(t, k) /\ Opening(u, k) => t = u)'
  OBVIOUS
<1>10. (\A t \in Threads, c \in late : ~(Opening(t, k) /\ Expiring(c, k)))'
  BY <1>5, <1>6
<1>11. (\A c, d \in late : Expiring(c, k) /\ Expiring(d, k) => c = d)'
  BY <1>5, <1>6
<1>12. QED BY <1>7, <1>8, <1>9, <1>10, <1>11

\* Threads that lose their operations: those that opened a window leave it severed.
LEMMA WindowSevered ==
  ASSUME KeysOK, NEW k \in Counters, WindowOK(k), NEW ts \in SUBSET Threads, Rest!Sever(ts),
         restStore' = restStore, now' = now
  PROVE  WindowOK(k)'
<1>1. \A t \in ts : ~Opening(t, k)'
  <2>1. \A t \in ts : restPc'[t] = "idle"
    BY SeverSays
  <2>2. QED BY <2>1 DEF Opening, OpensWindow
<1>2. \A t \in Threads \ ts : Opening(t, k)' <=> Opening(t, k)
  <2>1. \A t \in Threads \ ts : restPc'[t] = restPc[t] /\ restOp'[t] = restOp[t]
    BY SeverSays
  <2>2. QED BY <2>1 DEF Opening, OpensWindow
<1>3. severed \subseteq severed' /\ \A t \in ts : Opening(t, k) => k \in severed'
  <2>1. /\ severed \subseteq severed'
        /\ \A u \in ts : restPc[u] \in {"sent", "served"} /\ restOp[u].kind = "incr" =>
                          restOp[u].key \in severed'
    BY SeverSays
  <2>2. QED BY <2>1 DEF Opening, OpensWindow
<1>4. \A c : Expiring(c, k)' =>
        \/ Expiring(c, k)
        \/ \E t \in ts : Opening(t, k) /\ c = Rest!Sent(t)
  <2> SUFFICES ASSUME NEW c, Expiring(c, k)', ~Expiring(c, k)
               PROVE  \E t \in ts : Opening(t, k) /\ c = Rest!Sent(t)
    OBVIOUS
  <2>1. c \in late' \ late /\ c.name = "EXPIRE" /\ c.key = k
    BY DEF Expiring
  <2>2. PICK u \in ts : restPc[u] = "sent" /\ c = Rest!Sent(u)
    BY <2>1, SeverSays
  <2>3. u \in Threads
    OBVIOUS
  <2>4. restOp[u].step = 2 /\ restOp[u].key = k
    BY <2>1, <2>2, <2>3, SentIs
  <2>5. restOp[u].kind = "incr" /\ restOp[u].held.value = 1
    BY <2>3, <2>4, OpTypes DEF OpOK
  <2>6. QED BY <2>2, <2>4, <2>5 DEF Opening, OpensWindow
<1>5. /\ (Rest!Alive(restStore[k]))' <=> Rest!Alive(restStore[k])
      /\ (restStore[k] # Rest!Nothing)' <=> restStore[k] # Rest!Nothing
      /\ (restStore[k].expires = Rest!Never)' <=> restStore[k].expires = Rest!Never
  BY DEF Rest!Alive, Rest!Nothing, Rest!Never
<1>6. \A c : (Expiring(c, k) => c \in late) /\ (Expiring(c, k)' => c \in late')
  BY DEF Expiring
<1> USE DEF WindowOK
<1>7. (Rest!Alive(restStore[k]) /\ restStore[k].expires = Rest!Never =>
         k \in severed \/ \E t \in Threads : Opening(t, k))'
  BY <1>2, <1>3, <1>5
<1>8. ((\E t \in Threads : Opening(t, k)) \/ (\E c \in late : Expiring(c, k)) =>
         restStore[k] # Rest!Nothing /\ restStore[k].expires = Rest!Never)'
  BY <1>1, <1>2, <1>4, <1>5, <1>6
<1>9. (\A t, u \in Threads : Opening(t, k) /\ Opening(u, k) => t = u)'
  BY <1>1, <1>2
<1>10. (\A t \in Threads, c \in late : ~(Opening(t, k) /\ Expiring(c, k)))'
  BY <1>1, <1>2, <1>4, <1>6
<1>11. (\A c, d \in late : Expiring(c, k) /\ Expiring(d, k) => c = d)'
  BY <1>4, <1>6
<1>12. QED BY <1>7, <1>8, <1>9, <1>10, <1>11

\* A command c takes effect on the window k it is for, sent by a thread or given up
\* before; the other hypotheses say who may set the end of k before and after.
LEMMA WindowApplied ==
  ASSUME KeysOK, NEW k \in Counters, WindowOK(k), NEW c \in [name: Rest!Names, key: Rest!Keys, ttl: TTLs],
         CommandOK(c), c.key = k, Rest!Applies(c), now' = now, severed' = severed,
         late' \subseteq late,
         c.name = "INCR" /\ ~Rest!Alive(restStore[k]) =>
           k \in severed \/ \E t \in Threads : Opening(t, k)',
         \A t \in Threads : Opening(t, k)' =>
           Opening(t, k) \/ (c.name = "INCR" /\ restStore'[k].value = 1),
         \A t, u \in Threads : ~Opening(t, k) /\ ~Opening(u, k) /\ Opening(t, k)' /\ Opening(u, k)' => t = u,
         c.name # "EXPIRE" => \A t \in Threads : Opening(t, k) => Opening(t, k)',
         c.name = "EXPIRE" => /\ (\E t \in Threads : Opening(t, k)) \/ (\E d \in late : Expiring(d, k))
                              /\ \A t \in Threads : ~Opening(t, k)'
                              /\ \A d \in late' : ~Expiring(d, k)
  PROVE  /\ WindowOK(k)'
         /\ restStore'[k].stamp = restStore[k].stamp /\ restStore[k].expires # Rest!Never =>
              restStore'[k].expires = restStore[k].expires
<1> DEFINE e == restStore[k]
           f == restStore'[k]
<1>1. Effect(c, e, f) /\ e \in RestEntry /\ f \in RestEntry /\ now \in Nat /\ restOpened \in Nat
      /\ (e = Rest!Nothing \/ (e.stamp \in 1..restOpened /\ e.value >= 1))
  BY EffectOf DEF KeysOK, RestTypes, StoredOK, Rest!Keys
<1>2. Rest!Nothing.value = 0 /\ Rest!Nothing.stamp = 0 /\ Rest!Nothing.expires = Rest!Never
      /\ Rest!Never = 0
  BY DEF Rest!Nothing, Rest!Never
<1>3. c.name \in {"GET", "SCAN", "INCR", "EXPIRE"}
  BY LocalFileAssumption DEF CommandOK, Rest!Names
<1>4. c.name = "EXPIRE" => c.ttl \in Nat /\ c.ttl > 0
  BY RestFacts DEF CommandOK
<1>5. /\ (Rest!Alive(restStore[k]))' <=> Rest!Alive(f)
      /\ (restStore[k] # Rest!Nothing)' <=> f # Rest!Nothing
      /\ (restStore[k].expires = Rest!Never)' <=> f.expires = Rest!Never
  BY DEF Rest!Alive, Rest!Nothing, Rest!Never
<1>6. \A x : Rest!Alive(x) <=> x # Rest!Nothing /\ (x.expires = Rest!Never \/ now < x.expires)
  BY DEF Rest!Alive
<1>7. \A d : (Expiring(d, k) <=> d \in late /\ Expiring(d, k)) /\ (Expiring(d, k)' => d \in late' /\ Expiring(d, k))
  BY DEF Expiring
<1> HIDE DEF e, f
<1>8. CASE c.name \in {"GET", "SCAN"} \/ (c.name = "INCR" /\ Rest!Alive(e))
  <2>1. /\ f.expires = e.expires /\ (e = Rest!Nothing => f = Rest!Nothing)
        /\ (f = Rest!Nothing => e = Rest!Nothing)
    <3>1. CASE c.name \in {"GET", "SCAN"}
      BY <1>1, <3>1 DEF Effect
    <3>2. CASE c.name = "INCR" /\ Rest!Alive(e)
      BY <1>1, <1>2, <1>6, <3>2 DEF Effect, RestEntry
    <3>3. QED BY <1>8, <3>1, <3>2
  <2>2. c.name = "INCR" => f.value # 1
    BY <1>1, <1>2, <1>6, <1>8 DEF Effect, RestEntry
  <2>3. \A t \in Threads : Opening(t, k)' <=> Opening(t, k)
    BY <1>3, <1>8, <2>2 DEF f
  <2>4. Rest!Alive(f) <=> Rest!Alive(e)
    BY <1>6, <2>1
  <2>5. WindowOK(k)'
    BY <1>5, <1>7, <2>1, <2>3, <2>4 DEF WindowOK, e
  <2>6. QED BY <2>1, <2>5 DEF e, f
<1>9. CASE c.name = "INCR" /\ ~Rest!Alive(e)
  <2>1. f.stamp = restOpened + 1 /\ f.value = 1 /\ f.expires = Rest!Never
    BY <1>1, <1>9 DEF Effect
  <2>2. f # Rest!Nothing /\ f.stamp # e.stamp
    BY <1>1, <1>2, <2>1
  <2>3. (\A t \in Threads : ~Opening(t, k)) /\ (\A d \in late : ~Expiring(d, k))
    BY <1>6, <1>9 DEF WindowOK, e
  <2>4. \A t, u \in Threads : Opening(t, k)' /\ Opening(u, k)' => t = u
    BY <2>3
  <2>5. WindowOK(k)'
    BY <1>5, <1>7, <1>9, <2>1, <2>2, <2>3, <2>4 DEF WindowOK, e
  <2>6. QED BY <2>2, <2>5 DEF e, f
<1>10. CASE c.name = "EXPIRE"
  <2>1. e # Rest!Nothing /\ e.expires = Rest!Never
    BY <1>10 DEF WindowOK, e
  <2>2. f.expires # Rest!Never
    <3>1. Rest!Alive(e)
      BY <1>6, <2>1
    <3>2. f = [e EXCEPT !.expires = Rest!Expiry(c.ttl)]
      BY <1>1, <1>10, <3>1 DEF Effect
    <3>3. Rest!Expiry(c.ttl) = now + c.ttl
      BY <1>4, <1>10 DEF Rest!Expiry
    <3>4. QED BY <1>1, <1>2, <1>4, <1>10, <3>2, <3>3 DEF RestEntry
  <2>3. WindowOK(k)'
    BY <1>5, <1>7, <1>10, <2>2 DEF WindowOK
  <2>4. QED BY <2>1, <2>3 DEF e
<1>11. QED BY <1>3, <1>8, <1>9, <1>10

\* The end of the window k does not move while it is the same window.
Stands(k) ==
  restStore'[k].stamp = restStore[k].stamp /\ restStore[k].expires # Rest!Never
    => restStore'[k].expires = restStore[k].expires

\* A step of one thread that leaves the store alone neither opens a window nor
\* forgets one.
LEMMA WindowMoved ==
  ASSUME KeysOK, NEW k \in Counters, WindowOK(k), NEW t \in Threads, NEW at, NEW o,
         Moves(t, at, o), Quiet, now' = now,
         OpensWindow(at, o) /\ o.key = k <=> Opening(t, k)
  PROVE  WindowOK(k)' /\ Stands(k)
<1>1. \A u \in Threads : Opening(u, k)' <=> Opening(u, k)
  <2> SUFFICES ASSUME NEW u \in Threads PROVE Opening(u, k)' <=> Opening(u, k)
    OBVIOUS
  <2>1. CASE u = t
    BY <2>1, MovesKeep DEF Opening, OpensWindow
  <2>2. CASE u # t
    BY <2>2, MovesKeep DEF Opening, OpensWindow
  <2>3. QED BY <2>1, <2>2
<1>2. \A c : Expiring(c, k)' <=> Expiring(c, k)
  BY DEF Expiring, Quiet
<1>3. now' \in {now, now + 1} /\ severed \subseteq severed'
  BY DEF Quiet
<1>4. WindowOK(k)'
  BY <1>1, <1>2, <1>3, WindowSame DEF Quiet
<1>5. QED BY <1>4 DEF Stands, Quiet

LEMMA WindowServed ==
  ASSUME KeysOK, NEW k \in Counters, WindowOK(k), NEW t \in Threads, Rest!Serve(t)
  PROVE  WindowOK(k)' /\ Stands(k)
<1> DEFINE c == Rest!Sent(t)
<1>1. /\ restPc[t] = "sent" /\ restOp[t].kind # "scan" /\ Rest!Applies(c)
      /\ UNCHANGED <<now, late, severed>>
  BY ServeSays
<1>2. PICK o : /\ Moves(t, "served", o)
               /\ o.kind = restOp[t].kind /\ o.key = restOp[t].key /\ o.step = restOp[t].step
               /\ o.held = IF o.step = 1 THEN Rest!Answer(c) ELSE restOp[t].held
  BY ServeSays
<1>3. /\ c \in [name: Rest!Names, key: Rest!Keys, ttl: TTLs] /\ CommandOK(c)
      /\ c.key = restOp[t].key /\ c.ttl = restOp[t].ttl
      /\ restOp[t].step = 2 => c.name = "EXPIRE"
      /\ restOp[t].step = 1 /\ restOp[t].kind = "incr" => c.name = "INCR"
      /\ c.name \in {"INCR", "EXPIRE"} => restOp[t].kind = "incr"
      /\ c.name = "EXPIRE" => restOp[t].step = 2
  BY SentIs
<1>4. restOp[t].step \in {1, 2} /\ (restOp[t].step = 2 => restOp[t].kind = "incr" /\ restOp[t].held.value = 1)
  BY OpTypes DEF OpOK
<1>5. c.name = "INCR" => Rest!Answer(c) = restStore'[c.key]
  BY <1>1, <1>3 DEF Rest!Applies, Rest!Answer, KeysOK, RestTypes
<1> HIDE DEF c
<1>6. restPc'[t] = "served" /\ restOp'[t] = o
  BY <1>2, MovesKeep
<1>7. \A u \in Threads \ {t} : Opening(u, k)' <=> Opening(u, k)
  BY <1>2, MovesKeep DEF Opening, OpensWindow
<1>8. Opening(t, k)' <=> OpensWindow("served", o) /\ o.key = k
  BY <1>6 DEF Opening, OpensWindow
<1>9. Opening(t, k) <=> c.name = "EXPIRE" /\ c.key = k
  BY <1>1, <1>3, <1>4 DEF Opening, OpensWindow
<1>10. Opening(t, k)' <=> c.name = "INCR" /\ c.key = k /\ restStore'[k].value = 1
  BY <1>2, <1>3, <1>4, <1>5, <1>8 DEF OpensWindow
<1>11. \A d : Expiring(d, k)' <=> Expiring(d, k)
  BY <1>1 DEF Expiring
<1>12. CASE c.key # k
  <2>1. restStore'[k] = restStore[k]
    BY <1>1, <1>3, <1>12, EffectOf DEF Rest!Keys
  <2>2. \A u \in Threads : Opening(u, k)' <=> Opening(u, k)
    BY <1>7, <1>9, <1>10, <1>12
  <2>3. WindowOK(k)'
    BY <1>1, <1>11, <2>1, <2>2, WindowSame
  <2>4. QED BY <2>1, <2>3 DEF Stands
<1>13. CASE c.key = k
  <2>1. c.name = "INCR" /\ ~Rest!Alive(restStore[k]) => \E u \in Threads : Opening(u, k)'
    <3> SUFFICES ASSUME c.name = "INCR", ~Rest!Alive(restStore[k]) PROVE Opening(t, k)'
      OBVIOUS
    <3>1. Effect(c, restStore[k], restStore'[k])
      BY <1>1, <1>3, <1>13, EffectOf
    <3>2. restStore'[k].value = 1
      BY <3>1 DEF Effect
    <3>3. QED BY <1>10, <1>13, <3>2
  <2>2. \A u \in Threads : Opening(u, k)' =>
          Opening(u, k) \/ (c.name = "INCR" /\ restStore'[k].value = 1)
    BY <1>7, <1>10
  <2>3. \A u, v \in Threads : ~Opening(u, k) /\ ~Opening(v, k) /\ Opening(u, k)' /\ Opening(v, k)' => u = v
    BY <1>7
  <2>4. c.name # "EXPIRE" => \A u \in Threads : Opening(u, k) => Opening(u, k)'
    BY <1>7, <1>9
  <2>5. c.name = "EXPIRE" =>
          /\ \E u \in Threads : Opening(u, k)
          /\ \A u \in Threads : ~Opening(u, k)'
          /\ \A d \in late' : ~Expiring(d, k)
    <3> SUFFICES ASSUME c.name = "EXPIRE"
                 PROVE  /\ \E u \in Threads : Opening(u, k)
                        /\ \A u \in Threads : ~Opening(u, k)'
                        /\ \A d \in late' : ~Expiring(d, k)
      OBVIOUS
    <3>1. Opening(t, k) /\ ~Opening(t, k)'
      BY <1>9, <1>10, <1>13
    <3>2. QED BY <1>1, <1>7, <3>1 DEF WindowOK
  <2>6. late' \subseteq late /\ now' = now /\ severed' = severed
    BY <1>1
  <2>7. QED BY <1>1, <1>3, <1>13, <2>1, <2>2, <2>3, <2>4, <2>5, <2>6, WindowApplied DEF Stands
<1>14. QED BY <1>12, <1>13

LEMMA WindowArrived ==
  ASSUME KeysOK, NEW k \in Counters, WindowOK(k), Rest!Arrive
  PROVE  WindowOK(k)' /\ Stands(k)
<1>1. PICK c \in late : Rest!Applies(c) /\ late' = late \ {c}
  BY DEF Rest!Arrive
<1>2. UNCHANGED <<now, restPc, restOp, severed>>
  BY DEF Rest!Arrive
<1>3. /\ c \in [name: Rest!Names, key: Rest!Keys, ttl: TTLs] /\ CommandOK(c)
      /\ c.name = "INCR" => c.key \in severed
  BY DEF KeysOK, RestTypes, LateOK
<1>4. \A u \in Threads : Opening(u, k)' <=> Opening(u, k)
  BY <1>2 DEF Opening, OpensWindow
<1>5. CASE c.key # k
  <2>1. restStore'[k] = restStore[k]
    BY <1>1, <1>3, <1>5, EffectOf DEF Rest!Keys
  <2>2. \A d : Expiring(d, k)' <=> Expiring(d, k)
    BY <1>1, <1>5 DEF Expiring
  <2>3. WindowOK(k)'
    BY <1>2, <1>4, <2>1, <2>2, WindowSame
  <2>4. QED BY <2>1, <2>3 DEF Stands
<1>6. CASE c.key = k
  <2>1. c.name = "EXPIRE" =>
          /\ \E d \in late : Expiring(d, k)
          /\ \A u \in Threads : ~Opening(u, k)'
          /\ \A d \in late' : ~Expiring(d, k)
    <3> SUFFICES ASSUME c.name = "EXPIRE"
                 PROVE  /\ \E d \in late : Expiring(d, k)
                        /\ \A u \in Threads : ~Opening(u, k)'
                        /\ \A d \in late' : ~Expiring(d, k)
      OBVIOUS
    <3>1. Expiring(c, k)
      BY <1>6 DEF Expiring
    <3>2. QED BY <1>1, <1>4, <3>1 DEF WindowOK
  <2>2. late' \subseteq late /\ now' = now /\ severed' = severed
    BY <1>1, <1>2
  <2>3. QED BY <1>1, <1>3, <1>4, <1>6, <2>1, <2>2, WindowApplied DEF Stands
<1>7. QED BY <1>5, <1>6

LEMMA WindowsStep ==
  ASSUME KeysOK, WindowsOK, [CliNext]_cliVars, NEW k \in Counters
  PROVE  WindowOK(k)' /\ Stands(k)
<1>1. WindowOK(k)
  BY DEF WindowsOK
<1>2. CASE UNCHANGED restVars /\ now' \in {now, now + 1}
  <2>1. /\ restStore' = restStore /\ severed \subseteq severed'
        /\ \A t \in Threads : Opening(t, k)' <=> Opening(t, k)
        /\ \A c : Expiring(c, k)' <=> Expiring(c, k)
    BY <1>2 DEF restVars, Opening, OpensWindow, Expiring
  <2>2. WindowOK(k)'
    BY <1>1, <1>2, <2>1, WindowSame
  <2>3. QED BY <2>1, <2>2 DEF Stands
<1>3. ASSUME NEW t \in Threads, Rest!Step(t) PROVE WindowOK(k)' /\ Stands(k)
  <2>1. CASE Rest!Call(t)
    <3>1. PICK o : Moves(t, "sent", o) /\ o.step = 1
      BY <2>1, CallSays
    <3>2. restPc[t] = "idle" /\ Quiet /\ now' = now
      BY <2>1, CallSays
    <3>3. ~Opening(t, k) /\ ~OpensWindow("sent", o)
      BY <3>1, <3>2 DEF Opening, OpensWindow
    <3>4. QED BY <1>1, <3>1, <3>2, <3>3, WindowMoved
  <2>2. CASE Rest!Serve(t)
    BY <1>1, <2>2, WindowServed
  <2>3. CASE Rest!ServePage(t)
    <3>1. PICK o : Moves(t, "served", o) /\ o.kind = "scan"
      BY <2>3, ServePageSays
    <3>2. restOp[t].kind = "scan" /\ Quiet /\ now' = now
      BY <2>3, ServePageSays
    <3>3. ~Opening(t, k) /\ ~OpensWindow("served", o)
      BY <3>1, <3>2 DEF Opening, OpensWindow
    <3>4. QED BY <1>1, <3>1, <3>2, <3>3, WindowMoved
  <2>4. CASE Rest!Receive(t)
    <3>1. restPc[t] = "served" /\ Quiet /\ now' = now
      BY <2>4, ReceiveSays
    <3>2. PICK o : /\ o.kind = restOp[t].kind /\ o.key = restOp[t].key /\ o.held = restOp[t].held
                   /\ \/ /\ Moves(t, "sent", o) /\ o.step = 2
                         /\ restOp[t].kind = "incr" /\ restOp[t].step = 1 /\ restOp[t].held.value = 1
                      \/ /\ Moves(t, "return", o) /\ o = restOp[t]
                         /\ restOp[t].kind = "incr" /\ restOp[t].step = 1 =>
                              restOp[t].held.value # 1
      BY <2>4, ReceiveSays
    <3>3. CASE Moves(t, "sent", o) /\ o.step = 2 /\ restOp[t].kind = "incr"
               /\ restOp[t].step = 1 /\ restOp[t].held.value = 1
      <4>1. OpensWindow("sent", o) /\ o.key = k <=> Opening(t, k)
        BY <3>1, <3>2, <3>3 DEF Opening, OpensWindow
      <4>2. QED BY <1>1, <3>1, <3>3, <4>1, WindowMoved
    <3>4. CASE /\ Moves(t, "return", o)
               /\ restOp[t].kind = "incr" /\ restOp[t].step = 1 => restOp[t].held.value # 1
      <4>1. ~Opening(t, k) /\ ~OpensWindow("return", o)
        BY <3>1, <3>4 DEF Opening, OpensWindow
      <4>2. QED BY <1>1, <3>1, <3>4, <4>1, WindowMoved
    <3>5. QED BY <3>2, <3>3, <3>4
  <2>5. CASE Rest!ReceivePage(t)
    <3>1. PICK o, at : Moves(t, at, o) /\ o.kind = "scan"
      BY <2>5, ReceivePageSays
    <3>2. restOp[t].kind = "scan" /\ Quiet /\ now' = now
      BY <2>5, ReceivePageSays
    <3>3. ~Opening(t, k) /\ ~OpensWindow(at, o)
      BY <3>1, <3>2 DEF Opening, OpensWindow
    <3>4. QED BY <1>1, <3>1, <3>2, <3>3, WindowMoved
  <2>6. CASE Rest!Fail(t)
    <3>1. Rest!Sever({t}) /\ restStore' = restStore /\ now' = now
      BY <2>6 DEF Rest!Fail
    <3>2. WindowOK(k)'
      BY <1>1, <3>1, WindowSevered
    <3>3. QED BY <3>1, <3>2 DEF Stands
  <2>7. CASE Rest!Return(t)
    <3>1. restPc[t] = "return" /\ Quiet /\ now' = now /\ Moves(t, "idle", Rest!NoOp)
      BY <2>7, ReturnSays
    <3>2. ~Opening(t, k) /\ ~OpensWindow("idle", Rest!NoOp)
      BY <3>1 DEF Opening, OpensWindow
    <3>3. QED BY <1>1, <3>1, <3>2, WindowMoved
  <2>8. QED BY <1>3, <2>1, <2>2, <2>3, <2>4, <2>5, <2>6, <2>7 DEF Rest!Step
<1>4. CASE Rest!Crash
  <2>1. Rest!Sever(Threads) /\ restStore' = restStore /\ now' = now
    BY <1>4 DEF Rest!Crash
  <2>2. WindowOK(k)'
    BY <1>1, <2>1, WindowSevered
  <2>3. QED BY <2>1, <2>2 DEF Stands
<1>5. CASE Rest!Arrive
  BY <1>1, <1>5, WindowArrived
<1>6. CASE Rest!Tick
  <2>1. /\ restStore' = restStore /\ severed \subseteq severed' /\ now' \in {now, now + 1}
        /\ \A t \in Threads : Opening(t, k)' <=> Opening(t, k)
        /\ \A c : Expiring(c, k)' <=> Expiring(c, k)
    BY <1>6 DEF Rest!Tick, Opening, OpensWindow, Expiring
  <2>2. WindowOK(k)'
    BY <1>1, <2>1, WindowSame
  <2>3. QED BY <2>1, <2>2 DEF Stands
<1>7. QED BY <1>2, <1>3, <1>4, <1>5, <1>6, RestMoves DEF Rest!Next
-----------------------------------------------------------------------------
(* What is handed out.                                                      *)

\* Locals o that hold something to hand out, and what: an entry or a number of it.
Out(o) == o.kind \in {"consume", "incr"} /\ o.held # Rest!Nothing
PairOf(e) == [stamp |-> e.stamp, value |-> e.value]
\* The store does not answer with p again.
Taken(p) ==
  /\ p.stamp \in 1..restOpened /\ p.value \in Nat
  /\ \A k \in Rest!Keys :
       restStore[k].stamp = p.stamp => k \in Counters /\ p.value <= restStore[k].value
StampsOK ==
  \A k, l \in Rest!Keys :
    restStore[k] # Rest!Nothing /\ restStore[k].stamp = restStore[l].stamp => k = l

\* What was handed out and what threads hold differ, and the store has neither.
OutsOK ==
  /\ StampsOK
  /\ \A t \in Threads : Out(restOp[t]) => Taken(PairOf(restOp[t].held))
  /\ \A i \in DOMAIN restGiven : Taken(restGiven[i])
  /\ \A t, u \in Threads :
       Out(restOp[t]) /\ Out(restOp[u]) /\ PairOf(restOp[t].held) = PairOf(restOp[u].held) => t = u
  /\ \A t \in Threads, i \in DOMAIN restGiven :
       Out(restOp[t]) => restGiven[i] # PairOf(restOp[t].held)
  /\ Rest!GivenOnce

LEMMA OutsKept ==
  ASSUME OutsOK, StampsOK', restGiven' = restGiven,
         \A p : Taken(p) => Taken(p)',
         \A t \in Threads : Out(restOp'[t]) => Out(restOp[t]) /\ restOp'[t].held = restOp[t].held
  PROVE  OutsOK'
<1> USE DEF OutsOK
<1>0. \A t \in Threads : Out(restOp[t])' <=> Out(restOp'[t])
  BY DEF Out, Rest!Nothing, Rest!Never
<1>1. (\A t \in Threads : Out(restOp[t]) => Taken(PairOf(restOp[t].held)))'
  BY <1>0 DEF PairOf
<1>2. (\A i \in DOMAIN restGiven : Taken(restGiven[i]))'
  OBVIOUS
<1>3. (\A t, u \in Threads :
         Out(restOp[t]) /\ Out(restOp[u]) /\ PairOf(restOp[t].held) = PairOf(restOp[u].held) => t = u)'
  BY <1>0 DEF PairOf
<1>4. (\A t \in Threads, i \in DOMAIN restGiven :
         Out(restOp[t]) => restGiven[i] # PairOf(restOp[t].held))'
  BY <1>0 DEF PairOf
<1>5. Rest!GivenOnce'
  BY DEF Rest!GivenOnce
<1>6. QED BY <1>1, <1>2, <1>3, <1>4, <1>5

\* Thread t comes to hold something new.
LEMMA OutsGrow ==
  ASSUME OutsOK, StampsOK', restGiven' = restGiven, NEW t \in Threads, NEW x,
         x = PairOf(restOp'[t].held), Taken(x)',
         \A p : Taken(p) => Taken(p)' /\ p # x,
         \A u \in Threads \ {t} : restOp'[u] = restOp[u]
  PROVE  OutsOK'
<1> USE DEF OutsOK
<1>0. \A u \in Threads : Out(restOp[u])' <=> Out(restOp'[u])
  BY DEF Out, Rest!Nothing, Rest!Never
<1>1. \A u \in Threads \ {t} :
        Out(restOp'[u]) => Taken(PairOf(restOp'[u].held)) /\ PairOf(restOp'[u].held) # x
  OBVIOUS
<1>2. ASSUME NEW u \in Threads, Out(restOp'[u]), NEW y, y = PairOf(restOp'[u].held)
      PROVE  Taken(y)'
  <2>1. CASE u = t
    BY <1>2, <2>1
  <2>2. CASE u # t
    BY <1>1, <1>2, <2>2
  <2>3. QED BY <2>1, <2>2
<1>3. (\A u \in Threads : Out(restOp[u]) => Taken(PairOf(restOp[u].held)))'
  BY <1>0, <1>2 DEF PairOf
<1>4. (\A i \in DOMAIN restGiven : Taken(restGiven[i]))'
  OBVIOUS
<1>5. ASSUME NEW u \in Threads, NEW v \in Threads, Out(restOp'[u]), Out(restOp'[v]),
             PairOf(restOp'[u].held) = PairOf(restOp'[v].held)
      PROVE  u = v
  BY <1>1, <1>5
<1>6. (\A u, v \in Threads :
         Out(restOp[u]) /\ Out(restOp[v]) /\ PairOf(restOp[u].held) = PairOf(restOp[v].held) => u = v)'
  BY <1>0, <1>5 DEF PairOf
<1>7. ASSUME NEW u \in Threads, NEW i \in DOMAIN restGiven, Out(restOp'[u])
      PROVE  restGiven[i] # PairOf(restOp'[u].held)
  BY <1>7
<1>8. (\A u \in Threads, i \in DOMAIN restGiven :
         Out(restOp[u]) => restGiven[i] # PairOf(restOp[u].held))'
  BY <1>0, <1>7 DEF PairOf
<1>9. Rest!GivenOnce'
  BY DEF Rest!GivenOnce
<1>10. QED BY <1>3, <1>4, <1>6, <1>8, <1>9

\* Thread t hands out what it holds.
LEMMA OutsGiven ==
  ASSUME KeysOK, OutsOK, NEW t \in Threads, Rest!Return(t)
  PROVE  OutsOK'
<1>1. /\ Quiet /\ restGiven' = Given(t)
      /\ restOp'[t] = Rest!NoOp /\ \A u \in Threads \ {t} : restOp'[u] = restOp[u]
  BY ReturnSays, MovesKeep
<1>2. ~Out(restOp'[t])
  BY <1>1, RestFacts DEF Out
<1>3. \A p : Taken(p)' <=> Taken(p)
  BY <1>1 DEF Taken, Quiet, Rest!Keys
<1>4. StampsOK'
  BY <1>1 DEF OutsOK, StampsOK, Quiet, Rest!Keys, Rest!Nothing, Rest!Never
<1>5. CASE ~Out(restOp[t])
  <2>1. restGiven' = restGiven
    BY <1>1, <1>5 DEF Given, Out
  <2>2. \A u \in Threads : Out(restOp'[u]) => Out(restOp[u]) /\ restOp'[u].held = restOp[u].held
    BY <1>1, <1>2
  <2>3. QED BY <1>3, <1>4, <2>1, <2>2, OutsKept
<1>6. CASE Out(restOp[t])
  <2> DEFINE x == PairOf(restOp[t].held)
             n == Len(restGiven)
  <2>1. restGiven' = Append(restGiven, x)
    BY <1>1, <1>6 DEF Given, Out, PairOf
  <2> HIDE DEF x
  <2>2. restGiven \in Seq([stamp: Nat, value: Nat])
    BY DEF KeysOK, RestTypes
  <2>3. /\ n \in Nat /\ DOMAIN restGiven = 1..n /\ DOMAIN restGiven' = 1..(n + 1)
        /\ \A i \in 1..n : restGiven'[i] = restGiven[i]
        /\ restGiven'[n + 1] = x
    BY <2>1, <2>2
  <2>4. \A i \in 1..n : restGiven[i] # x /\ Taken(restGiven[i])
    BY <1>6, <2>3 DEF OutsOK, x
  <2>5. Taken(x)
    BY <1>6 DEF OutsOK, x
  <2>6. \A u \in Threads : Out(restOp'[u]) =>
          u # t /\ Out(restOp[u]) /\ restOp'[u] = restOp[u] /\ PairOf(restOp[u].held) # x
    BY <1>1, <1>2, <1>6 DEF OutsOK, x
  <2>7. \A u \in Threads : Out(restOp[u])' <=> Out(restOp'[u])
    BY DEF Out, Rest!Nothing, Rest!Never
  <2> HIDE DEF n
  <2>8. (\A u \in Threads : Out(restOp[u]) => Taken(PairOf(restOp[u].held)))'
    BY <1>3, <2>6, <2>7 DEF OutsOK, PairOf
  <2>9. (\A i \in DOMAIN restGiven : Taken(restGiven[i]))'
    <3>1. \A i \in 1..(n + 1) : i \in 1..n \/ i = n + 1
      BY <2>3
    <3>2. QED BY <1>3, <2>3, <2>4, <2>5, <3>1
  <2>10. (\A u, v \in Threads :
           Out(restOp[u]) /\ Out(restOp[v]) /\ PairOf(restOp[u].held) = PairOf(restOp[v].held) => u = v)'
    BY <2>6, <2>7 DEF OutsOK, PairOf
  <2>11. ASSUME NEW u \in Threads, NEW i \in 1..(n + 1), Out(restOp'[u])
         PROVE  restGiven'[i] # PairOf(restOp'[u].held)
    <3>1. CASE i \in 1..n
      BY <2>3, <2>6, <2>11, <3>1 DEF OutsOK
    <3>2. CASE i = n + 1
      BY <2>3, <2>6, <2>11, <3>2
    <3>3. QED BY <2>3, <3>1, <3>2
  <2>12. (\A u \in Threads, i \in DOMAIN restGiven : Out(restOp[u]) => restGiven[i] # PairOf(restOp[u].held))'
    BY <2>3, <2>7, <2>11 DEF PairOf
  <2>13. Rest!GivenOnce'
    <3> SUFFICES ASSUME NEW i \in 1..(n + 1), NEW j \in 1..(n + 1), restGiven'[i] = restGiven'[j]
                 PROVE  i = j
      BY <2>3 DEF Rest!GivenOnce
    <3>1. CASE i \in 1..n /\ j \in 1..n
      BY <2>3, <3>1 DEF OutsOK, Rest!GivenOnce
    <3>2. CASE i = n + 1 /\ j \in 1..n
      BY <2>3, <2>4, <3>2
    <3>3. CASE i \in 1..n /\ j = n + 1
      BY <2>3, <2>4, <3>3
    <3>4. QED BY <2>3, <3>1, <3>2, <3>3
  <2>14. QED BY <1>4, <2>8, <2>9, <2>10, <2>12, <2>13 DEF OutsOK
<1>7. QED BY <1>5, <1>6

\* A command empties the entry of its key, opens a new one, or counts in the one it
\* finds.
LEMMA EffectKinds ==
  ASSUME KeysOK, NEW c \in [name: Rest!Names, key: Rest!Keys, ttl: TTLs], CommandOK(c), Rest!Applies(c)
  PROVE  LET e == restStore[c.key]
             f == restStore'[c.key]
         IN \/ f = Rest!Nothing /\ restOpened' = restOpened /\ c.name # "INCR"
            \/ f.stamp = restOpened + 1 /\ f.value = 1 /\ restOpened' = restOpened + 1
            \/ /\ f.stamp = e.stamp /\ e # Rest!Nothing /\ restOpened' = restOpened
               /\ \/ c.name # "INCR" /\ f.value = e.value
                  \/ c.name = "INCR" /\ f.value = e.value + 1
<1> DEFINE e == restStore[c.key]
           f == restStore'[c.key]
<1>1. Effect(c, e, f) /\ e \in RestEntry /\ restOpened' \in Nat
  BY EffectOf DEF KeysOK, RestTypes
<1>2. c.name \in Rest!Names
  OBVIOUS
<1>3. Rest!Alive(e) => e # Rest!Nothing
  BY DEF Rest!Alive
<1> HIDE DEF e, f
<1> SUFFICES \/ f = Rest!Nothing /\ restOpened' = restOpened /\ c.name # "INCR"
             \/ f.stamp = restOpened + 1 /\ f.value = 1 /\ restOpened' = restOpened + 1
             \/ /\ f.stamp = e.stamp /\ e # Rest!Nothing /\ restOpened' = restOpened
                /\ \/ c.name # "INCR" /\ f.value = e.value
                   \/ c.name = "INCR" /\ f.value = e.value + 1
  BY DEF e, f
<1>4. CASE c.name = "INCR"
  <2>1. CASE Rest!Alive(e)
    BY <1>1, <1>3, <1>4, <2>1 DEF Effect, RestEntry
  <2>2. CASE ~Rest!Alive(e)
    BY <1>1, <1>4, <2>2 DEF Effect
  <2>3. QED BY <2>1, <2>2
<1>5. CASE c.name = "EXPIRE"
  <2>1. f = e \/ (Rest!Alive(e) /\ f.stamp = e.stamp /\ f.value = e.value)
    BY <1>1, <1>5 DEF Effect, RestEntry
  <2>2. restOpened' = restOpened
    BY <1>1, <1>5 DEF Effect
  <2>3. QED BY <1>3, <1>5, <2>1, <2>2
<1>6. CASE c.name = "SET"
  BY <1>1, <1>6 DEF Effect
<1>7. CASE c.name \in {"GET", "SCAN", "DEL", "GETDEL"}
  BY <1>1, <1>7 DEF Effect
<1>8. QED BY <1>2, <1>4, <1>5, <1>6, <1>7 DEF Rest!Names

LEMMA OutsApplied ==
  ASSUME KeysOK, OutsOK, NEW c \in [name: Rest!Names, key: Rest!Keys, ttl: TTLs], CommandOK(c),
         Rest!Applies(c)
  PROVE  StampsOK' /\ \A p : Taken(p) => Taken(p)'
<1> DEFINE e == restStore[c.key]
           f == restStore'[c.key]
<1>1. \A k \in Rest!Keys \ {c.key} : restStore'[k] = restStore[k]
  BY EffectOf
<1>2. \/ f = Rest!Nothing /\ restOpened' = restOpened
      \/ f.stamp = restOpened + 1 /\ restOpened' = restOpened + 1
      \/ f.stamp = e.stamp /\ e # Rest!Nothing /\ restOpened' = restOpened
  BY EffectKinds
<1>3. f.stamp = e.stamp /\ e # Rest!Nothing => f.value >= e.value \/ f = Rest!Nothing
  <2>1. e # Rest!Nothing => e.stamp \in 1..restOpened /\ e.value \in Nat
    BY DEF KeysOK, RestTypes, StoredOK, RestEntry
  <2>2. restOpened \in Nat
    BY DEF KeysOK, RestTypes
  <2> HIDE DEF e, f
  <2>3. QED BY <2>1, <2>2, EffectKinds DEF e, f
<1>4. /\ restOpened \in Nat /\ Rest!Nothing.stamp = 0
      /\ \A k \in Rest!Keys : restStore[k] \in RestEntry
      /\ \A k \in Rest!Keys : restStore[k] = Rest!Nothing \/ restStore[k].stamp \in 1..restOpened
  BY RestFacts DEF KeysOK, RestTypes, StoredOK
<1>5. f \in RestEntry /\ (f = Rest!Nothing \/ f.stamp >= 1)
  <2>1. restStore' \in [Rest!Keys -> RestEntry] /\ restOpened' \in Nat /\ StoredOK'
    BY EffectOf
  <2>2. f \in RestEntry
    BY <2>1
  <2>3. restStore'[c.key] = Rest!Nothing \/ restStore'[c.key].stamp \in 1..restOpened'
    BY <2>1 DEF StoredOK, Rest!Keys, Rest!Nothing, Rest!Never
  <2>4. QED BY <2>1, <2>2, <2>3
<1>6. \A k, l \in Rest!Keys : restStore[k] # Rest!Nothing /\ restStore[k].stamp = restStore[l].stamp => k = l
  BY DEF OutsOK, StampsOK
<1> HIDE DEF e, f
<1>7. ASSUME NEW k \in Rest!Keys, k # c.key, restStore[k] # Rest!Nothing, restStore[k].stamp = f.stamp
      PROVE  FALSE
  BY <1>2, <1>4, <1>6, <1>7 DEF e
<1>8. ASSUME NEW k \in Rest!Keys, k # c.key, f # Rest!Nothing, restStore[k].stamp = f.stamp
      PROVE  FALSE
  <2>1. restStore[k] = Rest!Nothing
    BY <1>7, <1>8
  <2>2. QED BY <1>4, <1>5, <1>8, <2>1
<1>9. ASSUME NEW k \in Rest!Keys, NEW l \in Rest!Keys,
             restStore'[k] # Rest!Nothing, restStore'[k].stamp = restStore'[l].stamp
      PROVE  k = l
  BY <1>1, <1>6, <1>7, <1>8, <1>9 DEF f
<1>10. StampsOK'
  BY <1>9 DEF StampsOK, Rest!Keys, Rest!Nothing, Rest!Never
<1>11. ASSUME NEW p, Taken(p) PROVE Taken(p)'
  <2>1. p.stamp \in 1..restOpened /\ p.value \in Nat
        /\ \A k \in Rest!Keys : restStore[k].stamp = p.stamp => k \in Counters /\ p.value <= restStore[k].value
    BY <1>11 DEF Taken
  <2>2. p.stamp \in 1..restOpened'
    BY <1>2, <1>4, <2>1
  <2>3. ASSUME NEW k \in Rest!Keys, restStore'[k].stamp = p.stamp
        PROVE  k \in Counters /\ p.value <= restStore'[k].value
    <3>1. CASE k # c.key
      BY <1>1, <2>1, <2>3, <3>1
    <3>2. CASE k = c.key
      <4>1. f.stamp = p.stamp /\ f # Rest!Nothing
        BY <1>4, <2>1, <2>3, <3>2 DEF f
      <4>2. f.stamp = e.stamp /\ e # Rest!Nothing
        BY <1>2, <1>4, <2>1, <4>1
      <4>3. f.value >= e.value /\ f.value \in Nat /\ e.value \in Nat
        <5>1. e \in RestEntry
          <6>1. restStore[k] \in RestEntry
            BY <1>4
          <6>2. QED BY <3>2, <6>1 DEF e
        <5>2. e.value \in Nat /\ f.value \in Nat
          BY <1>5, <5>1 DEF RestEntry
        <5>3. QED BY <1>3, <4>1, <4>2, <5>2
      <4>4. k \in Counters /\ p.value <= e.value
        BY <2>1, <3>2, <4>1, <4>2 DEF e
      <4>5. QED BY <2>1, <3>2, <4>3, <4>4 DEF f
    <3>3. QED BY <3>1, <3>2
  <2>4. QED BY <2>1, <2>2, <2>3 DEF Taken, Rest!Keys
<1>12. QED BY <1>10, <1>11

LEMMA OutsServed ==
  ASSUME KeysOK, OutsOK, NEW t \in Threads, Rest!Serve(t)
  PROVE  OutsOK'
<1> DEFINE c == Rest!Sent(t)
           e == restStore[c.key]
           f == restStore'[c.key]
<1>1. /\ restPc[t] = "sent" /\ Rest!Applies(c) /\ restGiven' = restGiven
      /\ \E o : /\ Moves(t, "served", o)
                /\ o.kind = restOp[t].kind /\ o.step = restOp[t].step
                /\ o.held = IF o.step = 1 THEN Rest!Answer(c) ELSE restOp[t].held
  BY ServeSays
<1>2. PICK o : /\ Moves(t, "served", o)
               /\ o.kind = restOp[t].kind /\ o.step = restOp[t].step
               /\ o.held = IF o.step = 1 THEN Rest!Answer(c) ELSE restOp[t].held
  BY <1>1
<1>3. /\ c \in [name: Rest!Names, key: Rest!Keys, ttl: TTLs] /\ CommandOK(c)
      /\ restOp[t].step = 1 /\ restOp[t].kind = "incr" => c.name = "INCR"
      /\ restOp[t].kind = "consume" => c.name = "GETDEL"
  BY SentIs
<1>4. restOp[t].step \in {1, 2}
  BY OpTypes
<1>5. StampsOK' /\ \A p : Taken(p) => Taken(p)'
  BY <1>1, <1>3, OutsApplied
<1>6. restOp'[t] = o /\ \A u \in Threads \ {t} : restOp'[u] = restOp[u]
  BY <1>2, MovesKeep
<1>7. CASE ~Out(o) \/ o.step = 2
  <2>1. \A u \in Threads : Out(restOp'[u]) => Out(restOp[u]) /\ restOp'[u].held = restOp[u].held
    <3>1. Out(o) => Out(restOp[t]) /\ o.held = restOp[t].held
      BY <1>2, <1>7 DEF Out
    <3>2. QED BY <1>6, <3>1
  <2>2. QED BY <1>1, <1>5, <2>1, OutsKept
<1>8. CASE Out(o) /\ o.step = 1
  <2> DEFINE x == PairOf(o.held)
  <2>1. o.held = Rest!Answer(c) /\ o.held # Rest!Nothing
    BY <1>2, <1>8 DEF Out
  <2>2. c.name \in {"INCR", "GETDEL"}
    BY <1>2, <1>3, <1>8 DEF Out
  <2>3. /\ restOpened \in Nat /\ Rest!Nothing.stamp = 0 /\ e \in RestEntry
        /\ e = Rest!Nothing \/ (e.stamp \in 1..restOpened /\ e.value >= 1)
        /\ \A k \in Rest!Keys : restStore[k] = Rest!Nothing \/ restStore[k].stamp \in 1..restOpened
    BY <1>3, RestFacts DEF KeysOK, RestTypes, StoredOK
  <2>4. \A k \in Rest!Keys \ {c.key} : restStore'[k] = restStore[k]
    BY <1>1, <1>3, EffectOf
  <2>5. Effect(c, e, f)
    BY <1>1, <1>3, EffectOf
  <2>6. c.name = "INCR" => Rest!Answer(c) = f
    BY <1>1, <1>3 DEF Rest!Applies, Rest!Answer, KeysOK, RestTypes
  <2>7. c.name = "GETDEL" => Rest!Answer(c) \in {e, Rest!Nothing}
    BY DEF Rest!Answer
  <2>8. /\ c.name = "INCR" => c.key \in Counters
        /\ c.name = "GETDEL" => c.key \notin Counters
    BY <1>3, RestFacts DEF CommandOK
  <2>9. \A k \in Rest!Keys \ {c.key} : e # Rest!Nothing => restStore[k].stamp # e.stamp
    BY <1>3 DEF OutsOK, StampsOK
  <2>10. c.key \in Rest!Keys
    BY <1>3
  <2> HIDE DEF c, e, f
  <2>11. CASE c.name = "GETDEL"
    <3>1. x = PairOf(e) /\ e # Rest!Nothing
      BY <2>1, <2>7, <2>11
    <3>2. f = Rest!Nothing /\ restOpened' = restOpened
      BY <2>5, <2>11 DEF Effect
    <3>3. Taken(x)'
      <4>1. x.stamp = e.stamp /\ x.value = e.value /\ x.stamp \in 1..restOpened /\ x.value \in Nat
        BY <2>3, <3>1 DEF PairOf, RestEntry
      <4>2. \A k \in Rest!Keys : restStore'[k].stamp # x.stamp
        BY <2>3, <2>4, <2>9, <3>1, <3>2, <4>1 DEF f
      <4> HIDE DEF x
      <4>3. \A y : y = x => Taken(y)'
        BY <3>2, <4>1, <4>2 DEF Taken, Rest!Keys
      <4>4. QED BY <4>3 DEF x
    <3>4. \A p : Taken(p) => p # x
      BY <2>8, <2>10, <2>11, <3>1 DEF Taken, PairOf, e
    <3>5. QED BY <1>1, <1>5, <1>6, <3>3, <3>4, OutsGrow
  <2>12. CASE c.name = "INCR"
    <3>1. x = PairOf(f)
      BY <2>1, <2>6, <2>12
    <3>2. \/ f.stamp = restOpened + 1 /\ f.value = 1 /\ restOpened' = restOpened + 1
          \/ f.stamp = e.stamp /\ e # Rest!Nothing /\ f.value = e.value + 1 /\ restOpened' = restOpened
      BY <1>1, <1>3, <2>12, EffectKinds DEF c, e, f
    <3>3. x.stamp = f.stamp /\ x.value = f.value /\ x.stamp \in 1..restOpened' /\ x.value \in Nat
      BY <2>3, <3>1, <3>2 DEF PairOf, RestEntry
    <3>4. \A k \in Rest!Keys \ {c.key} : restStore'[k].stamp # x.stamp
      BY <2>3, <2>4, <2>9, <3>2, <3>3
    <3>5. Taken(x)'
      <4>1. \A k \in Rest!Keys : restStore'[k].stamp = x.stamp => k \in Counters /\ x.value <= restStore'[k].value
        <5>1. c.key \in Counters /\ x.value <= f.value
          BY <2>8, <2>12, <3>3
        <5>2. QED BY <3>4, <5>1 DEF f
      <4> HIDE DEF x
      <4>2. \A y : y = x => Taken(y)'
        BY <3>3, <4>1 DEF Taken, Rest!Keys
      <4>3. QED BY <4>2 DEF x
    <3>6. \A p : Taken(p) => p # x
      <4> SUFFICES ASSUME NEW p, Taken(p), p = x PROVE FALSE
        OBVIOUS
      <4>1. /\ p.stamp \in 1..restOpened /\ p.value \in Nat
            /\ e.stamp = p.stamp => p.value <= e.value
        BY <2>10 DEF Taken, e
      <4> HIDE DEF x
      <4>2. QED BY <2>3, <3>2, <3>3, <4>1 DEF RestEntry
    <3>7. QED BY <1>1, <1>5, <1>6, <3>5, <3>6, OutsGrow
  <2>13. QED BY <2>2, <2>11, <2>12
<1>9. o.step \in {1, 2}
  BY <1>2, <1>4
<1>10. QED BY <1>7, <1>8, <1>9

\* A step that leaves the store alone, hands nothing out and takes nothing.
LEMMA OutsQuiet ==
  ASSUME OutsOK, UNCHANGED <<restStore, restOpened, restGiven>>,
         \A t \in Threads : Out(restOp'[t]) => Out(restOp[t]) /\ restOp'[t].held = restOp[t].held
  PROVE  OutsOK'
<1>1. \A p : Taken(p) => Taken(p)'
  BY DEF Taken, Rest!Keys
<1>2. StampsOK'
  BY DEF OutsOK, StampsOK, Rest!Keys, Rest!Nothing, Rest!Never
<1>3. QED BY <1>1, <1>2, OutsKept

LEMMA OutsMoved ==
  ASSUME KeysOK, OutsOK, NEW t \in Threads, NEW at, NEW o, Moves(t, at, o), Quiet,
         restGiven' = restGiven, Out(o) => Out(restOp[t]) /\ o.held = restOp[t].held
  PROVE  OutsOK'
<1>1. restOp'[t] = o /\ \A u \in Threads \ {t} : restOp'[u] = restOp[u]
  BY MovesKeep
<1>2. \A u \in Threads : Out(restOp'[u]) => Out(restOp[u]) /\ restOp'[u].held = restOp[u].held
  BY <1>1
<1>3. QED BY <1>2, OutsQuiet DEF Quiet

LEMMA OutsStep ==
  ASSUME KeysOK, OutsOK, [CliNext]_cliVars PROVE OutsOK'
<1>1. CASE UNCHANGED restVars
  BY <1>1, OutsQuiet DEF restVars
<1>2. ASSUME NEW t \in Threads, Rest!Step(t) PROVE OutsOK'
  <2>1. CASE Rest!Call(t)
    <3>1. PICK o : Moves(t, "sent", o) /\ o.held = Rest!Nothing
      BY <2>1, CallSays
    <3>2. Quiet /\ restGiven' = restGiven
      BY <2>1, CallSays
    <3>3. QED BY <3>1, <3>2, OutsMoved DEF Out
  <2>2. CASE Rest!Serve(t)
    BY <2>2, OutsServed
  <2>3. CASE Rest!ServePage(t)
    <3>1. PICK o : Moves(t, "served", o) /\ o.kind = "scan"
      BY <2>3, ServePageSays
    <3>2. Quiet /\ restGiven' = restGiven
      BY <2>3, ServePageSays
    <3>3. QED BY <3>1, <3>2, OutsMoved DEF Out
  <2>4. CASE Rest!Receive(t)
    <3>1. Quiet /\ restGiven' = restGiven
      BY <2>4, ReceiveSays
    <3>2. PICK o, at : Moves(t, at, o) /\ o.kind = restOp[t].kind /\ o.held = restOp[t].held
      BY <2>4, ReceiveSays
    <3>3. QED BY <3>1, <3>2, OutsMoved DEF Out
  <2>5. CASE Rest!ReceivePage(t)
    <3>1. PICK o, at : Moves(t, at, o) /\ o.kind = "scan"
      BY <2>5, ReceivePageSays
    <3>2. Quiet /\ restGiven' = restGiven
      BY <2>5, ReceivePageSays
    <3>3. QED BY <3>1, <3>2, OutsMoved DEF Out
  <2>6. CASE Rest!Fail(t)
    <3>1. Rest!Sever({t}) /\ UNCHANGED <<restStore, restOpened, restGiven>>
      BY <2>6 DEF Rest!Fail
    <3>2. \A u \in Threads : Out(restOp'[u]) => Out(restOp[u]) /\ restOp'[u].held = restOp[u].held
      BY <3>1, SeverSays, RestFacts DEF Out
    <3>3. QED BY <3>1, <3>2, OutsQuiet
  <2>7. CASE Rest!Return(t)
    BY <2>7, OutsGiven
  <2>8. QED BY <1>2, <2>1, <2>2, <2>3, <2>4, <2>5, <2>6, <2>7 DEF Rest!Step
<1>3. CASE Rest!Crash
  <2>1. Rest!Sever(Threads) /\ UNCHANGED <<restStore, restOpened, restGiven>>
    BY <1>3 DEF Rest!Crash
  <2>2. \A u \in Threads : Out(restOp'[u]) => Out(restOp[u]) /\ restOp'[u].held = restOp[u].held
    BY <2>1, SeverSays, RestFacts DEF Out
  <2>3. QED BY <2>1, <2>2, OutsQuiet
<1>4. CASE Rest!Arrive
  <2>1. PICK c \in late : Rest!Applies(c)
    BY <1>4 DEF Rest!Arrive
  <2>2. restOp' = restOp /\ restGiven' = restGiven
    BY <1>4 DEF Rest!Arrive
  <2>3. c \in [name: Rest!Names, key: Rest!Keys, ttl: TTLs] /\ CommandOK(c)
    BY DEF KeysOK, RestTypes, LateOK
  <2>4. StampsOK' /\ \A p : Taken(p) => Taken(p)'
    BY <2>1, <2>3, OutsApplied
  <2>5. QED BY <2>2, <2>4, OutsKept
<1>5. CASE Rest!Tick
  BY <1>5, OutsQuiet DEF Rest!Tick
<1>6. QED BY <1>1, <1>2, <1>3, <1>4, <1>5, RestMoves DEF Rest!Next
-----------------------------------------------------------------------------
(* The theorems about the stores.                                           *)

RestOK == KeysOK /\ ScansOK /\ WindowsOK /\ OutsOK

LEMMA RestInit == Rest!Init => RestOK
<1> SUFFICES ASSUME Rest!Init PROVE RestOK
  OBVIOUS
<1>1. KeysOK
  BY KeysInit
<1>2. /\ restStore = [k \in Rest!Keys |-> Rest!Nothing] /\ restGiven = <<>> /\ late = {}
      /\ restPc = [t \in Threads |-> "idle"] /\ restOp = [t \in Threads |-> Rest!NoOp]
  BY DEF Rest!Init
<1>3. Rest!NoOp.kind = "get"
  BY DEF Rest!NoOp
<1>4. ScansOK
  BY <1>2, <1>3 DEF ScansOK, ScanOK
<1>5. WindowsOK
  <2>1. \A k \in Counters : restStore[k] = Rest!Nothing
    BY <1>2 DEF Rest!Keys
  <2>2. \A k \in Counters, t \in Threads : ~Opening(t, k)
    BY <1>2 DEF Opening, OpensWindow
  <2>3. QED BY <1>2, <2>1, <2>2 DEF WindowsOK, WindowOK, Rest!Alive
<1>6. OutsOK
  <2>1. \A t \in Threads : ~Out(restOp[t])
    BY <1>2, <1>3 DEF Out
  <2>2. DOMAIN restGiven = {}
    BY <1>2
  <2>3. StampsOK
    BY <1>2 DEF StampsOK
  <2>4. QED BY <2>1, <2>2, <2>3 DEF OutsOK, Rest!GivenOnce
<1>7. QED BY <1>1, <1>4, <1>5, <1>6 DEF RestOK

LEMMA RestInvariant == CliSpec => []RestOK
<1>1. CliInit => RestOK
  BY RestInit DEF CliInit
<1>2. RestOK /\ [CliNext]_cliVars => RestOK'
  <2> SUFFICES ASSUME RestOK, [CliNext]_cliVars PROVE RestOK'
    OBVIOUS
  <2>1. KeysOK /\ ScansOK /\ WindowsOK /\ OutsOK
    BY DEF RestOK
  <2>2. KeysOK' /\ ScansOK' /\ OutsOK'
    BY <2>1, KeysStep, ScansStep, OutsStep
  <2>3. \A k \in Counters : WindowOK(k)'
    BY <2>1, WindowsStep
  <2>4. QED BY <2>2, <2>3 DEF RestOK, WindowsOK
<1>3. QED BY <1>1, <1>2, PTL DEF CliSpec

\* A rate-limit window of the REST store ends, unless an incr of it failed: the incr
\* that opened it has its EXPIRE before it (RestKV.incr).
THEOREM WindowsAreEnded == CliSpec => []WindowsEnd
<1>1. RestOK => WindowsEnd
  <2> SUFFICES ASSUME RestOK, NEW k \in Counters, Rest!Alive(restStore[k]),
                      restStore[k].expires = Rest!Never, k \notin severed
               PROVE  \E t \in Threads : restOp[t].kind = "incr" /\ restOp[t].key = k
                                         /\ restOp[t].held.value = 1 /\ restPc[t] # "return"
    BY DEF WindowsEnd, Rest!WindowsEnd
  <2>1. PICK t \in Threads : Opening(t, k)
    BY DEF RestOK, WindowsOK, WindowOK
  <2>2. QED BY <2>1 DEF Opening, OpensWindow
<1>2. QED BY <1>1, RestInvariant, PTL

\* No hit of a window moves its end, in whatever order the commands of several
\* processes arrive, those that were given up among them (RestKV.incr).
THEOREM WindowKeepsItsEnd == CliSpec => WindowStands
<1>1. RestOK /\ [CliNext]_cliVars =>
        [\A k \in Counters :
           restStore'[k].stamp = restStore[k].stamp /\ restStore[k].expires # Rest!Never
             => restStore'[k].expires = restStore[k].expires]_restStore
  <2> SUFFICES ASSUME RestOK, [CliNext]_cliVars, NEW k \in Counters PROVE Stands(k)
    BY DEF Stands
  <2>1. QED BY WindowsStep DEF RestOK
<1>2. QED BY <1>1, RestInvariant, PTL DEF CliSpec, WindowStands, Rest!WindowStands

\* Neither store hands a token out twice or the same number of a window twice,
\* although threads interleave, answers get lost, commands arrive late and the process
\* dies; a scan below its limit has found every key that stayed there (the consume,
\* incr and scan_prefix of both backends).
THEOREM StoresAnswerRight == CliSpec => []StoreAnswers
<1>1. Spec => [](FileOK /\ GivenOK)
  <2>1. Init => FileOK /\ GivenOK
    BY FileInit, GivenInit
  <2>2. FileOK /\ GivenOK /\ [Next]_vars => (FileOK /\ GivenOK)'
    BY FileStep, GivenStep
  <2>3. QED BY <2>1, <2>2, PTL DEF Spec
<1>2. RestOK => Rest!ScanFindsAll
  BY DEF RestOK, ScansOK, ScanOK, Rest!ScanFindsAll
<1>3. GivenOK /\ RestOK => StoreAnswers
  BY <1>2 DEF GivenOK, RestOK, OutsOK, StoreAnswers
<1>4. QED BY <1>1, <1>3, FileSpec, RestInvariant, PTL
=============================================================================
