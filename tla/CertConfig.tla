------------------------------ MODULE CertConfig ------------------------------
(***************************************************************************)
(* cert.config.json: what it can say (config/models.py), which documents   *)
(* the validators accept, and the SQLite schema derived from one           *)
(* (storage/sqlite_schema.py).  Patterns, colours and coordinates are      *)
(* abstracted to the set of malformed names; the rules between fields are  *)
(* kept.  An object is a function, an array a sequence.                    *)
(***************************************************************************)
EXTENDS Naturals, SequencesExt

CONSTANTS
  Names,      \* what rounds, tables, columns, subjects, carriers, templates are called
  FontKeys, FontFiles,  \* what fonts and their files are called
  Malformed,  \* the names that break the pattern of the field they stand in
  Texts,      \* results and shipment statuses
  Fold        \* Fold[x]: status x in lower case, surrounding blanks removed

Blank == ""
Unset == "unset"

ASSUME CertConfigAssumption ==
  /\ Unset \notin Names
  /\ Malformed \subseteq Names \cup FontKeys \cup FontFiles
  /\ Fold \in [Texts -> Texts \cup {""}]

Optional == Names \cup {Unset}
IsMap(f, keys, values) == DOMAIN f \subseteq keys /\ \A k \in DOMAIN f : f[k] \in values

Round == [id: Names, table: Names, pdf: Names]
Subject == [code: Names, db_col: Names]
\* One entry of results[code]; their order is that of the file.
Entry == [name: Texts, page: Nat]
\* "school" stands for every optional column that nothing searches: school, grade.
DataMapping == [sbd: Names, name: Names, dob: Optional, school: Optional, phone: Optional,
                extra: Seq(Names)]
SearchMode == {"name_dob_captcha", "name_sbd_captcha", "sbd_phone"}
\* An import profile is what its export template adds to; profiles is the set of names.
ShipmentImport == [profiles: SUBSET Names, default: Optional]
Shipment == [statuses: Seq(Texts), fields: Seq(Names), public_fields: SUBSET Names,
             import: ShipmentImport]
IsDocument(c) ==
  /\ c.rounds \in Seq(Round) /\ c.subjects \in Seq(Subject)
  /\ IsMap(c.results, Names, Seq(Entry))
  /\ c.data_mapping \in DataMapping
  /\ IsMap(c.layout, Names, FontKeys)       \* field |-> its font
  /\ IsMap(c.fonts, FontKeys, FontFiles)
  /\ c.mode \in SearchMode
  /\ c.shipment \in Shipment

Codes(c) == {s.code : s \in ToSet(c.subjects)}
-----------------------------------------------------------------------------
(* The validators.                                                          *)

RelativePaths(c) ==
  {r.pdf : r \in ToSet(c.rounds)} \cup {c.fonts[k] : k \in DOMAIN c.fonts}
RoundIdents(c) == UNION {{r.id, r.table} : r \in ToSet(c.rounds)}
SubjectIdents(c) == UNION {{s.code, s.db_col} : s \in ToSet(c.subjects)}
MappedColumns(c) ==
  LET m == c.data_mapping
  IN ({m.sbd, m.name, m.dob, m.school, m.phone} \ {Unset}) \cup ToSet(m.extra)

WellFormed(c) ==
  /\ c.rounds # <<>> /\ c.subjects # <<>>
  /\ DOMAIN c.layout # {} /\ DOMAIN c.fonts # {}
  /\ Malformed \cap (RelativePaths(c) \cup RoundIdents(c) \cup SubjectIdents(c)
                     \cup MappedColumns(c) \cup DOMAIN c.fonts
                     \cup ToSet(c.shipment.fields)) = {}

RoundIdsUnique(c) == IsInjective([i \in DOMAIN c.rounds |-> c.rounds[i].id])
SubjectCodesUnique(c) == IsInjective([i \in DOMAIN c.subjects |-> c.subjects[i].code])

PagesUnique(entries) ==
  /\ entries # <<>>
  /\ \A i \in DOMAIN entries : entries[i].page >= 1
  /\ IsInjective([i \in DOMAIN entries |-> entries[i].page])
ResultsMatchSubjects(c) ==
  /\ DOMAIN c.results = Codes(c)
  /\ \A code \in DOMAIN c.results : PagesUnique(c.results[code])

LayoutFontsRegistered(c) == \A field \in DOMAIN c.layout : c.layout[field] \in DOMAIN c.fonts

DefaultExists(c) == c.shipment.import.default \in c.shipment.import.profiles \cup {Unset}
StatusesUnique(c) ==
  /\ c.shipment.statuses # <<>>
  /\ IsInjective([i \in DOMAIN c.shipment.statuses |-> Fold[c.shipment.statuses[i]]])
  /\ \A s \in ToSet(c.shipment.statuses) : Fold[s] # Blank
Reserved == {"id", "round_id", "sbd", "status", "created_at", "updated_at"}
FieldsUnique(c) ==
  IsInjective(c.shipment.fields) /\ Reserved \cap ToSet(c.shipment.fields) = {}
PublicFieldsDeclared(c) == c.shipment.public_fields \subseteq ToSet(c.shipment.fields)

Accepted(c) ==
  /\ WellFormed(c)
  /\ RoundIdsUnique(c) /\ SubjectCodesUnique(c)
  /\ ResultsMatchSubjects(c) /\ LayoutFontsRegistered(c)
  /\ DefaultExists(c) /\ StatusesUnique(c) /\ FieldsUnique(c) /\ PublicFieldsDeclared(c)
-----------------------------------------------------------------------------
(* build_schema: one table per round, with the same columns.                *)

Columns(c) == MappedColumns(c) \cup {s.db_col : s \in ToSet(c.subjects)}
Tables(c) == {r.table : r \in ToSet(c.rounds)}
HasSchema(c) == IsInjective([i \in DOMAIN c.rounds |-> c.rounds[i].table])
=============================================================================
