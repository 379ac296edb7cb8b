------------------------------ MODULE Certificates ------------------------------
(***************************************************************************)
(* From a request to a drawn page: the search in its three modes           *)
(* (api/search.py), the choice of certificate and of what is printed       *)
(* (api/download.py), the overlay (engine/renderer.py) and the font        *)
(* registry that the threads of a process share (engine/fonts.py).         *)
(*                                                                         *)
(* A process serves one or more projects, each a directory with its        *)
(* configuration, tables, templates and fonts.  The rows stand still here: *)
(* Records has the edits, PublicPortal the gates in front of a request.    *)
(***************************************************************************)
EXTENDS CertConfig

CONSTANTS
  Threads,
  Projects,
  Setups,    \* the ways projects are set up: a sequence of functions from Projects
  Norm,      \* Norm[factor][text]: what is compared of a text
  Queries,   \* what callers know of a student: functions from Factors to texts
  TooLong,   \* the texts of more than MAX_FIELD_LENGTH characters
  Versions   \* the valid contents of font files

Factors == {"name", "dob", "phone"}
Free == "free"

\* document is what is in cert.config.json; rows[table] the student's row, or NoRow;
\* pages[path] the pages of a template, 0 if it is missing or too large.
NoRow == <<>>
\* The tables are those that ingest made: a row has all their columns.
IsSetup(s) ==
  LET c == s.document
  IN /\ IsDocument(c)
     /\ IsMap(s.pages, Names, Nat)
     /\ Accepted(c) => \A table \in Tables(c) :
          s.rows[table] = NoRow \/ s.rows[table] \in [Columns(c) -> Texts \cup {Blank}]

ASSUME CertificatesAssumption ==
  /\ \A n \in DOMAIN Setups : \A p \in Projects : IsSetup(Setups[n][p])
  /\ Versions # {}
  /\ Free \notin Threads

VARIABLES
  setup,       \* which of Setups it is
  serving,     \* the projects whose configuration was accepted
  font,        \* font[path]: the content of a font file
  registered,  \* registered[psname]: the face ReportLab draws under that name
  names,       \* FontRegistry._psname_by_path
  lock,        \* the thread in FontRegistry._lock, or Free
  pc, job      \* where each thread is in a request, and its locals

registry == <<registered, names, lock>>
vars == <<setup, serving, font, registry, pc, job>>
-----------------------------------------------------------------------------
Absent == "absent"
Broken == "broken"
Contents == {Absent, Broken} \cup Versions

\* Two projects have directories of their own.
Path(p, rel) == <<p, rel>>
Paths == Projects \X FontFiles
\* _psname_for: the key and a digest of the path.
\* Mutant: the key alone, as if every project had one directory.
PSNameOfKey(key, path) == <<key, <<CHOOSE p \in Projects : TRUE, path[2]>>>>
PSName(key, path) == <<key, path>>
PSNames == FontKeys \X Paths
NoFace == <<>>

In(p) == Setups[setup][p]
Config(p) == In(p).document
RoundsOf(p) == Config(p).rounds
RowIn(p, i) == In(p).rows[RoundsOf(p)[i].table]
Cell(row, col) == IF col = Unset \/ row = NoRow THEN Blank ELSE row[col]
-----------------------------------------------------------------------------
(* search_student, for the sbd of the request.                              *)

Same(factor, a, b) == Norm[factor][a] = Norm[factor][b]

\* The mode's column is not configured: SearchError.
Misconfigured(p) ==
  LET c == Config(p)
  IN \/ c.mode = "name_dob_captcha" /\ c.data_mapping.dob = Unset
     \/ c.mode = "sbd_phone" /\ c.data_mapping.phone = Unset

MatchPredicate(p, row, q) ==
  LET m == Config(p).data_mapping
      mode == Config(p).mode
      name == Same("name", Cell(row, m.name), q["name"])
  IN CASE mode = "name_dob_captcha" -> name /\ Same("dob", Cell(row, m.dob), q["dob"])
       [] mode = "name_sbd_captcha" -> name
       [] mode = "sbd_phone" ->
            Same("phone", Cell(row, m.phone), q["phone"]) /\ q["phone"] # Blank

\* verify_identity_any: whichever factor the caller supplied.
\* Mutant: every factor.
VerifyIdentityAll(p, row, q) ==
  LET m == Config(p).data_mapping
  IN /\ row # NoRow /\ m.phone # Unset /\ m.dob # Unset
     /\ Same("name", Cell(row, m.name), q["name"])
     /\ Same("phone", Cell(row, m.phone), q["phone"])
     /\ Same("dob", Cell(row, m.dob), q["dob"])
VerifyIdentityAny(p, row, q) ==
  LET m == Config(p).data_mapping
      proves(factor, col) ==
        q[factor] # Blank /\ col # Unset /\ Same(factor, Cell(row, col), q[factor])
  IN row # NoRow /\ (proves("name", m.name) \/ proves("phone", m.phone) \/ proves("dob", m.dob))

\* The rounds, by position, that the student was found in; an admin is asked nothing.
Matched(p, admin, q) ==
  {i \in DOMAIN RoundsOf(p) :
     RowIn(p, i) # NoRow /\ (admin \/ MatchPredicate(p, RowIn(p, i), q))}

\* The first entry of results[code] with the cell's name; its page, or 0.
PageOf(p, code, cell) ==
  LET entries == Config(p).results[code]
      same == {i \in DOMAIN entries : Same("name", entries[i].name, cell)}
  IN IF cell = Blank \/ same = {} THEN 0 ELSE entries[Min(same)].page

\* The certificates of a row, by the position of the round and of the subject.
PageAt(p, at) ==
  LET subject == Config(p).subjects[at[2]]
  IN PageOf(p, subject.code, Cell(RowIn(p, at[1]), subject.db_col))

\* _collect_certificates, for every round the student was found in.
Collected(p, found) ==
  {at \in found \X DOMAIN Config(p).subjects : PageAt(p, at) # 0}

\* _pick_certificate: those of that round and subject, of which the first is taken.
\* Mutant: the round is not compared.
PickAnyRound(p, certs, round, code) ==
  {at \in certs : Config(p).subjects[at[2]].code = code}
Pick(p, certs, round, code) ==
  {at \in certs : RoundsOf(p)[at[1]].id = round /\ Config(p).subjects[at[2]].code = code}
First(certs) ==
  LET round == Min({at[1] : at \in certs})
  IN <<round, Min({at[2] : at \in {x \in certs : x[1] = round}})>>

\* _resolve_template: the first round with that id.
Template(p, id) ==
  RoundsOf(p)[Min({i \in DOMAIN RoundsOf(p) : RoundsOf(p)[i].id = id})].pdf

\* _build_field_values: the fields that a row could have, with their columns, and those
\* it has, by position: they are configured and not called like one before them.
Candidates(p) ==
  LET m == Config(p).data_mapping
  IN <<<<"name", m.name>>, <<"dob", m.dob>>, <<"school", m.school>>, <<"phone", m.phone>>>>
     \o [i \in DOMAIN m.extra |-> <<m.extra[i], m.extra[i]>>]
FieldValues(p, row) ==
  LET all == Candidates(p)
      has(i) == /\ all[i][2] # Unset
                /\ \A j \in 1..(i - 1) : all[j][1] = all[i][1] => all[j][2] = Unset
  IN {[at |-> i, field |-> all[i][1], text |-> Cell(row, all[i][2])] :
        i \in {n \in DOMAIN all : has(n)}}

\* The renderer's loop: what is drawn of the row.
\* Mutant: a field whose font file is missing is left out.
OverlayOfLoadable(p, row) ==
  LET c == Config(p)
  IN {x \in FieldValues(p, row) :
        /\ x.field \in DOMAIN c.layout /\ x.text # Blank
        /\ font[Path(p, c.fonts[c.layout[x.field]])] # Absent}
Overlay(p, row) ==
  {x \in FieldValues(p, row) : x.field \in DOMAIN Config(p).layout /\ x.text # Blank}
-----------------------------------------------------------------------------
Faces == Paths \X Versions
PCs == {"idle", "lookup", "lock", "parse", "store", "draw"}

Nothing == [f \in Factors |-> Blank]
Request == [project: Projects, round: Names, code: Names, admin: BOOLEAN,
            query: Queries \cup {Nothing}]
NoJob == [request |-> <<>>, row |-> NoRow, page |-> 0, todo |-> {}, drawn |-> {}]

Goto(t, to) == pc' = [pc EXCEPT ![t] = to]
\* A request ends without a certificate: an error response.
Refuse(t) == Goto(t, "idle") /\ job' = [job EXCEPT ![t] = NoJob]

\* The field being drawn, the first of those to do, the key and the file of its font.
Todo(t) == job[t].todo
Current(t) == CHOOSE x \in Todo(t) : \A y \in Todo(t) : x.at <= y.at
Key(t) == Config(job[t].request.project).layout[Current(t).field]
File(t) == LET p == job[t].request.project IN Path(p, Config(p).fonts[Key(t)])
CacheKey(t) == <<Key(t), File(t)>>
\* FontRegistry.resolve.
Resolves(t) ==
  /\ Key(t) \in DOMAIN Config(job[t].request.project).fonts
  /\ font[File(t)] # Absent

Init ==
  /\ setup \in DOMAIN Setups
  /\ serving = {}
  /\ font \in [Paths -> {CHOOSE v \in Versions : TRUE}]
  /\ registered = [n \in PSNames |-> NoFace]
  /\ names = [k \in PSNames |-> NoFace]
  /\ lock = Free
  /\ pc = [t \in Threads |-> "idle"]
  /\ job = [t \in Threads |-> NoJob]

\* load_config, and the tables of an ingest: a project that fails is not served.
Load(p) ==
  /\ p \notin serving
  /\ Accepted(Config(p)) /\ HasSchema(Config(p))
  /\ serving' = serving \cup {p}
  /\ UNCHANGED <<setup, font, registry, pc, job>>

\* What the search found, of that round and subject.
Chosen(p, r) == Pick(p, Collected(p, Matched(p, r.admin, r.query)), r.round, r.code)

\* The request gets as far as the overlay: without a certificate, or if the template
\* lacks its page, it is refused and leaves nothing behind.
Renders(p, r) ==
  LET certs == Chosen(p, r)
  IN /\ r.admin \/ ~Misconfigured(p)
     /\ certs # {}
     /\ PageAt(p, First(certs)) \in 1..In(p).pages[Template(p, RoundsOf(p)[First(certs)[1]].id)]

Started(p, r) ==
  LET row == RowIn(p, Min(Matched(p, r.admin, r.query)))
  IN [request |-> r, row |-> row, page |-> PageAt(p, First(Chosen(p, r))),
      todo |-> Overlay(p, row), drawn |-> {}]

\* An admin supplies no factor.
Requests(p) ==
  {[project |-> p, round |-> round, code |-> code, admin |-> query = Nothing, query |-> query] :
     round \in {x.id : x \in ToSet(RoundsOf(p))}, code \in Codes(Config(p)),
     query \in Queries \cup {Nothing}}

\* download_certificate up to the first field.
Download(t) ==
  /\ pc[t] = "idle"
  /\ \E p \in serving : \E r \in Requests(p) :
       Renders(p, r) /\ job' = [job EXCEPT ![t] = Started(p, r)]
  /\ Goto(t, "lookup")
  /\ UNCHANGED <<setup, serving, font, registry>>

\* The length check, then ensure_loaded without the lock: resolve, and the cache.
Lookup(t) ==
  /\ pc[t] = "lookup"
  /\ Todo(t) # {}
  /\ Current(t).text \notin TooLong
  /\ Resolves(t)
  /\ Goto(t, IF names[CacheKey(t)] # NoFace THEN "draw" ELSE "lock")
  /\ UNCHANGED <<setup, serving, font, registry, job>>

\* OverlayError, or FontRegistryError from resolve, the second time in missing_glyphs.
Fails(t) ==
  /\ pc[t] \in {"lookup", "draw"}
  /\ Todo(t) # {}
  /\ Current(t).text \in TooLong \/ ~Resolves(t)
  /\ Refuse(t)
  /\ UNCHANGED <<setup, serving, font, registry>>

\* With the lock, the cache is looked at again.
\* Mutant: it is not.
LoadedUnseen(k) == FALSE
Loaded(k) == names[k] # NoFace

Acquire(t) ==
  /\ pc[t] = "lock"
  /\ lock = Free
  /\ IF Loaded(CacheKey(t)) THEN Goto(t, "draw") /\ UNCHANGED lock
     ELSE Goto(t, "parse") /\ lock' = t
  /\ UNCHANGED <<setup, serving, font, registered, names, job>>

\* TTFont reads the file.
\* Mutant: whatever is in it.
ParsesAnything(t) == TRUE
Parses(t) == font[File(t)] \in Versions

\* registerFont(TTFont(psname, path)).
Register(t) ==
  /\ pc[t] = "parse"
  /\ Parses(t)
  /\ registered' = [registered EXCEPT ![PSName(Key(t), File(t))] = <<File(t), font[File(t)]>>]
  /\ Goto(t, "store")
  /\ UNCHANGED <<setup, serving, font, names, lock, job>>

\* TTFError: the with block gives the lock back.
\* Mutant: it is given back on success only.
ReleasedLate(t) == lock
Released(t) == Free

Reject(t) ==
  /\ pc[t] = "parse"
  /\ ~Parses(t)
  /\ lock' = Released(t)
  /\ Refuse(t)
  /\ UNCHANGED <<setup, serving, font, registered, names>>

Store(t) ==
  /\ pc[t] = "store"
  /\ names' = [names EXCEPT ![CacheKey(t)] = PSName(Key(t), File(t))]
  /\ lock' = Free
  /\ Goto(t, "draw")
  /\ UNCHANGED <<setup, serving, font, registered, job>>

\* setFont and the text; ReportLab looks the face up by name.
Draw(t) ==
  /\ pc[t] = "draw"
  /\ Resolves(t)
  /\ job' = [job EXCEPT ![t].todo = @ \ {Current(t)},
                        ![t].drawn = @ \cup {[field |-> Current(t).field,
                          text |-> Current(t).text, face |-> registered[names[CacheKey(t)]]]}]
  /\ Goto(t, "lookup")
  /\ UNCHANGED <<setup, serving, font, registry>>

Finish(t) ==
  /\ pc[t] = "lookup"
  /\ Todo(t) = {}
  /\ Refuse(t)
  /\ UNCHANGED <<setup, serving, font, registry>>

\* The operator replaces, damages, removes or restores a font file.
ReplaceFont ==
  /\ \E p \in serving : \E k \in DOMAIN Config(p).fonts :
       LET path == Path(p, Config(p).fonts[k])
       IN \E content \in Contents \ {font[path]} : font' = [font EXCEPT ![path] = content]
  /\ UNCHANGED <<setup, serving, registry, pc, job>>

Render(t) ==
  \/ Lookup(t) \/ Fails(t) \/ Acquire(t) \/ Register(t) \/ Reject(t) \/ Store(t) \/ Draw(t)
  \/ Finish(t)

Next ==
  \/ \E p \in Projects : Load(p)
  \/ \E t \in Threads : Download(t) \/ Render(t)
  \/ ReplaceFont

\* A thread goes on with its request; the lock is not kept from a thread for ever
\* while others pass it around.  Nobody has to call, and nothing has to be replaced.
Fairness == \A t \in Threads : WF_vars(Render(t)) /\ SF_vars(Acquire(t))

Spec == Init /\ [][Next]_vars /\ Fairness
-----------------------------------------------------------------------------
\* The variables have their types.
TypeOK ==
  /\ setup \in DOMAIN Setups
  /\ serving \subseteq Projects
  /\ font \in [Paths -> Contents]
  /\ registered \in [PSNames -> Faces \cup {NoFace}]
  /\ names \in [PSNames -> PSNames \cup {NoFace}]
  /\ lock \in Threads \cup {Free}
  /\ pc \in [Threads -> PCs]
  /\ \A t \in Threads : pc[t] # "idle" => job[t].request \in Request
  /\ \A t \in Threads : \A x \in job[t].drawn : x.face \in Faces

\* The certificates that are about to be returned.
Delivered ==
  {job[t] : t \in {u \in Threads : pc[u] = "lookup" /\ Todo(u) = {}}}

\* The page of a certificate is the one of the result that the student has in the
\* round and the subject of the request, and of no other result of that subject,
\* whichever rounds the search collected certificates from (search_student,
\* _collect_certificates, _pick_certificate; the uniqueness rules of CertConfig).
PageShowsResult ==
  \A cert \in Delivered :
    LET r == cert.request
        c == Config(r.project)
        results == {Cell(In(r.project).rows[round.table], s.db_col) :
                      round \in {x \in ToSet(c.rounds) : x.id = r.round},
                      s \in {x \in ToSet(c.subjects) : x.code = r.code}}
        shown == {e \in ToSet(c.results[r.code]) : e.page = cert.page}
    IN shown # {} /\ \A e \in shown, cell \in results : Same("name", e.name, cell)

\* Every text is drawn with a face read from the file that the project's own
\* configuration names for the field, although projects may use the same keys and
\* threads register fonts at the same time (FontRegistry).
DrawnInOwnFont ==
  \A t \in Threads : \A x \in job[t].drawn :
    LET p == job[t].request.project
    IN x.face[1] = Path(p, Config(p).fonts[Config(p).layout[x.field]])

\* A certificate has every text it should: each field of the layout that the row
\* has something for.  A font that has gone missing or broken, a text that is too
\* long fail the request, they do not leave a field out (render_certificate_bytes).
NothingMissing ==
  \A cert \in Delivered :
    LET p == cert.request.project
        drawn == {[field |-> x.field, text |-> x.text] : x \in cert.drawn}
    IN /\ \A x \in FieldValues(p, cert.row) :
            x.field \in DOMAIN Config(p).layout /\ x.text # Blank =>
              [field |-> x.field, text |-> x.text] \in drawn
       /\ \A x \in drawn : x.text \notin TooLong

\* Whoever got a certificate by a factor that is not blank can look up the
\* shipment with what they know: the look-up is never stricter than the search
\* ("recipients can identify themselves by either their name or their phone").
LookupIsLenient ==
  \A cert \in Delivered :
    LET r == cert.request
        factor == IF Config(r.project).mode = "sbd_phone" THEN "phone" ELSE "name"
    IN ~r.admin /\ r.query[factor] # Blank =>
         VerifyIdentityAny(r.project, cert.row, r.query)

\* A face that threads draw with is not replaced under them while the process
\* lives, even if the file is: it is registered once ("registration is serialized",
\* FontRegistry.ensure_loaded).
FacesStand ==
  [][\A n \in PSNames :
       registered[n] # NoFace => registered'[n] = registered[n]]_registered

\* Every request comes to an end: no error keeps the lock, no thread waits for
\* itself (ensure_loaded, render_certificate_bytes).
EveryRenderEnds == \A t \in Threads : pc[t] # "idle" ~> pc[t] = "idle"
=============================================================================
