# Formal models of luonvuitoi-cert

luonvuitoi-cert is a self-hosted portal for certificates: students are ingested
into SQLite, the public looks them up and downloads PDFs, admins correct records
and run the shipping of printed certificates. This directory holds TLA+ models of
the parts of it whose correctness depends on the order of things: what several
workers, a clock and a crash can do between two statements of a handler. TLC
checks the models on small instances, TLAPS proves the theorems for every value
of the constants. What is not about order, a document's rules or what a search
finds, is there where a property depends on it.

    tlc -workers 2 -config ShipmentDraft_race.cfg MCShipmentDraft    # one run
    tlapm ShipmentDraft_proofs.tla                                   # the proofs

`PROJECT.json` maps every definition to the source lines it stands for and lists
the runs, the mutants (a plausible bug of one definition, for each property), the
findings, the hazards and the theorems.

Paths below are relative to `packages/core/luonvuitoi_cert/` unless they start
with `packages/`.

## 1. The system

### How it runs

Every operation is a handler called by a Flask route (`packages/cli/.../server/app.py`)
or by the command line. Requests are served by threads of one process or by
serverless functions, so any number of handlers run at once and any of them may
die at any point. They share

* one SQLite file (students, drafts, shipments, admins, audit trail). Python's
  `sqlite3` opens a transaction at the first INSERT/UPDATE/DELETE, never at a
  SELECT: what a handler reads before its first write is read without a lock;
* one key/value store (CAPTCHA answers, one-time codes, rate-limit counters,
  token denylist, feature gates): a JSON file, or Redis over HTTPS (`RestKV`). A
  command is atomic, a handler uses several.

### Components

| component | state | operations | what makes it hard | what makes it correct |
|---|---|---|---|---|
| shipment drafts, `shipment/draft.py` | table `shipment_draft`, UNIQUE (round, sbd, status) | add, list, cancel, export | SELECT before the lock; UNIQUE counts closed rows too | one active draft; exported drafts locked; the file and the batch agree |
| carrier import, `shipment/bulk_import.py` | `shipment_history`, `shipment_draft` | parse, upsert history, promote drafts | several codes per phone, re-sends, re-runs | promoted drafts have history; never rolled back |
| admin sessions, `auth/login.py`, `tokens.py`, `otp.py`, `magic_link.py` | KV: codes, links, denylist; signed tokens | three login modes, check, sign-out | races on one code; whole seconds against a finer clock | a code logs in once; a sign-out is final |
| admin accounts, `auth/admin_db.py` | table `admin_users` | create, change password, delete | account removed during a login | no session for a removed account's later login |
| public gate, `api/captcha.py`, `rate_limiter.py`, `feature_gates.py` | KV: challenges, counters, two flags | issue, verify, count, read and flip flags | requests slower than a window; INCR and EXPIRE apart; two flags read one by one | single use; the limit; a freeze holds |
| public handlers, `api/search.py`, `download.py`, `shipment.py` | none of their own | search, download, shipment look-up | order of gate, CAPTCHA and limit | no quota without a challenge |
| student records, `api/admin_update.py`, `admin_list.py`, `ingest/`, `storage/sqlite_schema.py` | one table per round | ingest, update one field, list | stale reads; re-ingest over corrections; rounds read one by one | no committed edit undone; answers audited; a certificate's name belongs to its result |
| shipment records, `shipment/repository.py`, `schema.py` | table `shipments` | upsert, get, list | two admins patch one record | a field holds what the last request to name it said |
| QR, `qr/`, `api/verify.py`, `gen_keys.py` | two key files | generate, sign, verify | key pair written in two steps; two clocks and an age window | genuine codes fail only for age; valid ones are genuine |
| KV store, `storage/kv/` | JSON file / Redis over REST | get, set, consume, incr, scan, ... | lazy expiry, load-modify-save, a clock that runs on; lost answers and late commands | the file implements one atomic store; over REST nothing is handed out twice and windows end |
| configuration, `config/`, `storage/sqlite_schema.py` | a document, read once | load, validate, derive the schema | rules that relate several parts of a document | what is accepted can be served: a result has one page |
| PDF engine, `engine/` | `FontRegistry`: names, a lock; ReportLab's fonts | resolve, register, draw | a cache read without its lock; files that change; names that are global | every text in its own project's font; nothing left out; no lock kept |
| command line, `packages/cli/.../main.py`, `commands/` | files; a staging directory | init, dev, import-shipments, gen-keys, ... | a target that is looked at first and used later; clean-up after errors | all of a scaffold or nothing; no file lost or left behind |
| audit trail, `auth/activity_log.py` | table `admin_activity`, webhook queue | log, recent, forward | a transaction of its own, after the one it reports; posts lag and get lost | what is delivered or forwarded is logged |
| transport, UI, locales, e-mail, ingest readers, input validation | - | - | - | see section 8 |

### Interactions

Public handlers call gate -> CAPTCHA -> limiter -> SQLite. Admin handlers call the
token check (which reads the denylist) -> SQLite transaction -> audit row (another
transaction) -> response. An import writes `shipment_history` and closes drafts in
one transaction. A download renders through the font registry, which all threads of
a process share. Nothing is called back; all other coupling is through the two stores.

## 2. The modules

| module | models | note |
|---|---|---|
| `ShipmentDraft` | `draft.py` and the transaction of `bulk_import.py` | rows, history, audit; one program counter per worker |
| `DraftLifecycle` | what the draft table promises | abstract: one slot per student; refined by `ShipmentDraft` |
| `AdminSession` | login, token check, sign-out | clock of `Rate` ticks a second |
| `PublicPortal` | gates, CAPTCHA, limiter and the handlers that use them | one step per KV command |
| `Records` | round tables, shipments, audit trail with its webhook, downloads | tables with last-writer history variables |
| `CarrierFile` | the loop of `bulk_import.py` over a sheet, and a directory that is corrected meanwhile | one row a step, against a declarative reference |
| `ImportShipments` | the command and the route around that loop, its transaction row by row | extends `CarrierFile` |
| `CertConfig` | `config/models.py`, the validators, `sqlite_schema.py` | constant operators, no state |
| `Certificates` | search in three modes, choice of certificate, overlay, fonts | extends `CertConfig`; the one module with liveness |
| `QrVerify` | `gen_keys.py`, signing, `verify.py` | true time and one clock per server |
| `KVStore` | the `KVBackend` contract as `MemoryKV` fulfils it | abstract: atomic operations between call and return |
| `LocalFileKV` | `storage/kv/local.py`, one process | refines `KVStore` |
| `RestKV` | `storage/kv/rest.py`, any number of processes | lost and late commands |
| `ProjectInit` | `commands/init.py` | staging, checks, rename |
| `CommandLine` | `main.py`, `commands/dev.py`, `build_app`, `open_kv` | composes `LocalFileKV`, `RestKV`, `ProjectInit`, `ImportShipments` |
| `MC...` | instances for TLC | symmetry sets, sequences, functions |
| `..._proofs` | theorems and proofs about `ShipmentDraft`, `AdminSession`, `PublicPortal`, `Records`, `QrVerify`, `Certificates`, `ProjectInit`, `CommandLine` | the last one also for the modules `CommandLine` composes |

The modules of the portal's handlers are built alike: `pc[w]` says where worker `w` is in
its handler and `job[w]` holds the handler's local variables (what it read and
still relies on). An action is one atomic step of the code: one KV command, one
SELECT outside a transaction, or everything from the first write to the commit.
`Abandon(w)` ends a handler anywhere: a killed worker, a lost connection, "database
is locked", an exception that propagates. Uncommitted writes are never visible, so
abandoning drops only the local state.

### ShipmentDraft

`rows[s][n]` is the n-th draft ever inserted for student `s` (a pair of round and
SBD); "absent" and "deleted" are not rows. `AddBegin` .. `AddInsert` are
`draft_add`: the request's guard and the student query, the look at each student
before the lock, then, from the first INSERT, the rest of the loop under the lock.
`Cancel` is one UPDATE. `ExportSelect` / `ExportMark` are the SELECT and the UPDATE
of `draft_export`; the second one takes the lock and trusts the ids of the first.
`ImportCommit` is the whole transaction of `bulk_import_shipments`: history rows
and promotions; `CarrierFiles` is the set of files a carrier can return, after
phones were matched (students who share a phone share every row). An operation
that would break UNIQUE raises IntegrityError: the tables stay as they were and the
worker is in a "conflict" state. `Log` and `Reply` are the audit row and the
response. `contents[b]` and `delivered` record what each export's file holds and
whether it left the server; they are what the outside world knows.

### AdminSession

`challenge[n]` is the KV entry of the n-th code or link, `token[t]` the claims of a
minted JWT, `denied[t]` the expiry of its denylist entry. `exp` is in whole seconds,
the clock is not: `Rate` ticks make a second, and `Tick` may happen between any two
steps. `StartRequest` is the decode of `verify_admin_token`, `CheckDenylist` its KV
look-up; `TakeRemaining` computes the entry's lifetime and `Deny` writes it, maybe
later. An OTP is whatever the client typed, right or wrong; a link can be followed
only after it was mailed. Failed logins leave audit rows that name no session and
are not kept.

### PublicPortal

The handlers share their steps: a search starts at `GateLookup`, a download at
`GateLookupFirst` (it checks both flags, then goes through the search). The limiter
reads the clock (`ReadClock`), counts (`Incr`) and, when the count is 1, gives the
key its lifetime with a second command (`Expire`), as `RestKV.incr` does. The gate
update writes the two flags and then its audit row. `passed`, `admitted`, `shut`,
`late` and `alone` are history variables: no guard reads them.

### Records

`table[r][s]` is the row of student `s` in round `r`, `shipments[s]` the shipment
(each upsert is one statement). `Ingest` is a whole `ingest_rows`, one transaction
over a file. `UpdateSelect` / `UpdateWrite` are the SELECT and the UPDATE of
`update_student_field`; the library function and `ingest_rows` are called by the
operator's scripts, not by a route. `Scan` and `Log` are the listing and the audit
row it waits for. `Forward` hands a logged action to the executor, `Post` is the
HTTP request, in any order; `Crash` loses what is queued. A download reads the
rounds one SELECT at a time (`SearchRound`), takes the result from the first match
(`Pick`) and renders (`Render`). A request is served in one of the three search modes:
`factors` holds what the student gave for the columns that mode compares (`Compared`),
nothing for an admin. `last` holds what the last committed request to name each
cell said: it is computed from the request, not from the table.

### CarrierFile and ImportShipments

`Build` reads the phones of the round's table, then there is one step per row of the
sheet; `Correct` is an `admin_update` of a phone at any time until the end. A phone is
who it belongs to and how it is written; `NormalizePhone` is what the digits-only rule
makes of each way. `Unresolved` and `GiveUp` are the errors. `ImportShipments` puts the
two ways in around it: `Refuse` and `Accept` are the checks of the route (the command
has none), `temp` is the uploaded file, `Abort`, `Close` and `Kill` the ways it ends.
`Insert` and `Commit` are the transaction as far as `shipment_history` goes, row by row,
with a rollback if `Abort` or `Kill` comes in between; what it does to drafts is
`ShipmentDraft`'s `ImportCommit`. `Log` is the audit row after it, which may fail and then
leaves committed rows behind an error (`FailToLog`).

### CertConfig and Certificates

`CertConfig` has the shape of `cert.config.json` (`IsDocument`), the validators
between fields (`Accepted`) and the derived schema (`Columns`, `HasSchema`). Patterns
are a set of malformed names. `Setups` are ways to set projects up: a document, the
student's row in each table, the pages of each template.

`Load` serves a project whose document was accepted. `Download` is the handler up to
the first field: the search in the mode of the document (`MatchPredicate`, `Matched`),
the certificates of all rounds (`Collected`), the one that was asked for (`Pick`,
`First`), what is printed (`FieldValues`, `Overlay`). Rounds and certificates are sets
of positions in the document, whose order is the loops'; the first of several has the
least position. No other thread changes what it reads, so it is one step. Then there
is a step wherever threads meet: `Lookup` (text length, font file, the cache without
the lock), `Acquire`, `Register` or `Reject` (ReportLab parses the file), `Store`,
`Draw`. A request that is refused ends in "idle" again, nothing of it is left.
`font[path]` is what is in a font file, which the operator may replace, damage or
remove at any time; `registered` is ReportLab's global table of names. Nothing in
memory survives a restart, after which the process is as in `Init`.

### QrVerify

`private` and `public` are the two files: a key, absent, or empty while they are
being written. `gen-keys` writes the private one, then truncates and writes the
public one; it may die at each point, and `--force` runs it over existing files.
Signing reads the private file and then stamps the server's clock; verifying
checks slug, signature and age in that order. `rotated` and `calm` record whether a
pair was generated meanwhile. Signatures are taken to be unforgeable: a blob is one
the project signed, intact or not.

### KVStore and LocalFileKV

`KVStore` gives each operation one step in which it takes effect, between `Call` and
`Return`. `LocalFileKV` has the steps of the code: lock, load, change the dictionary,
save, return; the clock runs on between them, a save may fail, the process may be
killed after `os.replace` and before the return. The mapping says an operation has
taken effect when its thread is about to return. `MemoryKV` and `LocalFileKV` take the
expiry of a `set` before the lock and that of an `incr` under it, and so do the
modules. Two processes on one file are refused by `open_kv` when it can tell (`Opens`
in `CommandLine`).

### RestKV

An operation is one command or two, `SCAN` any number. `Serve` is the server's step,
`Receive` the client's; `Fail` is every KVError, after which the command may have been
served, may never be, or is in `late` and arrives at any later time. `Crash` loses all
operations. SCAN passes some keys of the cursor at a time, keys may come back again and
a page may be empty. `stamp` tells the entries of a key apart; `severed`, `steady` and
`given` are history variables.

### ProjectInit and CommandLine

Several runs of `init` for one target, and the user, who may put a file there at any
time: `Look` is the test for an empty target, `Place` and `Rename` come after the
prompts and the rendering. A file is known by the run that wrote it, so that mixtures
are visible. `Fail` is the `except BaseException` clause, `Kill` leaves what is there.

`CommandLine` dispatches a command. `Dev` goes through what the environment may hold
(`Environment`) and boots the portal or refuses; then the chosen store serves
operations, or an import comes over the web.

## 3. The runs

Passing runs (each property has a mutant that TLC rejects under the same cfg):

| run | instance | properties | shows |
|---|---|---|---|
| `ShipmentDraft_serial` | 2 students, 1 worker, 2 drafts each, 2 batches | `OneActive`, `FileMatchesBatch`, `ExportNeverConflicts`, `PromotedHasHistory`, `HardLock`, `ImplementsLifecycle` | requests one after the other, dying anywhere, keep every promise of the draft table |
| `ShipmentDraft_race` | 1 student, 2 workers, 3 drafts, 2 codes, 2 batches | `TypeOK`, `ExportedIsInItsFile`, `DeliveredIsAudited`, `ImportNeverConflicts`, `OnlyStaleExportReopens` | what survives interleaving, over send, re-send and a third draft |
| `AdminSession_codes` | 1 admin, 2 workers, 2 codes, 2 challenges, both code modes | `OneSessionPerChallenge` | one code, one session, whatever the order |
| `AdminSession_revocation` | 2 ticks a second, tokens of 2 s, 2 workers, 6 ticks | `LoggedOutIsDead`, `RevokedStaysOut` | sign-out against the clock |
| `PublicPortal_window` | window 2 s, limit 2, 3 workers, 5 s | `WindowLimit` | late and interrupted counting |
| `PublicPortal_gate` | 3 surfaces, 2 workers, 1 challenge, 2 gate updates | `CaptchaAdmitsOnce`, `QuotaNeedsCaptcha`, `FreezeHolds` | order of the gates, single use, freeze |
| `Records_edits` | 1 student, 2 rounds, 2 workers, 2 requests, 3 source files | `EditsStand`, `TrailIsComplete`, `PrintedRowIsOwners` | overlapping edits, ingests and downloads, lagging webhook |
| `QrVerify_rotation` | 2 servers, skew 1 s, tolerance 2 s, 5 s, 2 pairs, 1 code | `TypeOK`, `FreshVerifies`, `ValidMeansGenuine`, `PairAgrees` | signing and verifying during key generation |
| `Certificates_render` | 2 threads; 10 documents in 3 search modes with 2 sets of rows, and two small projects; 2 contents of a font file | `TypeOK`, `PageShowsResult`, `DrawnInOwnFont`, `NothingMissing`, `LookupIsLenient`, `FacesStand`, `EveryRenderEnds` | from a request to a drawn page, with fonts that change, in projects that share a process |
| `CommandLine_commands` | file store: 2 threads, a token and a counter, 4 calls; REST: 3 calls; TTL 2, 2 s; 2 runs of init, 2 files; 4 students, 3 forms of a phone, 2 codes, sheets of 2 rows, a correction | `ImplementsKV`, `StoreAnswers`, `WindowsEnd`, `WindowStands`, `NothingHalfDone`, `FilesStay`, `RowsMatchReference`, `StatsAddUp` | what a process started by `lvt-cert` may do: the store it opens, init, the carrier import over either way in |

`StoreAnswers` is `GivenOnce` of both stores and `ScanFindsAll`; `NothingHalfDone` is
`TargetWhole` and `NothingLeftBehind` of `ProjectInit`, `WrittenByRight` and `NoTempLeft` of
`ImportShipments`. Type invariants are in a run where a theorem states them or a plausible
bug breaks them; those of `AdminSession`, `PublicPortal` and `Records` are proved without a
run of their own, and `CliTypeOK` holds on this instance.

Runs TLC must find violated, each a statement of the repository the code does not
keep (`findings` in `PROJECT.json` quotes it):

| run | property | what happens |
|---|---|---|
| `ShipmentDraft_lock_race` | `HardLock` | two exports read the same draft; the second moves a locked draft into its batch, so two files list it |
| `ShipmentDraft_cancel_twice` | `CancelNeverConflicts` | add, cancel, add, cancel: the second cancel raises IntegrityError |

Other divergences were met while modelling and have no run of their own:

* one draft per student and round (`draft.py:17`): an add looks, another add and its
  export run, the first add inserts, and the student has an exported and a new
  draft. `OneActive` therefore is a property of the serial run;
* "idempotent (no draft churn)" (`bulk_import.py:392`): after a second send, re-running
  the old carrier file closes the new draft with the old code;
* "can never accidentally target the whole student table" (`draft.py:257`):
  `sbd_list: [" "]` passes the guard and drafts the round (`AddAccepted`, `Matched`);
* no orphan keys (`docs/architecture.md:169`): a request that dies between INCR and
  EXPIRE leaves a counter that never expires. `WindowLimit` holds all the same;
* `_normalize_phone` counts "+84 ..." among the ways to write one number
  (`bulk_import.py:93`), but 84 stays in the digits: such a number matches only
  another one written with it. `RowsMatchReference` excepts that case;
* `draft_add` passes over a student whose draft is exported, where the module comment
  says it raises (`draft.py:19`), and skips one with a draft, where it says the draft
  is replaced;
* a gate update that dies before its audit row, or two that race, leave a gate state
  no audit row records (`docs/operations.md:109`);
* the docstring of `SchemaError` promises an error for colliding columns, but
  `_collect_columns` merges equal ones, and names that differ in case only pass the
  validators and collide in SQLite. A round's table may have the name of one of the
  system's own (`admin_users`);
* a document in the default mode without `dob_col`, or in `sbd_phone` mode without
  `phone_col`, is accepted, and then every search fails (`Misconfigured`);
* two results of a subject whose names are equal after normalisation are accepted; the
  first one wins and the later page cannot be reached (`PageOf`);
* `LookupIsLenient` asks for a factor that is not blank and for cells without trailing
  blanks: `admin_update` can store a phone with one, which the search compares as it
  is and the look-up strips;
* a font file that was replaced is not read again, yet `resolve` still asks for the
  file that the cached face does not need (`Resolves`);
* `scan_prefix` does not remove the keys that Redis returns twice, and counts them
  towards the limit. It has no caller;
* a REST command that timed out may still be applied: a late SET undoes a newer one. A
  window whose EXPIRE failed never ends (`severed`);
* `lvt-cert shipment` calls its handlers without a KV store, so a revoked token passes
  there (`packages/cli/.../commands/shipment.py:81`), and `shipment export` writes the file after the
  drafts are locked (line 179);
* a phone corrected after the import read the table still gets the old match;
* `rmtree(ignore_errors=True)` may leave a part of the staging directory, where
  `Cleaned` leaves nothing;
* the audit rows of an admin's search and download are best effort
  (`packages/cli/.../server/app.py:321`, 387);
* the module comment of `admin_update.py:10` says old and new values are in the audit
  log, the code leaves them out on purpose (line 112).

### Bounds, and why they are enough

* `MaxDrafts`, `MaxBatches`: an interaction between drafts of a student needs a
  closed one, an active one and a new one (3); between exports, two. `race` has one
  student, its properties concern one student's rows (the add loop over several
  students is in `serial`); the theorems have no such bound.
* `MaxTokens`, `MaxChallenges`: two, for "at most one session per code" and for an
  OTP that replaces another; one token for revocation, whose tokens do not interact.
* `MaxTime`: the life of a token plus a second and more; two windows and more.
* `MaxDelay <= Window`: a request counts itself at most a window after it read the
  clock. `RestKV` gives up after 5 s and the shortest window is 60 s. A command that
  timed out is taken not to be applied later, which only `RestKV` allows. With a longer
  delay a key could expire and be counted from 1 again.
* `MaxCount`, `MaxCaptchas`, `MaxUpdates`: one more than the limit; a challenge; two
  updates, so that they race.
* Symmetry: workers (and students of one round, and codes, where no cfg value tells
  them apart). It is used with invariants and `[][A]_vars` only.
* `Records`: two requests overlap, after tables that an ingest of each file left; a
  download reads two rounds, the smallest number whose rows can disagree, and all files
  give the student one phone, under two names; a file names a student twice, or not at
  all.
* `QrVerify`: two pairs, so that one replaces the other; the skew is the largest the
  tolerance covers (2 * `MaxSkew` = `Tolerance`); time runs past `max_age` plus both
  skews, and `max_age` 0 is among the limits. The theorems have no such bound.
* `CarrierFile`: two rows hold a code and its repetition, or two codes, with three
  students on a phone, written in three ways, and one without.
* `LocalFileKV` and `RestKV`: a captcha key and a counter, since their operations
  differ. Four calls by two threads cover set, consume by both, and a window that ends;
  three calls over REST are a first hit, one that is late and one after it.
* `ProjectInit`: two runs race, and one of two files may be written.
* `Certificates`: the documents are pairs of an accepted one and one that a rule
  refuses, or search modes, each with a student in both rounds and in one. Two projects
  with the same keys and paths are the fewest that can mix fonts; a file has two
  contents, so that one replaces the other. The theorems have no such bound.
* `CommandLine`: operations on the store and an import over the web are not mixed in
  one behaviour (they share the import's rate limit only); the clock is the stores'.
* Deadlock is checked in every run but `Certificates_render`, where nobody has to ask
  for anything, and `CommandLine_commands`, whose commands end.

## 4. Fairness

`Certificates` assumes, for each thread, WF of its own steps in a request (`Render`) and
SF of `Acquire`; nothing makes anybody ask for a certificate or replace a file. Weak
fairness is that a thread goes on running. Strong fairness is needed because a broken
font makes every render take the lock again: `threading.Lock` promises no order, but no
waiter is passed over for ever by threads that each do other work between two turns.
A thread that dies takes the process with it, and its lock.

None is assumed elsewhere. Those properties are safety properties: the code retries
nothing and promises no answer, every wait is a client's, and a handler may die at any
step.

## 5. What the properties leave open

* `RevokedStaysOut` allows a handler to pass with a revoked token whose lifetime
  ended between its decode and its KV look-up: the denylist entry then ends with the
  token. The handler decoded while the token was valid.
* `FreezeHolds` speaks of updates that no other update overlapped: with two racing
  updates the last writer of each key wins.
* `LoggedOutIsDead` and `WindowLimit` take all workers to share one clock.
* `OneActive`, `HardLock`, `FileMatchesBatch`, `ExportNeverConflicts` and the refinement
  hold of serial requests only, and are proved of them; `ShipmentDraft_lock_race` shows why.
* `WindowsEnd` excepts counters with an `incr` that failed, `NothingLeftBehind` and
  `NoTempLeft` what a kill leaves, `ScanFindsAll` scans that reach their limit.
* `FacesStand` is about one process: after a restart a replaced font is read anew.
* `PrintedRowIsOwners` is about the columns the search compared. In `sbd_phone` mode these
  do not include the name (`search.py:169`), so two rounds with one SBD and one phone
  ending but two names give a certificate with the name of the first round's row and the
  result of the other's, without any concurrency. Nothing in the repository promises
  otherwise. The columns no search compares (school, say) are the first row's in every
  mode.
* `NothingHalfDone` lets an import end in an error after its commit: when the audit row
  fails, the rows stay and the operator is told of the failure only.
* `PairAgrees` excepts runs of `gen-keys` that died: those leave two keys that do not
  agree.
* `EditsStand` speaks of cells, not of the old value an answer reports, which may be
  stale.
* `FreshVerifies` says nothing of codes signed or checked while the key files were
  being replaced, nor after a run of `gen-keys` died: those codes do fail.

Hard to test, and covered by no property, because the code does what can go wrong or
promises nothing: the draft list of blanks (`draft.py:284`); role and account are the
token's, so an admin who was demoted keeps the old ones until it expires
(`tokens.py:124`); a gate that is flipped and not logged
(`packages/cli/.../server/app.py:706`); `updated_at` of a shipment is taken before the
lock and may run backwards (`repository.py:85`); expired keys that nobody touches again
pile up in the JSON file (`local.py:69`); a late SET (`rest.py:82`); an export file
that cannot be written (`packages/cli/.../commands/shipment.py:179`).

## 6. Proofs

A run shows a property on its instance; the theorems below hold for every value of the
constants that the module's named ASSUME allows. TLC evaluates each ASSUME in the runs.
All 40 properties of the passing runs but one, `EveryRenderEnds`, have a theorem.

The proofs go one way: an invariant that says what each worker has established by the
time it is at a point of its handler is shown to be inductive with one lemma per action,
and the property follows. What a worker relies on is a predicate of its program counter
and its local variables (`LocalOK(pc[w], job[w], ...)`), so that a step of one worker has
to be shown not to disturb that of another only where tables change.

### ShipmentDraft_proofs

For any students, rounds, workers, codes, drafts and batches (`ShipmentAssumption`):

| theorem | states | says |
|---|---|---|
| `TypeCorrect` | `TypeOK` | types; draft n exists iff n were inserted; UNIQUE holds after every commit |
| `ExportsComplete` | `ExportedIsInItsFile` | an exported or promoted draft is in the file of its batch |
| `PromotionsRecorded` | `PromotedHasHistory` | a promoted draft's code is in `shipment_history` |
| `ImportsCommit` | `ImportNeverConflicts` | an import is never rolled back by UNIQUE |
| `DeliveriesAudited` | `DeliveredIsAudited` | a file that left the server has its audit row |
| `ClosedRowsStay` | `OnlyStaleExportReopens` | only an export that read a draft earlier reopens it |

The inductive invariant `IInv` is the conjunction of the first five and `Locals`: a worker
between SELECT and response holds a batch id it took from `nextBatch`, the ids in its
`job` are the recorded contents of that batch, and a worker at "reply" has its audit row.
Without `Locals` the step `ExportMark` could stamp a draft that is not in the file.
Lemmas say what each write does to one row (`InsertedRows`, `CancelledRows`,
`MarkedRows`, `PromotedRows`) and why promotion keeps UNIQUE (`PromotedUnique`:
the student's promoted rows are removed first and there is at most one exported row).

Under `OneAtATime`, which says that there is one worker, whose requests may still die
anywhere:

| theorem | states | says |
|---|---|---|
| `OneDraftAtATime` | `OneActive` | one draft of a student is new or exported |
| `FilesMatch` | `FileMatchesBatch` | the file that left lists the drafts of its batch, and no others |
| `ExportsCommit` | `ExportNeverConflicts` | an export is never rolled back by UNIQUE |
| `LockHolds` | `HardLock` | an exported draft is only ever promoted or cancelled |
| `Implements` | `ImplementsLifecycle` | the table implements the one slot of `DraftLifecycle` |

`SerialInv` adds to `IInv` what holds while one request runs: `BatchesTaken` (a row's
batch was given out), `FreshFree` (the student `draft_add` is about to insert for has no
active draft), `SelectCurrent` (the ids an export holds are the drafts of its round as
the table has them), `FileReady`. `SlotRead` reads the slot of the abstract
specification off a student's rows, which `OneActive` makes well defined; then each step
is an abstract step or a stutter. `ShipmentDraft_lock_race` shows that the assumption is
needed.

### AdminSession_proofs

For any admins, workers, codes, tokens, clock rate and lifetimes (`SessionAssumption`):

| theorem | states | says |
|---|---|---|
| `TypeCorrect` | `TypeOK` | types |
| `OneSession` | `OneSessionPerChallenge` | a code or link becomes one session at most |
| `LogoutFinal` | `LoggedOutIsDead` | after sign-out was answered the token is denied or expired |
| `RevokedOut` | `RevokedStaysOut` | a token that was refused as revoked passes no later check |

`OneCarrier` says that one worker at most is between the use of a challenge and its
session, and `Spent` (in `JobsOK`) that the challenge it carries is gone and in no token:
together they are why `Mint` makes the first session. For sign-out, `Dead` says that the
denylist entry lasts as long as the token, or the token has expired; at "deny" the
lifetime that was computed earlier still covers it, since the whole second it was
computed from is never later than the clock (`SecondsFacts`).

### PublicPortal_proofs

For any clients, workers, window, limit, lifetimes and bounds, with `MaxDelay <= Window`
(`PortalAssumption`):

| theorem | states | says |
|---|---|---|
| `TypeCorrect` | `TypeOK` | types |
| `WindowHolds` | `WindowLimit` | no window admits more than the limit |
| `CaptchaOnce` | `CaptchaAdmitsOnce` | a challenge lets one request through |
| `QuotaPaid` | `QuotaNeedsCaptcha` | quota spent is covered by solved challenges |
| `FreezeKept` | `FreezeHolds` | no request that came after a freeze gets through |

`KeysOK` is the invariant of the limiter: a key with a lifetime lives until the window
after its own has ended, what was admitted under it is at most its count and the limit,
and the one request that has counted and not yet set the lifetime is counted but not
admitted. A late request finds the key of its window (`IncrFinds`), because `ClocksOK`
bounds how late it is; that is where `MaxDelay` is needed. `FlightsOK` and `QuotaOK`
compare two sets: the units of quota spent and the challenges whose request has counted
itself (`Landed`). `GatesOK` says in which order the two flags of an update are written
and that a late request has the read of its own flag ahead of it.

### Records_proofs

For any students, rounds, workers, texts and source files of any length
(`RecordsAssumption`):

| theorem | states | says |
|---|---|---|
| `TypeCorrect` | `TypeOK` | types |
| `NoEditLost` | `EditsStand` | a cell holds what the last request to name it said |
| `TrailComplete` | `TrailIsComplete` | what was answered or forwarded has its audit row |
| `FactorsAgree` | `PrintedRowIsOwners` | what the student gave is in the row that is printed and in the row the result is from |

`ingest_rows` is a fold over the file. `IngestChain` turns the fold into the sequence of
tables on the prefixes of the file, and `IngestedSays` follows a cell along it: its last
row that names the cell decides. `FactorsAgree` rests on `SearchOK`: each row a download
holds carries what the request gave, whatever happened to the table since.

### QrVerify_proofs

For any servers, pairs and codes, any time bound and every skew with
2 * `MaxSkew` <= `Tolerance` (`QrAssumption`):

| theorem | states | says |
|---|---|---|
| `TypeCorrect` | `TypeOK` | types; no code is signed with a half-written key |
| `PairAlwaysAgrees` | `PairAgrees` | the two files are a pair unless a run is at work or died |
| `FreshCodesVerify` | `FreshVerifies` | a genuine code fails only for its age |
| `ValidCodesAreGenuine` | `ValidMeansGenuine` | a valid code is this project's, intact and young enough |

Its invariant `Inv` adds three things to the types. `KeysOK`: while `gen-keys` is past
its first write the private file holds the newest key. `CertsOK`: a code carries its
signer's clock, at most `MaxSkew` off, and the newest key unless one was generated
since. `JobsOK`: what a worker knows at each point of its handler; at "age" the blob
is intact, so the verdict depends on the two clocks alone, and they differ by at most
2 * `MaxSkew`, which the tolerance covers.

### Certificates_proofs

For any threads, projects, documents, setups and fonts (`CertificatesAssumption`,
`CertConfigAssumption`):

| theorem | states | says |
|---|---|---|
| `TypeCorrect` | `TypeOK` | types; every text is drawn with a face that was registered |
| `FontsApart` | `DrawnInOwnFont` | that face is from the file the project's own configuration names |
| `RegisteredOnce` | `FacesStand` | no face is registered twice |
| `PageIsTheResult` | `PageShowsResult` | the page is that of the student's one result in the round and subject |
| `NothingLeftOut` | `NothingMissing` | every text of the layout that the row has is drawn |
| `LookupFollowsSearch` | `LookupIsLenient` | who got a certificate passes the look-up's identity check |

`Inv` is about the font registry. `FacesOK`: a face registered under a name is from the
file in that name; `NamesOK`: a cached name is that of its key and file and has a face;
`Pending`: a face without a cached name belongs to the thread between `Register` and
`Store`; `ThreadsOK`: that thread holds the lock and nobody else does, and a thread at
"draw" has its name cached; `OwnFonts`. `Pending` and the lock are what `RegisteredOnce`
needs: a thread at "parse" found its name not cached under the lock, so no face has that
name. `FontsApart` needs that the font of a field is the same at `Lookup` and at `Draw`,
since the request of a thread does not change under it.

`Printed` is about what is printed. Every served document was accepted (`Served`), so
codes and round ids are unique and results have pages in range; from there, each job has
a page with the one result (`Shows`), a query that passes the look-up (`Knows`), and
every text drawn or still to do (`Complete`). The choice of the first of several
certificates is a minimum (`MinOf`).

### ProjectInit_proofs and CommandLine_proofs

`ProjectInit_proofs`, for any scaffold and any runs, none of which is the user
(`Distinct`): `TypeCorrect`, `WholeOrNothing` (`TargetWhole`), `StagingRemoved`
(`NothingLeftBehind`), `TargetFilesStay` (`FilesStay`). Its `Inv` says what is in a run's
staging directory at each stage (`StagingOK`); without it `Rename` could move a part of a
scaffold. `RenameInv` uses that a directory is renamed onto nothing or an empty one,
which is what makes the test at the start harmless when it is out of date.

`CommandLine_proofs`, for any threads, keys, lifetimes, runs, students, codes, sheets and
bounds (`CommandLineAssumption`, `LocalFileAssumption`):

| theorem | states | says |
|---|---|---|
| `NothingIsHalfDone` | `NothingHalfDone` | init leaves its scaffold or nothing, an import all its rows or none |
| `NoFileLost` | `FilesStay` | init takes no file out of its target |
| `FileIsAStore` | `ImplementsKV` | the file behaves as a store with atomic operations |
| `StoresAnswerRight` | `StoreAnswers` | no token and no number is handed out twice; scans are complete |
| `WindowsAreEnded` | `WindowsEnd` | a window without an end has somebody who will set it, or an `incr` failed |
| `WindowKeepsItsEnd` | `WindowStands` | a hit does not move the end of a window |
| `RowsAreRight` | `RowsMatchReference` | a carrier import inserts what its reference names |
| `StatisticsAddUp` | `StatsAddUp` | its counters account for every row |

Each part of the process has an invariant of its own, and lemmas say that the other
commands leave its variables alone (`InitProject`, `InitImport`, `FileSpec`, `RestMoves`).

* *init*: `Inv` of `ProjectInit_proofs`, by INSTANCE.
* *The file*: `FileOK` says that only the thread that holds the lock is between load and
  return (`LockOK`), that what it loaded is the file as it is, and that what it is about
  to save and to answer is what its operation makes of that file (`SavesOK`). With it
  `StoreStep` goes through the actions: a save is the abstract operation, everything else
  a call, a return, a tick, an expiry or a stutter. The abstract variables `asked` and
  `held` are functions of all threads' locals; `SeenStep` says how they change when one
  thread moves. `GivenOK` says that stamps in the file differ and those handed out are
  not in it any more.
* *REST*: `RestOK` is `KeysOK` (types; a command fits its key; a late INCR belongs to a
  severed key), `ScansOK` (what the cursor has passed is collected or on its way),
  `WindowsOK` and `OutsOK`. `WindowOK` is the one to understand: a window without an end
  has one client, or one late command, that is about to set it, and that one finds the
  window as it left it; so an EXPIRE never reaches a window of somebody else. `OutsOK`
  says the same of tokens and numbers: what is handed out or on its way to a client is
  not in the store, and two that are on their way differ.
* *The import*: `ImportInv` (nobody gets past the checks without the right to) and, for
  the loop, `SheetOK`: the codes seen are those of the rows that may be imported, each
  has a first row (`FirstIn`), what is to be inserted are the rows of these, and the
  counters add up with the repetitions. `RowSkipped` and `RowTaken` keep it when one more
  row is read, so sheets may have any length; `RowsReferred` compares it with the
  reference definition, where two numbers match when they have the same subscriber and
  are both written with the country code or both without.

### Assumptions

The ASSUMEs ask for what the code has: at least one admin, code, client, student, round,
text and key; special values (`NoSbd`, `NoCode`, `NoAccount`, `Blank`, `Unset`, "free",
"nobody") that are no ordinary ones; lifetimes, limits and bounds that are numbers, the
lifetimes with a largest one; finitely many keys and students; rounds that are named
once; documents of the right shape; runs of `init` that are not the user. Two are about
the environment: `MaxDelay <= Window` and 2 * `MaxSkew` <= `Tolerance` (section 3).

### What is not proved

* `EveryRenderEnds` is liveness under fairness, which the prover does not handle; nor
  does it handle ENABLED. TLC checks it.
* `CliTypeOK` is not stated by a theorem in full: the proofs need no bound on stamps and
  calls, and `FileTypes`, `RestTypes` and `SheetTypes` are the types without them.
* The provers know no induction schema with an operator for the property. What is
  recursive in the models is a recursive function or a fold of the community modules,
  and what the proofs need of it follows by least counterexample on the naturals
  (`LeastNat`, `MinOf`), or from invariants of a loop that reads one row a step. RECURSIVE
  operators are not used. `SelectSeq` cannot be expanded by the provers, which is why
  rounds, subjects and texts are sets of positions in `Certificates`.
* That one KV command of the portal is atomic is an assumption of `PublicPortal` and
  `AdminSession`; `FileIsAStore` proves it of the file, Redis is trusted with it.

## 7. Plan

1. `CliTypeOK`, with the bounds on stamps and calls.
2. The claims of the refinement one level up: a portal over `KVStore` instead of single
   commands, so that `FileIsAStore` carries over to `PublicPortal` and `AdminSession`.
3. The multi-worker part of `DraftLifecycle`: which of its steps survive overlapping
   requests, stated as a weaker life cycle that `ShipmentDraft` implements without
   `OneAtATime`.

## 8. Not modelled

* Settings that no rule relates to others (admin, branding, QR, e-mail): they are read
  at start-up and constant afterwards, so they are CONSTANTS where a module needs them.
* Ingest readers, input validation (string predicates), locales, pages and templates, QR
  images, coordinates, wrapping and the merge of a drawn page with its template, CORS and
  HTTP headers: no state that a later request sees.
* E-mail providers: network I/O; `AdminSession` has whether a message went out.
* `seed`, which writes a table of made-up students, and the demo and example projects.
* `lvt-cert shipment ...` calls the functions that `ShipmentDraft` models.
* Password hashing is equality of passwords; signatures are unforgeable.
* The session and portal modules take single KV commands as atomic, which
  `CommandLine_commands` shows of the local store and Redis gives.
