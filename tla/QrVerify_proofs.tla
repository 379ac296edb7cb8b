---------------------------- MODULE QrVerify_proofs ----------------------------
(***************************************************************************)
(* Theorems about QrVerify, for every number of servers, every clock skew  *)
(* that the tolerance covers, and whatever the bounds.                     *)
(***************************************************************************)
EXTENDS QrVerify, SequenceTheorems, TLAPS

\* The private key on disk is the newest or none, and outside a run of
\* gen-keys that went through, so is the public one.
KeysOK ==
  /\ private \in {Absent, Empty, generated}
  /\ gen \in {"truncate", "public"} => private = generated
  /\ gen = "idle" /\ ~interrupted => private = public

\* A code carries the time its signer's clock showed, and unless a pair was
\* generated since, it is signed with the newest.
CertOK(c) ==
  /\ c.at <= now
  /\ c.issued - c.at \in (-MaxSkew)..MaxSkew
  /\ ~c.rotated => c.key = generated
CertsOK == \A n \in 1..Len(certs) : CertOK(certs[n])

\* What a worker has established by the time it is at a point of its handler.
Scanned(j) == j.cert \in 1..Len(certs) /\ certs[j.cert].slug = Slug
JobOK(at, j) ==
  /\ at = "stamp" => j.key \in Keys /\ (~j.rotated => j.key = generated)
  /\ at \in {"load_public", "age"} => Scanned(j)
  /\ at = "age" => j.intact
  /\ at = "answer" /\ j.verdict = "valid" =>
       Scanned(j) /\ j.intact /\ (maxAge > 0 => j.age <= maxAge + 2 * MaxSkew)
  /\ at = "answer" /\ j.verdict = "invalid" /\ j.calm /\ j.intact =>
       maxAge > 0 /\ j.age > maxAge - 2 * MaxSkew
JobsOK == \A w \in Workers : JobOK(pc[w], job[w])

Inv == TypeOK /\ Len(certs) <= MaxCerts /\ KeysOK /\ CertsOK /\ JobsOK

-----------------------------------------------------------------------------
\* An idle worker's record is one.
LEMMA NoJobType == NoJob \in Job /\ JobOK("idle", NoJob)
BY QrAssumption DEF NoJob, Job, KeyFile, JobOK, Absent

\* The invariant holds of a project without keys.
LEMMA InitInv == Init => Inv
<1> SUFFICES ASSUME Init PROVE Inv
  OBVIOUS
<1>1. certs \in Seq(Cert) /\ Len(certs) = 0
  BY EmptySeq DEF Init
<1>2. TypeOK
  <2>1. now \in 0..MaxTime /\ generated \in 0..MaxKeys
    BY QrAssumption DEF Init
  <2>2. pc \in [Workers -> PCs] /\ job \in [Workers -> Job]
    BY NoJobType DEF Init, PCs
  <2>3. QED BY <1>1, <2>1, <2>2 DEF Init, TypeOK, KeyFile
<1>3. KeysOK
  BY DEF Init, KeysOK
<1>4. CertsOK
  BY <1>1 DEF CertsOK
<1>5. JobsOK
  BY NoJobType DEF Init, JobsOK
<1>6. QED BY <1>1, <1>2, <1>3, <1>4, <1>5, QrAssumption DEF Inv

\* A worker that moves on with a good record leaves the others as they were.
LEMMA WorkerMoves ==
  ASSUME Inv, NEW w \in Workers, NEW to \in PCs, NEW j \in Job, Goto(w, to, j),
         UNCHANGED <<setup, now, keys, certs>>, JobOK(to, j)
  PROVE  Inv'
<1> USE DEF setup, keys
<1>1. pc' \in [Workers -> PCs] /\ job' \in [Workers -> Job]
  BY DEF Inv, TypeOK, Goto
<1>2. TypeOK'
  BY <1>1 DEF Inv, TypeOK
<1>3. KeysOK'
  BY DEF Inv, KeysOK
<1>4. CertsOK'
  BY DEF Inv, CertsOK, CertOK
<1>5. ASSUME NEW v \in Workers PROVE JobOK(pc[v], job[v])'
  <2>1. CASE v = w
    <3>1. pc'[v] = to /\ job'[v] = j
      BY <2>1 DEF Inv, TypeOK, Goto
    <3>2. QED BY <3>1 DEF JobOK, Scanned
  <2>2. CASE v # w
    <3>1. pc'[v] = pc[v] /\ job'[v] = job[v]
      BY <2>2 DEF Inv, TypeOK, Goto
    <3>2. JobOK(pc[v], job[v])
      BY DEF Inv, JobsOK
    <3>3. QED BY <3>1, <3>2 DEF JobOK, Scanned
  <2>3. QED BY <2>1, <2>2
<1>6. QED BY <1>2, <1>3, <1>4, <1>5 DEF Inv, JobsOK

\* A step of gen-keys after the first changes the key files only.
LEMMA KeyFilesMove ==
  ASSUME Inv, private' \in KeyFile, public' \in KeyFile, gen' \in {"idle", "truncate", "public"},
         interrupted' \in BOOLEAN, KeysOK',
         UNCHANGED <<setup, now, generated, certs, pc, job>>
  PROVE  Inv'
<1> USE DEF setup
<1>1. TypeOK'
  BY DEF Inv, TypeOK
<1>2. CertsOK'
  BY DEF Inv, CertsOK, CertOK
<1>3. JobsOK'
  BY DEF Inv, JobsOK, JobOK, Scanned
<1>4. QED BY <1>1, <1>2, <1>3 DEF Inv

\* GenKeys marks every code and every job as older than the newest pair.
LEMMA GenKeysInv == Inv /\ GenKeys => Inv'
<1> SUFFICES ASSUME Inv, GenKeys PROVE Inv'
  OBVIOUS
<1> USE DEF setup
<1>1. /\ Len(certs) \in Nat
      /\ DOMAIN certs = 1..Len(certs)
      /\ \A n \in 1..Len(certs) : certs[n] \in Cert
  BY LenProperties, ElementOfSeq DEF Inv, TypeOK
<1>2. \A c \in Cert : [c EXCEPT !.rotated = TRUE] \in Cert
  BY DEF Cert
<1>3. certs' \in [1..Len(certs) -> Cert]
  BY <1>1, <1>2 DEF GenKeys
<1>4. certs' \in Seq(Cert) /\ Len(certs') = Len(certs)
  BY <1>1, <1>3, SeqDef
<1>5. \A n \in 1..Len(certs) :
        /\ certs'[n].slug = certs[n].slug /\ certs'[n].issued = certs[n].issued
        /\ certs'[n].at = certs[n].at /\ certs'[n].rotated
  BY <1>1 DEF GenKeys, Cert
<1>6. \A w \in Workers : job[w] \in Job
  BY DEF Inv, TypeOK
<1>7. \A j \in Job : [j EXCEPT !.rotated = TRUE] \in Job
  BY DEF Job
<1>8. job' \in [Workers -> Job]
  BY <1>6, <1>7 DEF GenKeys
<1>9. TypeOK'
  BY <1>4, <1>8, QrAssumption DEF Inv, TypeOK, GenKeys, KeyFile, Empty
<1>10. KeysOK'
  BY DEF GenKeys, KeysOK
<1>11. CertsOK'
  <2>1. ASSUME NEW n \in 1..Len(certs) PROVE CertOK(certs[n])'
    <3>1. CertOK(certs[n])
      BY DEF Inv, CertsOK
    <3>2. QED BY <3>1, <1>5 DEF CertOK, GenKeys
  <2>2. QED BY <2>1, <1>4 DEF CertsOK
<1>12. JobsOK'
  <2>1. ASSUME NEW w \in Workers PROVE JobOK(pc[w], job[w])'
    <3>1. JobOK(pc[w], job[w])
      BY DEF Inv, JobsOK
    <3>2. job'[w] = [job[w] EXCEPT !.rotated = TRUE] /\ pc' = pc /\ maxAge' = maxAge
      BY DEF GenKeys
    <3>3. /\ job'[w].rotated /\ job'[w].key = job[w].key /\ job'[w].cert = job[w].cert
          /\ job'[w].intact = job[w].intact /\ job'[w].verdict = job[w].verdict
          /\ job'[w].calm = job[w].calm /\ job'[w].age = job[w].age
      BY <3>2, <1>6 DEF Job
    <3>4. Scanned(job[w]) => Scanned(job[w])'
      BY <3>3, <1>4, <1>5 DEF Scanned
    <3>5. QED BY <3>1, <3>2, <3>3, <3>4 DEF JobOK
  <2>2. QED BY <2>1 DEF JobsOK
<1>13. QED BY <1>4, <1>9, <1>10, <1>11, <1>12 DEF Inv

\* A key that loads is the newest.
LEMMA LoadedIsNewest ==
  ASSUME Inv
  PROVE  /\ Loadable(private) => private = generated
         /\ Loadable(public) /\ gen = "idle" /\ ~interrupted => public = generated
BY QrAssumption DEF Inv, KeysOK, Loadable, Keys, Absent, Empty

\* A worker signs with the newest key, or notices by the mark that it is not.
LEMMA LoadPrivateInv == ASSUME Inv, NEW w \in Workers, LoadPrivate(w) PROVE Inv'
<1>1. PICK s \in {Slug, Other} : Goto(w, "stamp", [NoJob EXCEPT !.slug = s, !.key = private])
  BY DEF LoadPrivate
<1> DEFINE j == [NoJob EXCEPT !.slug = s, !.key = private]
<1>2. private \in Keys /\ private = generated
  BY LoadedIsNewest DEF LoadPrivate, Loadable
<1>3. j \in Job /\ j.key = private
  BY <1>2, NoJobType DEF Job, KeyFile, NoJob
<1>4. JobOK("stamp", j)
  BY <1>2, <1>3 DEF JobOK
<1> HIDE DEF j
<1>5. Goto(w, "stamp", j) /\ "stamp" \in PCs
  BY <1>1 DEF j, PCs
<1>6. QED BY <1>3, <1>4, <1>5, WorkerMoves DEF LoadPrivate

\* The code is stamped with the clock of its signer.
LEMMA StampInv == ASSUME Inv, NEW w \in Workers, Stamp(w) PROVE Inv'
<1> USE DEF setup, keys
<1> DEFINE c == [slug |-> job[w].slug, issued |-> Clock(w), key |-> job[w].key,
                 at |-> now, rotated |-> job[w].rotated]
<1>1. /\ job[w] \in Job /\ pc[w] = "stamp" /\ JobOK("stamp", job[w])
      /\ offset[w] \in (-MaxSkew)..MaxSkew /\ now \in 0..MaxTime
      /\ certs \in Seq(Cert) /\ Len(certs) \in Nat
  BY LenProperties DEF Stamp, Inv, TypeOK, JobsOK
<1>2. Clock(w) - now \in (-MaxSkew)..MaxSkew /\ Clock(w) \in (-MaxSkew)..(MaxTime + MaxSkew)
  BY <1>1, QrAssumption DEF Clock
<1>3. c \in Cert
  BY <1>1, <1>2 DEF Cert, Job, JobOK
<1>4. CertOK(c)
  BY <1>1, <1>2, QrAssumption DEF CertOK, JobOK
<1>5. certs' = Append(certs, c)
  BY DEF Stamp
<1> HIDE DEF c
<1>6. /\ certs' \in Seq(Cert) /\ Len(certs') = Len(certs) + 1
      /\ \A n \in 1..Len(certs) : certs'[n] = certs[n]
      /\ certs'[Len(certs) + 1] = c
  BY <1>1, <1>3, <1>5, AppendProperties
<1>7. pc' \in [Workers -> PCs] /\ job' \in [Workers -> Job]
  BY NoJobType DEF Inv, TypeOK, Stamp, Goto, PCs
<1>8. TypeOK'
  BY <1>6, <1>7 DEF Inv, TypeOK, Stamp
<1>9. KeysOK'
  BY DEF Inv, KeysOK, Stamp
<1>10. CertsOK'
  <2>1. ASSUME NEW n \in 1..(Len(certs) + 1) PROVE CertOK(certs[n])'
    <3>1. certs'[n] = c \/ (n \in 1..Len(certs) /\ certs'[n] = certs[n])
      BY <1>1, <1>6
    <3>2. CertOK(certs'[n])
      BY <3>1, <1>4 DEF Inv, CertsOK
    <3>3. QED BY <3>2 DEF CertOK, Stamp
  <2>2. QED BY <2>1, <1>6 DEF CertsOK
<1>11. JobsOK'
  <2>1. ASSUME NEW v \in Workers PROVE JobOK(pc[v], job[v])'
    <3>1. CASE v = w
      <4>1. pc'[v] = "idle"
        BY <3>1 DEF Inv, TypeOK, Stamp, Goto
      <4>2. QED BY <4>1 DEF JobOK
    <3>2. CASE v # w
      <4>1. pc'[v] = pc[v] /\ job'[v] = job[v]
        BY <3>2 DEF Inv, TypeOK, Stamp, Goto
      <4>2. JobOK(pc[v], job[v])
        BY DEF Inv, JobsOK
      <4>3. Scanned(job[v]) => Scanned(job[v])'
        BY <4>1, <1>1, <1>6 DEF Scanned
      <4>4. QED BY <4>1, <4>2, <4>3 DEF JobOK, Stamp
    <3>3. QED BY <3>1, <3>2
  <2>2. QED BY <2>1 DEF JobsOK
<1>12. Len(certs) + 1 <= MaxCerts
  BY <1>1, QrAssumption DEF Stamp
<1>13. QED BY <1>6, <1>8, <1>9, <1>10, <1>11, <1>12 DEF Inv

\* A code that names another project is turned down, any other is examined.
LEMMA StartVerifyInv == ASSUME Inv, NEW w \in Workers, StartVerify(w) PROVE Inv'
<1>1. PICK n \in DOMAIN certs, intact \in BOOLEAN :
        LET j == [NoJob EXCEPT !.cert = n, !.intact = intact]
        IN IF OwnSlug(certs[n]) THEN Goto(w, "load_public", j)
           ELSE Goto(w, "answer", [j EXCEPT !.verdict = "invalid"])
  BY DEF StartVerify
<1> DEFINE j == [NoJob EXCEPT !.cert = n, !.intact = intact]
           refused == [j EXCEPT !.verdict = "invalid"]
<1>2. n \in 1..Len(certs) /\ n \in 0..MaxCerts
  BY LenProperties, QrAssumption DEF Inv, TypeOK
<1>3. j \in Job /\ j.cert = n
  BY <1>2, NoJobType DEF Job, NoJob
<1>4. refused \in Job /\ refused.verdict = "invalid" /\ ~refused.calm
  BY <1>3 DEF Job, NoJob
<1> HIDE DEF j, refused
<1>5. CASE OwnSlug(certs[n])
  <2>1. JobOK("load_public", j)
    BY <1>2, <1>3, <1>5 DEF JobOK, Scanned, OwnSlug
  <2>2. Goto(w, "load_public", j) /\ "load_public" \in PCs
    BY <1>1, <1>5 DEF j, PCs
  <2>3. QED BY <1>3, <2>1, <2>2, WorkerMoves DEF StartVerify
<1>6. CASE ~OwnSlug(certs[n])
  <2>1. JobOK("answer", refused)
    BY <1>4 DEF JobOK
  <2>2. Goto(w, "answer", refused) /\ "answer" \in PCs
    BY <1>1, <1>6 DEF j, refused, PCs
  <2>3. QED BY <1>4, <2>1, <2>2, WorkerMoves DEF StartVerify
<1>7. QED BY <1>5, <1>6

\* In a calm, an intact code that no pair replaced meets its own public key.
LEMMA VerifySignatureInv == ASSUME Inv, NEW w \in Workers, VerifySignature(w) PROVE Inv'
<1> DEFINE c == certs[job[w].cert]
           j == [job[w] EXCEPT !.calm = gen = "idle" /\ ~interrupted /\ ~c.rotated]
           refused == [j EXCEPT !.verdict = "invalid"]
<1>1. job[w] \in Job /\ pc[w] = "load_public" /\ Scanned(job[w])
  BY DEF VerifySignature, Inv, TypeOK, JobsOK, JobOK
<1>2. CertOK(c)
  BY <1>1 DEF Inv, CertsOK, Scanned
<1>3. /\ j \in Job /\ j.intact = job[w].intact /\ j.cert = job[w].cert
      /\ j.calm => gen = "idle" /\ ~interrupted /\ ~c.rotated
  BY <1>1 DEF Job
<1>4. /\ refused \in Job /\ refused.verdict = "invalid" /\ refused.calm = j.calm
      /\ refused.intact = j.intact
  BY <1>3 DEF Job
<1>5. IF job[w].intact /\ public = c.key THEN Goto(w, "age", j) ELSE Goto(w, "answer", refused)
  BY DEF VerifySignature
<1>6. j.calm => public = c.key
  BY <1>2, <1>3, LoadedIsNewest DEF VerifySignature, CertOK
<1> HIDE DEF c, j, refused
<1>7. CASE job[w].intact /\ public = c.key
  <2>1. JobOK("age", j)
    BY <1>1, <1>3, <1>7 DEF JobOK, Scanned
  <2>2. Goto(w, "age", j) /\ "age" \in PCs
    BY <1>5, <1>7 DEF PCs
  <2>3. QED BY <1>3, <2>1, <2>2, WorkerMoves DEF VerifySignature
<1>8. CASE ~(job[w].intact /\ public = c.key)
  <2>1. JobOK("answer", refused)
    BY <1>3, <1>4, <1>6, <1>8 DEF JobOK
  <2>2. Goto(w, "answer", refused) /\ "answer" \in PCs
    BY <1>5, <1>8 DEF PCs
  <2>3. QED BY <1>4, <2>1, <2>2, WorkerMoves DEF VerifySignature
<1>9. QED BY <1>7, <1>8

\* The signer's clock and the verifier's differ by 2 * MaxSkew at most, which
\* the tolerance covers.
LEMMA CheckAgeInv == ASSUME Inv, NEW w \in Workers, CheckAge(w) PROVE Inv'
<1> DEFINE c == certs[job[w].cert]
           age == Clock(w) - c.issued
           judged == [job[w] EXCEPT !.age = now - c.at, !.verdict =
             IF maxAge > 0 /\ (TooOld(age) \/ TooNew(age)) THEN "invalid" ELSE "valid"]
<1>1. /\ job[w] \in Job /\ pc[w] = "age" /\ Scanned(job[w]) /\ job[w].intact
      /\ offset[w] \in (-MaxSkew)..MaxSkew /\ now \in 0..MaxTime /\ maxAge \in Nat
  BY QrAssumption DEF CheckAge, Inv, TypeOK, JobsOK, JobOK
<1>2. CertOK(c) /\ c \in Cert
  BY <1>1, ElementOfSeq DEF Inv, TypeOK, CertsOK, Scanned
<1>3. /\ c.at \in 0..MaxTime /\ c.issued \in Int /\ c.at <= now
      /\ c.issued - c.at \in (-MaxSkew)..MaxSkew
  BY <1>2, QrAssumption DEF Cert, CertOK
<1>4. now - c.at \in 0..MaxTime /\ age - (now - c.at) \in (-2 * MaxSkew)..(2 * MaxSkew)
  BY <1>1, <1>3, QrAssumption DEF Clock
<1>5. /\ judged \in Job /\ judged.age = now - c.at /\ judged.intact
      /\ judged.cert = job[w].cert
      /\ judged.verdict = IF maxAge > 0 /\ (TooOld(age) \/ TooNew(age))
                          THEN "invalid" ELSE "valid"
  BY <1>1, <1>4 DEF Job
<1>6. age \in Int /\ ~TooNew(age) /\ (TooOld(age) <=> age > maxAge)
  BY <1>1, <1>3, <1>4, QrAssumption DEF TooNew, TooOld, Clock
<1>7. Goto(w, "answer", judged) /\ "answer" \in PCs
  BY DEF CheckAge, PCs
<1>8. Scanned(judged)
  BY <1>1, <1>5 DEF Scanned
<1> HIDE DEF age, judged
<1>9. judged.age \in Int /\ age - judged.age \in (-2 * MaxSkew)..(2 * MaxSkew)
  BY <1>1, <1>3, <1>4, <1>5
<1>10. JobOK("answer", judged)
  BY <1>1, <1>5, <1>6, <1>8, <1>9, QrAssumption DEF JobOK
<1>11. QED BY <1>5, <1>7, <1>10, WorkerMoves DEF CheckAge

\* A worker that is done, or gives up.
LEMMA BackToIdle ==
  ASSUME Inv, NEW w \in Workers, Goto(w, "idle", NoJob), UNCHANGED <<setup, now, keys, certs>>
  PROVE  Inv'
<1>1. "idle" \in PCs
  BY DEF PCs
<1>2. QED BY <1>1, NoJobType, WorkerMoves

\* Time passing makes no code younger.
LEMMA TickInv == Inv /\ Tick => Inv'
<1> SUFFICES ASSUME Inv, Tick PROVE Inv'
  OBVIOUS
<1> USE DEF setup, keys, Tick
<1>1. now \in 0..MaxTime /\ now' \in 0..MaxTime
  BY QrAssumption DEF Inv, TypeOK
<1>2. TypeOK'
  BY <1>1 DEF Inv, TypeOK
<1>3. KeysOK'
  BY DEF Inv, KeysOK
<1>4. CertsOK'
  <2>1. ASSUME NEW n \in 1..Len(certs) PROVE certs[n].at \in 0..MaxTime /\ CertOK(certs[n])
    <3>1. certs[n] \in Cert
      BY ElementOfSeq DEF Inv, TypeOK
    <3>2. QED BY <3>1 DEF Inv, CertsOK, Cert
  <2>2. QED BY <1>1, <2>1, QrAssumption DEF CertsOK, CertOK
<1>5. JobsOK'
  BY DEF Inv, JobsOK, JobOK, Scanned
<1>6. QED BY <1>2, <1>3, <1>4, <1>5 DEF Inv

\* A step that changes nothing.
LEMMA StutterInv == Inv /\ UNCHANGED vars => Inv'
BY DEF Inv, vars, setup, keys, TypeOK, KeysOK, CertsOK, CertOK, JobsOK, JobOK, Scanned

\* Every step keeps the invariant: one case per action of Next.
LEMMA StepInv == Inv /\ [Next]_vars => Inv'
<1> SUFFICES ASSUME Inv, [Next]_vars PROVE Inv'
  OBVIOUS
<1>1. CASE GenKeys
  BY <1>1, GenKeysInv
<1>2. CASE WritePrivate
  <2>1. private' \in KeyFile /\ public' \in KeyFile /\ KeysOK'
    BY <1>2, QrAssumption DEF WritePrivate, Inv, TypeOK, KeysOK, KeyFile, Keys, Empty
  <2>2. QED BY <1>2, <2>1, KeyFilesMove DEF WritePrivate, Inv, TypeOK
<1>3. CASE TruncatePublic
  <2>1. private' \in KeyFile /\ public' \in KeyFile /\ KeysOK'
    BY <1>3 DEF TruncatePublic, Inv, TypeOK, KeysOK, KeyFile
  <2>2. QED BY <1>3, <2>1, KeyFilesMove DEF TruncatePublic, Inv, TypeOK
<1>4. CASE WritePublic
  <2>1. private' \in KeyFile /\ public' \in KeyFile /\ KeysOK'
    BY <1>4, QrAssumption
       DEF WritePublic, NewPublic, Inv, TypeOK, KeysOK, KeyFile, Keys, Empty
  <2>2. QED BY <1>4, <2>1, KeyFilesMove DEF WritePublic, Inv, TypeOK
<1>5. CASE GenKeysDies
  <2>1. private' \in KeyFile /\ public' \in KeyFile /\ KeysOK'
    BY <1>5 DEF GenKeysDies, Inv, TypeOK, KeysOK
  <2>2. QED BY <1>5, <2>1, KeyFilesMove DEF GenKeysDies, Inv, TypeOK
<1>6. CASE Tick
  BY <1>6, TickInv
<1>7. ASSUME NEW w \in Workers, Step(w) PROVE Inv'
  <2>1. CASE LoadPrivate(w)
    BY <2>1, LoadPrivateInv
  <2>2. CASE Stamp(w)
    BY <2>2, StampInv
  <2>3. CASE StartVerify(w)
    BY <2>3, StartVerifyInv
  <2>4. CASE VerifySignature(w)
    BY <2>4, VerifySignatureInv
  <2>5. CASE CheckAge(w)
    BY <2>5, CheckAgeInv
  <2>6. CASE NotConfigured(w) \/ Answer(w) \/ Abandon(w)
    BY <2>6, BackToIdle DEF NotConfigured, Answer, Abandon
  <2>7. CASE SignFails(w)
    <3>1. UNCHANGED vars
      BY <2>7 DEF SignFails
    <3>2. QED BY <3>1, StutterInv
  <2>8. QED BY <1>7, <2>1, <2>2, <2>3, <2>4, <2>5, <2>6, <2>7 DEF Step
<1>8. CASE UNCHANGED vars
  BY <1>8, StutterInv
<1>9. QED BY <1>1, <1>2, <1>3, <1>4, <1>5, <1>6, <1>7, <1>8 DEF Next

\* The invariant holds in every reachable state.
LEMMA Invariance == Spec => []Inv
BY InitInv, StepInv, PTL DEF Spec

-----------------------------------------------------------------------------
\* The variables have their types: in particular no code is signed with a key
\* file that was being written.
THEOREM TypeCorrect == Spec => []TypeOK
<1>1. Inv => TypeOK
  BY DEF Inv
<1>2. QED BY <1>1, Invariance, PTL

\* Outside a run of gen-keys, and unless one died, the two files are a pair.
THEOREM PairAlwaysAgrees == Spec => []PairAgrees
<1>1. Inv => PairAgrees
  BY DEF Inv, KeysOK, PairAgrees
<1>2. QED BY <1>1, Invariance, PTL

\* For every skew the tolerance covers, a genuine code is turned down only for
\* its age.
THEOREM FreshCodesVerify == Spec => []FreshVerifies
<1>1. Inv => FreshVerifies
  BY DEF Inv, JobsOK, JobOK, FreshVerifies
<1>2. QED BY <1>1, Invariance, PTL

\* A code judged valid is this project's, undamaged and young enough.
THEOREM ValidCodesAreGenuine == Spec => []ValidMeansGenuine
<1>1. Inv => ValidMeansGenuine
  BY DEF Inv, JobsOK, JobOK, Scanned, ValidMeansGenuine
<1>2. QED BY <1>1, Invariance, PTL
=============================================================================
