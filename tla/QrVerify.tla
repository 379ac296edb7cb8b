------------------------------- MODULE QrVerify -------------------------------
(***************************************************************************)
(* The life of a signed QR code: gen-keys writes the key pair              *)
(* (commands/gen_keys.py), a download signs a payload (_maybe_sign_qr in   *)
(* api/download.py with qr/), and /api/verify checks what a scanner read   *)
(* (api/verify.py).                                                        *)
(*                                                                         *)
(* Every worker is on a server with a clock of its own, a constant number  *)
(* of seconds off true time; the key files are shared.  A key pair is a    *)
(* number, a signature is the number of the key it was made with.          *)
(***************************************************************************)
EXTENDS Integers, Sequences

CONSTANTS
  Workers,
  Slug, Other,  \* this project, and another portal that was given the same keys
  AgeLimits,    \* the values of max_age_seconds considered; 0 for no expiry
  Tolerance,    \* the 60 seconds of the clock-skew guard
  MaxSkew,      \* how far a server's clock is from true time, at most
  MaxTime,      \* bound: seconds
  MaxKeys,      \* bound: key pairs generated
  MaxCerts      \* bound: QR codes signed

ASSUME QrAssumption ==
  /\ Slug # Other
  /\ AgeLimits \subseteq Nat
  /\ {Tolerance, MaxSkew, MaxTime, MaxKeys, MaxCerts} \subseteq Nat
  /\ 2 * MaxSkew <= Tolerance

VARIABLES
  maxAge,      \* max_age_seconds
  now,         \* true time
  offset,      \* offset[w]: how far the clock of w's server is ahead of it
  private,     \* private_key.pem: a key, Absent or Empty
  public,      \* public_key.pem
  generated,   \* how many pairs were generated
  gen,         \* where the operator's run of gen-keys is
  certs,       \* the QR codes signed so far
  pc, job,     \* where each worker is in its handler, and its locals
  interrupted  \* history: the last run of gen-keys died half way

setup == <<maxAge, offset>>
keys == <<private, public, generated, gen, interrupted>>
vars == <<setup, now, keys, certs, pc, job>>
-----------------------------------------------------------------------------
Absent == 0 - 1
Empty == 0
Keys == 1..MaxKeys
KeyFile == {Absent, Empty} \cup Keys

\* What a QR code says and is signed with; then, as history, the true time it
\* was signed at and whether a pair was generated since its key was loaded.
Cert == [slug: {Slug, Other}, issued: (-MaxSkew)..(MaxTime + MaxSkew), key: Keys,
         at: 0..MaxTime, rotated: BOOLEAN]

\* A scanned code is one that was signed, intact or damaged.  History: the key
\* files were at rest and the code's own when the public key was read; the true
\* age of the code when it was judged.
Job == [slug: {Slug, Other}, key: KeyFile, rotated: BOOLEAN,
        cert: 0..MaxCerts, intact: BOOLEAN, verdict: {"none", "valid", "invalid"},
        calm: BOOLEAN, age: 0..MaxTime]
NoJob == [slug |-> Slug, key |-> Absent, rotated |-> FALSE, cert |-> 0, intact |-> FALSE,
          verdict |-> "none", calm |-> FALSE, age |-> 0]
PCs == {"idle", "stamp", "load_public", "age", "answer"}

Goto(w, to, j) == pc' = [pc EXCEPT ![w] = to] /\ job' = [job EXCEPT ![w] = j]
Clock(w) == now + offset[w]

\* A project begins without keys.
Init ==
  /\ maxAge \in AgeLimits
  /\ now = 0
  /\ offset \in [Workers -> (-MaxSkew)..MaxSkew]
  /\ private = Absent
  /\ public = Absent
  /\ generated = 0
  /\ gen = "idle"
  /\ certs = <<>>
  /\ pc = [w \in Workers |-> "idle"]
  /\ job = [w \in Workers |-> NoJob]
  /\ interrupted = FALSE

-----------------------------------------------------------------------------
(* lvt-cert gen-keys, run by one operator at a time. *)

KeysExist == private # Absent \/ public # Absent

\* The check, the new pair, and private_key.pem opened with O_TRUNC.
GenKeys ==
  /\ gen = "idle"
  /\ generated < MaxKeys
  /\ \E force \in BOOLEAN : ~KeysExist \/ force
  /\ generated' = generated + 1
  /\ private' = Empty
  /\ gen' = "private"
  /\ certs' = [n \in DOMAIN certs |-> [certs[n] EXCEPT !.rotated = TRUE]]
  /\ job' = [w \in Workers |-> [job[w] EXCEPT !.rotated = TRUE]]
  /\ UNCHANGED <<setup, now, public, pc, interrupted>>

WritePrivate ==
  /\ gen = "private"
  /\ private' = generated
  /\ gen' = "truncate"
  /\ UNCHANGED <<setup, now, public, generated, certs, pc, job, interrupted>>

\* write_bytes opens public_key.pem, which empties it, and writes the key.
TruncatePublic ==
  /\ gen = "truncate"
  /\ public' = Empty
  /\ gen' = "public"
  /\ UNCHANGED <<setup, now, private, generated, certs, pc, job, interrupted>>

\* Mutant: a project's first public key is written over the new one.
NewPublicFirst == 1
NewPublic == generated

WritePublic ==
  /\ gen = "public"
  /\ public' = NewPublic
  /\ gen' = "idle"
  /\ interrupted' = FALSE
  /\ UNCHANGED <<setup, now, private, generated, certs, pc, job>>

GenKeysDies ==
  /\ gen # "idle"
  /\ gen' = "idle"
  /\ interrupted' = TRUE
  /\ UNCHANGED <<setup, now, private, public, generated, certs, pc, job>>

-----------------------------------------------------------------------------
(* _maybe_sign_qr. *)

\* An absent or empty file raises SignatureError.
\* Mutant: only an absent one does.
LoadableIfPresent(file) == file # Absent
Loadable(file) == file \in Keys

LoadPrivate(w) ==
  /\ pc[w] = "idle"
  /\ Len(certs) < MaxCerts
  /\ Loadable(private)
  /\ \E s \in {Slug, Other} : Goto(w, "stamp", [NoJob EXCEPT !.slug = s, !.key = private])
  /\ UNCHANGED <<setup, now, keys, certs>>

\* SignatureError: the portal cannot sign at the moment.
SignFails(w) == pc[w] = "idle" /\ ~Loadable(private) /\ UNCHANGED vars

\* QRPayload.now reads the clock after the key was loaded.
Stamp(w) ==
  /\ pc[w] = "stamp"
  /\ Len(certs) < MaxCerts
  /\ certs' = Append(certs, [slug |-> job[w].slug, issued |-> Clock(w), key |-> job[w].key,
                             at |-> now, rotated |-> job[w].rotated])
  /\ Goto(w, "idle", NoJob)
  /\ UNCHANGED <<setup, now, keys>>

-----------------------------------------------------------------------------
(* verify_qr. *)

Decide(w, verdict) == Goto(w, "answer", [job[w] EXCEPT !.verdict = verdict])

\* Mutant: the slug is not compared.
OwnSlugAny(c) == c.slug \in {Slug, Other}
OwnSlug(c) == c.slug = Slug

\* A damaged code fails to decode, or fails the signature check below.
StartVerify(w) ==
  /\ pc[w] = "idle"
  /\ \E n \in DOMAIN certs, intact \in BOOLEAN :
       LET j == [NoJob EXCEPT !.cert = n, !.intact = intact]
       IN IF OwnSlug(certs[n]) THEN Goto(w, "load_public", j)
          ELSE Goto(w, "answer", [j EXCEPT !.verdict = "invalid"])
  /\ UNCHANGED <<setup, now, keys, certs>>

\* load_public_key and verify_payload.
VerifySignature(w) ==
  LET c == certs[job[w].cert]
      j == [job[w] EXCEPT !.calm = gen = "idle" /\ ~interrupted /\ ~c.rotated]
  IN /\ pc[w] = "load_public"
     /\ Loadable(public)
     /\ IF job[w].intact /\ public = c.key THEN Goto(w, "age", j)
        ELSE Goto(w, "answer", [j EXCEPT !.verdict = "invalid"])
     /\ UNCHANGED <<setup, now, keys, certs>>

\* VerifyError: the portal cannot verify at the moment.
NotConfigured(w) ==
  /\ pc[w] = "load_public"
  /\ ~Loadable(public)
  /\ Goto(w, "idle", NoJob)
  /\ UNCHANGED <<setup, now, keys, certs>>

TooOld(age) == age > maxAge

\* Mutant: no tolerance for a signer's clock that is ahead.
TooNewStrict(age) == age < 0
TooNew(age) == age < -Tolerance

CheckAge(w) ==
  LET c == certs[job[w].cert]
      age == Clock(w) - c.issued
  IN /\ pc[w] = "age"
     /\ Goto(w, "answer", [job[w] EXCEPT !.age = now - c.at, !.verdict =
          IF maxAge > 0 /\ (TooOld(age) \/ TooNew(age)) THEN "invalid" ELSE "valid"])
     /\ UNCHANGED <<setup, now, keys, certs>>

Answer(w) ==
  /\ pc[w] = "answer"
  /\ Goto(w, "idle", NoJob)
  /\ UNCHANGED <<setup, now, keys, certs>>

Abandon(w) ==
  /\ pc[w] \notin {"idle", "answer"}
  /\ Goto(w, "idle", NoJob)
  /\ UNCHANGED <<setup, now, keys, certs>>

Tick ==
  /\ now < MaxTime
  /\ now' = now + 1
  /\ UNCHANGED <<setup, keys, certs, pc, job>>

Step(w) ==
  \/ LoadPrivate(w) \/ SignFails(w) \/ Stamp(w)
  \/ StartVerify(w) \/ VerifySignature(w) \/ NotConfigured(w) \/ CheckAge(w) \/ Answer(w)
  \/ Abandon(w)

Next ==
  \/ GenKeys \/ WritePrivate \/ TruncatePublic \/ WritePublic \/ GenKeysDies
  \/ Tick
  \/ \E w \in Workers : Step(w)

Spec == Init /\ [][Next]_vars
-----------------------------------------------------------------------------
\* The variables have their types; a code is signed with a real key.
TypeOK ==
  /\ maxAge \in AgeLimits
  /\ now \in 0..MaxTime
  /\ offset \in [Workers -> (-MaxSkew)..MaxSkew]
  /\ {private, public} \subseteq KeyFile
  /\ generated \in 0..MaxKeys
  /\ gen \in {"idle", "private", "truncate", "public"}
  /\ certs \in Seq(Cert)
  /\ pc \in [Workers -> PCs]
  /\ job \in [Workers -> Job]
  /\ interrupted \in BOOLEAN

\* Once the key files are at rest, a genuine code that no later pair replaced
\* is only ever turned down for its age: neither a clock ahead or behind, nor a
\* generation that was under way when the code was signed, makes it invalid
\* (verify_qr against _maybe_sign_qr and gen_keys).
FreshVerifies ==
  \A w \in Workers :
    (pc[w] = "answer" /\ job[w].verdict = "invalid" /\ job[w].calm /\ job[w].intact) =>
      maxAge > 0 /\ job[w].age > maxAge - 2 * MaxSkew

\* A code judged valid was signed for this project, is undamaged, and is not
\* older, in true time, than the limit and what the two clocks may differ by.
ValidMeansGenuine ==
  \A w \in Workers :
    (pc[w] = "answer" /\ job[w].verdict = "valid") =>
      /\ job[w].intact /\ certs[job[w].cert].slug = Slug
      /\ maxAge > 0 => job[w].age <= maxAge + 2 * MaxSkew

\* Unless gen-keys is at work or died half way, the private key that signs and
\* the public key that verifies are one pair; a run that died is not covered
\* up by a plain re-run (gen_keys refuses while either file exists).
PairAgrees == gen = "idle" /\ ~interrupted => private = public
=============================================================================
