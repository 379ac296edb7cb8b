-------------------------- MODULE Certificates_proofs --------------------------
(***************************************************************************)
(* Theorems about Certificates: the certificate that is chosen, the texts  *)
(* that are drawn on it, and the registry of fonts they are drawn with, for*)
(* any projects and any number of threads, however font files change.      *)
(***************************************************************************)
EXTENDS Certificates, SequenceTheorems, NaturalsInduction, WellFoundedInduction, TLAPS

\* A job is a record.
JobShape(j) == DOMAIN j = {"request", "row", "page", "todo", "drawn"}
Shapes ==
  /\ DOMAIN job = Threads
  /\ \A t \in Threads : JobShape(job[t])

\* A face was read from the file its name was made of.
FacesOK == \A n \in PSNames : registered[n] # NoFace => registered[n][1] = n[2]

\* What the cache names is registered.
NamesOK ==
  \A k \in PSNames : names[k] # NoFace => names[k] = PSName(k[1], k[2]) /\ registered[k] # NoFace

\* A font is registered and not yet in the cache only while its thread stores it.
Pending ==
  \A k \in PSNames : registered[k] # NoFace /\ names[k] = NoFace =>
    \E t \in Threads : pc[t] = "store" /\ CacheKey(t) = k

\* What a thread relies on at each point of ensure_loaded and after it.
HasFont(t) == Key(t) \in DOMAIN Config(job[t].request.project).fonts
ThreadOK(t) ==
  /\ pc[t] \in {"lock", "parse", "store", "draw"} => HasFont(t)
  /\ pc[t] \in {"parse", "store"} => lock = t
  /\ pc[t] = "parse" => names[CacheKey(t)] = NoFace
  /\ pc[t] = "store" => registered[CacheKey(t)] # NoFace
  /\ pc[t] = "draw" => names[CacheKey(t)] # NoFace
ThreadsOK == \A t \in Threads : ThreadOK(t)

\* DrawnInOwnFont, and that what was drawn has a face at all, of one thread.
OwnFont(j) ==
  \A x \in j.drawn :
    /\ x.face \in Faces
    /\ x.face[1] = Path(j.request.project,
                        Config(j.request.project).fonts[Config(j.request.project).layout[x.field]])
OwnFonts == \A t \in Threads : OwnFont(job[t])

Inv == TypeOK /\ Shapes /\ FacesOK /\ NamesOK /\ Pending /\ ThreadsOK /\ OwnFonts
-----------------------------------------------------------------------------
\* The font of a thread that found its key is one the registry knows of.
LEMMA CacheKeyType ==
  ASSUME TypeOK, NEW t \in Threads, pc[t] # "idle", HasFont(t)
  PROVE  CacheKey(t) \in PSNames /\ File(t) \in Paths /\ Key(t) \in FontKeys
<1> DEFINE p == job[t].request.project
<1>1. p \in Projects
  BY DEF TypeOK, Request
<1>2. IsSetup(Setups[setup][p])
  BY <1>1, CertificatesAssumption DEF TypeOK
<1>3. IsMap(Config(p).fonts, FontKeys, FontFiles)
  BY <1>2 DEF IsSetup, IsDocument, Config, In
<1>4. Key(t) \in FontKeys /\ Config(p).fonts[Key(t)] \in FontFiles
  BY <1>3 DEF IsMap, HasFont
<1>5. File(t) \in Paths
  BY <1>1, <1>4 DEF File, Path, Paths
<1>6. QED BY <1>4, <1>5 DEF CacheKey, PSNames

\* Names of faces, and that no face is the missing one.
LEMMA FaceFacts ==
  /\ NoFace \notin Faces
  /\ NoFace \notin PSNames
  /\ \A k \in PSNames : PSName(k[1], k[2]) = k
BY DEF NoFace, Faces, PSNames, Paths, PSName

\* A thread's font is the same as before if its job is.
LEMMA SameFont ==
  ASSUME NEW t \in Threads, UNCHANGED setup, job'[t] = job[t]
  PROVE  /\ Key(t)' = Key(t) /\ File(t)' = File(t) /\ CacheKey(t)' = CacheKey(t)
         /\ HasFont(t)' <=> HasFont(t)
BY DEF Key, File, CacheKey, HasFont, Current, Todo, Config, In

\* What a job has drawn is judged by the configuration, which stays.
LEMMA SameOverlay ==
  ASSUME NEW t \in Threads, UNCHANGED setup, job'[t] = job[t], OwnFont(job[t])
  PROVE  OwnFont(job[t])'
BY DEF OwnFont, Config, In
-----------------------------------------------------------------------------
LEMMA InitInv == Init => Inv
<1> SUFFICES ASSUME Init PROVE Inv
  OBVIOUS
<1> USE DEF Init
<1>1. \A t \in Threads : job[t].drawn = {}
  BY DEF NoJob
<1>2. TypeOK
  BY <1>1, CertificatesAssumption DEF TypeOK, Contents, PCs
<1>3. Shapes
  BY DEF Shapes, JobShape, NoJob
<1>4. FacesOK /\ NamesOK /\ Pending
  BY DEF FacesOK, NamesOK, Pending
<1>5. ThreadsOK
  BY DEF ThreadsOK, ThreadOK
<1>6. OwnFonts
  BY <1>1 DEF OwnFonts, OwnFont
<1>7. QED BY <1>2, <1>3, <1>4, <1>5, <1>6 DEF Inv
-----------------------------------------------------------------------------
\* Only thread t moves.
OnlyMoves(t) ==
  /\ UNCHANGED setup
  /\ \A u \in Threads \ {t} : pc'[u] = pc[u] /\ job'[u] = job[u]

\* A step that leaves the faces and the cache alone.
LEMMA RegistryKept ==
  ASSUME Inv, NEW t \in Threads, pc[t] # "store", OnlyMoves(t), UNCHANGED <<registered, names>>
  PROVE  FacesOK' /\ NamesOK' /\ Pending'
<1>1. FacesOK' /\ NamesOK'
  BY DEF Inv, FacesOK, NamesOK
<1>2. ASSUME NEW k \in PSNames, registered'[k] # NoFace, names'[k] = NoFace
      PROVE  \E u \in Threads : pc'[u] = "store" /\ CacheKey(u)' = k
  <2>1. PICK u \in Threads : pc[u] = "store" /\ CacheKey(u) = k
    BY <1>2 DEF Inv, Pending
  <2>2. CacheKey(u)' = CacheKey(u) /\ pc'[u] = pc[u]
    BY <2>1, SameFont DEF OnlyMoves
  <2>3. QED BY <2>1, <2>2
<1>3. QED BY <1>1, <1>2 DEF Pending

\* The other threads keep what they rely on, unless they lose the lock.
LEMMA OthersOK ==
  ASSUME Inv, NEW t \in Threads, OnlyMoves(t), UNCHANGED <<registered, names>>,
         lock' = lock \/ lock \in {Free, t},
         NEW u \in Threads \ {t}
  PROVE  ThreadOK(u)'
<1>1. ThreadOK(u) /\ lock # u => lock' = lock \/ pc[u] \notin {"parse", "store"}
  BY DEF ThreadOK
<1>2. CacheKey(u)' = CacheKey(u) /\ (HasFont(u)' <=> HasFont(u))
  BY SameFont DEF OnlyMoves
<1>3. QED BY <1>1, <1>2, CertificatesAssumption DEF Inv, ThreadsOK, ThreadOK, OnlyMoves

\* What the others have drawn is as before, and so are their records.
LEMMA OverlaysKept ==
  ASSUME Inv, NEW t \in Threads, OnlyMoves(t), DOMAIN job' = DOMAIN job,
         JobShape(job'[t]), OwnFont(job[t])'
  PROVE  Shapes' /\ OwnFonts'
<1>1. \A u \in Threads \ {t} : OwnFont(job[u])'
  BY SameOverlay DEF Inv, OwnFonts, OnlyMoves
<1>2. \A u \in Threads \ {t} : JobShape(job'[u])
  BY DEF Inv, Shapes, OnlyMoves
<1>3. QED BY <1>1, <1>2 DEF Inv, Shapes, OwnFonts

\* A request that ends leaves nothing in its thread's record.
LEMMA Refused ==
  ASSUME Inv, NEW t \in Threads, Refuse(t), UNCHANGED setup
  PROVE  /\ OnlyMoves(t) /\ Shapes' /\ OwnFonts'
         /\ pc' \in [Threads -> PCs]
         /\ pc'[t] = "idle" /\ job'[t] = NoJob
         /\ \A u \in Threads : pc'[u] # "idle" => job'[u].request \in Request
         /\ \A u \in Threads : \A x \in job'[u].drawn : x.face \in Faces
<1>1. OnlyMoves(t) /\ job'[t] = NoJob /\ pc'[t] = "idle" /\ pc' \in [Threads -> PCs]
  BY DEF Refuse, Goto, OnlyMoves, Inv, TypeOK, Shapes, PCs
<1>2. JobShape(NoJob) /\ NoJob.drawn = {}
  BY DEF JobShape, NoJob
<1>3. OwnFont(job[t])'
  BY <1>1, <1>2 DEF OwnFont
<1>4. Shapes' /\ OwnFonts'
  BY <1>1, <1>2, <1>3, OverlaysKept DEF Refuse
<1>5. QED BY <1>1, <1>2, <1>4 DEF OnlyMoves, Inv, TypeOK
-----------------------------------------------------------------------------
\* What the registry and the configuration give a thread: one lemma per action.

LEMMA LoadInv == ASSUME Inv, NEW p \in Projects, Load(p) PROVE Inv'
<1> USE DEF Load, registry
<1>1. TypeOK' /\ Shapes'
  BY DEF Inv, TypeOK, Shapes, Contents, PCs
<1>2. FacesOK' /\ NamesOK'
  BY DEF Inv, FacesOK, NamesOK
<1>3. \A t \in Threads : CacheKey(t)' = CacheKey(t) /\ (HasFont(t)' <=> HasFont(t))
  BY SameFont
<1>4. Pending' /\ ThreadsOK'
  BY <1>3 DEF Inv, Pending, ThreadsOK, ThreadOK
<1>5. OwnFonts'
  BY SameOverlay DEF Inv, OwnFonts
<1>6. QED BY <1>1, <1>2, <1>4, <1>5 DEF Inv

LEMMA ReplaceFontInv == ASSUME Inv, ReplaceFont PROVE Inv'
<1> USE DEF ReplaceFont, registry
<1>1. TypeOK' /\ Shapes'
  <2>1. \E path : \E content \in Contents : font' = [font EXCEPT ![path] = content]
    BY Zenon
  <2>2. QED BY <2>1 DEF Inv, TypeOK, Shapes, PCs
<1>2. FacesOK' /\ NamesOK'
  BY DEF Inv, FacesOK, NamesOK
<1>3. \A t \in Threads : CacheKey(t)' = CacheKey(t) /\ (HasFont(t)' <=> HasFont(t))
  BY SameFont
<1>4. Pending' /\ ThreadsOK'
  BY <1>3 DEF Inv, Pending, ThreadsOK, ThreadOK
<1>5. OwnFonts'
  BY SameOverlay DEF Inv, OwnFonts
<1>6. QED BY <1>1, <1>2, <1>4, <1>5 DEF Inv

LEMMA RequestType ==
  ASSUME TypeOK, NEW p \in serving, NEW r \in Requests(p)
  PROVE  r \in Request
<1>1. p \in Projects
  BY DEF TypeOK
<1>2. IsDocument(Config(p))
  BY <1>1, CertificatesAssumption DEF TypeOK, IsSetup, Config, In
<1>3. Config(p).rounds \in Seq(Round) /\ Config(p).subjects \in Seq(Subject)
  BY <1>2 DEF IsDocument
<1>4. \A x \in ToSet(RoundsOf(p)) : x \in Round
  BY <1>3, ElementOfSeq, LenProperties DEF ToSet, RoundsOf
<1>5. \A x \in ToSet(Config(p).subjects) : x \in Subject
  BY <1>3, ElementOfSeq, LenProperties DEF ToSet
<1>6. {x.id : x \in ToSet(RoundsOf(p))} \subseteq Names
  BY <1>4 DEF Round
<1>7. Codes(Config(p)) \subseteq Names
  BY <1>5 DEF Codes, Subject
<1>8. PICK round \in {x.id : x \in ToSet(RoundsOf(p))}, code \in Codes(Config(p)),
           query \in Queries \cup {Nothing} :
        r = [project |-> p, round |-> round, code |-> code, admin |-> query = Nothing,
             query |-> query]
  BY SMT DEF Requests
<1>9. round \in Names /\ code \in Names
  BY <1>6, <1>7
<1>10. QED BY <1>1, <1>8, <1>9 DEF Request

LEMMA DownloadInv == ASSUME Inv, NEW t \in Threads, Download(t) PROVE Inv'
<1>1. /\ DOMAIN job' = DOMAIN job
      /\ \A u \in Threads \ {t} : job'[u] = job[u]
      /\ DOMAIN job'[t] = {"request", "row", "page", "todo", "drawn"}
      /\ job'[t].drawn = {}
      /\ job'[t].request \in Request
  <2>1. PICK p \in serving :
          \E r \in Requests(p) : job' = [job EXCEPT ![t] = Started(p, r)]
    BY DEF Download
  <2>2. PICK r \in Requests(p) : job' = [job EXCEPT ![t] = Started(p, r)]
    BY <2>1
  <2>3. r \in Request
    BY RequestType DEF Inv
  <2>4. QED BY <2>2, <2>3 DEF Inv, Shapes, Started
<1>2. /\ pc[t] = "idle" /\ pc' = [pc EXCEPT ![t] = "lookup"]
      /\ UNCHANGED <<setup, serving, font, registered, names, lock>>
  BY DEF Download, registry, Goto
<1>3. OnlyMoves(t) /\ pc' \in [Threads -> PCs] /\ pc'[t] = "lookup"
  BY <1>1, <1>2 DEF OnlyMoves, Inv, TypeOK, PCs
<1>5. JobShape(job'[t])
  BY <1>1 DEF JobShape
<1>6. Shapes' /\ OwnFonts'
  <2>1. OwnFont(job[t])'
    BY <1>1 DEF OwnFont
  <2>2. QED BY <1>1, <1>3, <1>5, <2>1, OverlaysKept
<1>7. TypeOK'
  BY <1>1, <1>2, <1>3 DEF OnlyMoves, Inv, TypeOK
<1>8. ThreadsOK'
  BY <1>2, <1>3, OthersOK DEF ThreadsOK, ThreadOK
<1>9. QED BY <1>2, <1>3, <1>6, <1>7, <1>8, RegistryKept DEF Inv

LEMMA LookupInv == ASSUME Inv, NEW t \in Threads, Lookup(t) PROVE Inv'
<1> USE DEF Lookup, registry, Goto
<1>1. OnlyMoves(t) /\ pc' \in [Threads -> PCs] /\ pc'[t] \in {"draw", "lock"}
  BY DEF OnlyMoves, Inv, TypeOK, PCs
<1>2. Shapes' /\ OwnFonts'
  BY <1>1, SameOverlay DEF Inv, Shapes, OwnFonts
<1>3. TypeOK'
  BY <1>1 DEF Inv, TypeOK
<1>4. ThreadOK(t)'
  <2>1. HasFont(t)
    BY DEF Resolves, HasFont
  <2>2. CacheKey(t)' = CacheKey(t) /\ HasFont(t)'
    BY <2>1, SameFont
  <2>3. pc'[t] = "draw" => names[CacheKey(t)] # NoFace
    BY DEF Inv, TypeOK
  <2>4. QED BY <1>1, <2>2, <2>3 DEF ThreadOK
<1>5. ThreadsOK'
  BY <1>1, <1>4, OthersOK DEF ThreadsOK
<1>6. QED BY <1>1, <1>2, <1>3, <1>5, RegistryKept DEF Inv

LEMMA EndInv ==
  ASSUME Inv, NEW t \in Threads, pc[t] # "store", Refuse(t),
         UNCHANGED <<setup, serving, font, registered, names>>,
         lock' = lock \/ (lock = t /\ lock' = Free)
  PROVE  Inv'
<1>1. OnlyMoves(t) /\ Shapes' /\ OwnFonts' /\ pc'[t] = "idle"
  BY Refused
<1>2. TypeOK'
  BY Refused DEF Inv, TypeOK
<1>3. ThreadsOK'
  BY <1>1, OthersOK DEF ThreadsOK, ThreadOK
<1>4. QED BY <1>1, <1>2, <1>3, RegistryKept DEF Inv

LEMMA AcquireInv == ASSUME Inv, NEW t \in Threads, Acquire(t) PROVE Inv'
<1> USE DEF Acquire, Goto
<1>1. /\ OnlyMoves(t) /\ pc' \in [Threads -> PCs] /\ pc'[t] \in {"draw", "parse"}
      /\ lock' \in {Free, t} /\ UNCHANGED <<registered, names>>
  BY DEF OnlyMoves, Inv, TypeOK, PCs
<1>2. Shapes' /\ OwnFonts'
  BY <1>1, SameOverlay DEF Inv, Shapes, OwnFonts
<1>3. TypeOK'
  BY <1>1 DEF Inv, TypeOK
<1>4. ThreadOK(t)'
  <2>1. HasFont(t) /\ HasFont(t)' /\ CacheKey(t)' = CacheKey(t)
    BY SameFont DEF Inv, ThreadsOK, ThreadOK
  <2>2. /\ pc'[t] = "draw" => names[CacheKey(t)] # NoFace
        /\ pc'[t] = "parse" => lock' = t /\ names[CacheKey(t)] = NoFace
    BY DEF Inv, TypeOK, Loaded
  <2>3. QED BY <1>1, <2>1, <2>2 DEF ThreadOK
<1>5. ThreadsOK'
  BY <1>1, <1>4, OthersOK DEF ThreadsOK
<1>6. QED BY <1>1, <1>2, <1>3, <1>5, RegistryKept DEF Inv
\* A thread that ends its request, with the lock or without it.
LEMMA FailsInv == ASSUME Inv, NEW t \in Threads, Fails(t) PROVE Inv'
<1>1. pc[t] # "store" /\ Refuse(t) /\ UNCHANGED <<setup, serving, font, registered, names, lock>>
  BY DEF Fails, registry
<1>2. QED BY <1>1, EndInv

LEMMA FinishInv == ASSUME Inv, NEW t \in Threads, Finish(t) PROVE Inv'
<1>1. pc[t] # "store" /\ Refuse(t) /\ UNCHANGED <<setup, serving, font, registered, names, lock>>
  BY DEF Finish, registry
<1>2. QED BY <1>1, EndInv

LEMMA RejectInv == ASSUME Inv, NEW t \in Threads, Reject(t) PROVE Inv'
<1>1. /\ pc[t] = "parse" /\ Refuse(t) /\ UNCHANGED <<setup, serving, font, registered, names>>
      /\ lock' = Free
  BY DEF Reject, Released
<1>2. lock = t
  BY <1>1 DEF Inv, ThreadsOK, ThreadOK
<1>3. QED BY <1>1, <1>2, EndInv

\* Nobody else registers: the lock is with t.
LEMMA RegisterInv == ASSUME Inv, NEW t \in Threads, Register(t) PROVE Inv'
<1> DEFINE n == CacheKey(t)
           face == <<File(t), font[File(t)]>>
<1>1. /\ pc[t] = "parse" /\ pc' = [pc EXCEPT ![t] = "store"]
      /\ registered' = [registered EXCEPT ![n] = face]
      /\ font[File(t)] \in Versions
      /\ UNCHANGED <<setup, serving, font, names, lock, job>>
  BY DEF Register, Goto, Parses, PSName, CacheKey
<1>2. HasFont(t) /\ lock = t /\ names[n] = NoFace
  BY <1>1 DEF Inv, ThreadsOK, ThreadOK
<1>3. n \in PSNames /\ File(t) \in Paths /\ n[2] = File(t)
  BY <1>1, <1>2, CacheKeyType DEF Inv, CacheKey
<1>4. face \in Faces /\ face # NoFace /\ face[1] = n[2]
  BY <1>1, <1>3, FaceFacts DEF Faces
<1>5. OnlyMoves(t) /\ pc' \in [Threads -> PCs] /\ pc'[t] = "store"
  BY <1>1 DEF OnlyMoves, Inv, TypeOK, PCs
<1>6. registered' \in [PSNames -> Faces \cup {NoFace}]
  BY <1>1, <1>3, <1>4 DEF Inv, TypeOK
<1>7. registered'[n] = face /\ \A k \in PSNames \ {n} : registered'[k] = registered[k]
  BY <1>1, <1>3 DEF Inv, TypeOK
<1>8. TypeOK'
  BY <1>1, <1>5, <1>6 DEF Inv, TypeOK
<1>9. Shapes' /\ OwnFonts'
  BY <1>1, SameOverlay DEF Inv, Shapes, OwnFonts
<1>10. FacesOK' /\ NamesOK'
  BY <1>1, <1>4, <1>7 DEF Inv, FacesOK, NamesOK
<1>11. \A u \in Threads : CacheKey(u)' = CacheKey(u) /\ (HasFont(u)' <=> HasFont(u))
  BY <1>1, SameFont
<1>12. Pending'
  <2> SUFFICES ASSUME NEW k \in PSNames, registered'[k] # NoFace, names'[k] = NoFace
               PROVE  \E u \in Threads : pc'[u] = "store" /\ CacheKey(u)' = k
    BY DEF Pending
  <2>1. CASE k = n
    BY <1>5, <1>11, <2>1
  <2>2. CASE k # n
    <3>1. PICK u \in Threads : pc[u] = "store" /\ CacheKey(u) = k
      BY <1>1, <1>7, <2>2 DEF Inv, Pending
    <3>2. u # t
      BY <1>1, <3>1
    <3>3. QED BY <1>5, <1>11, <3>1, <3>2 DEF OnlyMoves
  <2>3. QED BY <2>1, <2>2
<1>13. ThreadsOK'
  <2> SUFFICES ASSUME NEW u \in Threads PROVE ThreadOK(u)'
    BY DEF ThreadsOK
  <2>1. CASE u = t
    BY <1>1, <1>2, <1>4, <1>5, <1>7, <1>11, <2>1 DEF ThreadOK
  <2>2. CASE u # t
    <3>1. ThreadOK(u) /\ pc'[u] = pc[u] /\ pc[u] \notin {"parse", "store"}
      BY <1>2, <1>5, <2>2 DEF Inv, ThreadsOK, ThreadOK, OnlyMoves
    <3>2. QED BY <1>1, <1>11, <3>1 DEF ThreadOK
  <2>3. QED BY <2>1, <2>2
<1>14. QED BY <1>8, <1>9, <1>10, <1>12, <1>13 DEF Inv

LEMMA StoreInv == ASSUME Inv, NEW t \in Threads, Store(t) PROVE Inv'
<1> DEFINE n == CacheKey(t)
<1>1. /\ pc[t] = "store" /\ pc' = [pc EXCEPT ![t] = "draw"]
      /\ names' = [names EXCEPT ![n] = n] /\ lock' = Free
      /\ UNCHANGED <<setup, serving, font, registered, job>>
  BY DEF Store, Goto, PSName, CacheKey
<1>2. HasFont(t) /\ lock = t /\ registered[n] # NoFace
  BY <1>1 DEF Inv, ThreadsOK, ThreadOK
<1>3. n \in PSNames /\ n # NoFace /\ PSName(n[1], n[2]) = n
  BY <1>1, <1>2, CacheKeyType, FaceFacts DEF Inv
<1>4. OnlyMoves(t) /\ pc' \in [Threads -> PCs] /\ pc'[t] = "draw"
  BY <1>1 DEF OnlyMoves, Inv, TypeOK, PCs
<1>5. names' \in [PSNames -> PSNames \cup {NoFace}]
  BY <1>1, <1>3 DEF Inv, TypeOK
<1>6. names'[n] = n /\ \A k \in PSNames \ {n} : names'[k] = names[k]
  BY <1>1, <1>3 DEF Inv, TypeOK
<1>7. TypeOK'
  BY <1>1, <1>4, <1>5 DEF Inv, TypeOK
<1>8. Shapes' /\ OwnFonts'
  BY <1>1, SameOverlay DEF Inv, Shapes, OwnFonts
<1>9. FacesOK' /\ NamesOK'
  BY <1>1, <1>2, <1>3, <1>6 DEF Inv, FacesOK, NamesOK
<1>10. \A u \in Threads : CacheKey(u)' = CacheKey(u) /\ (HasFont(u)' <=> HasFont(u))
  BY <1>1, SameFont
<1>11. Pending'
  <2> SUFFICES ASSUME NEW k \in PSNames, registered'[k] # NoFace, names'[k] = NoFace
               PROVE  \E u \in Threads : pc'[u] = "store" /\ CacheKey(u)' = k
    BY DEF Pending
  <2>1. k # n
    BY <1>3, <1>6
  <2>2. PICK u \in Threads : pc[u] = "store" /\ CacheKey(u) = k
    BY <1>1, <1>6, <2>1 DEF Inv, Pending
  <2>3. u # t
    BY <2>1, <2>2
  <2>4. QED BY <1>4, <1>10, <2>2, <2>3 DEF OnlyMoves
<1>12. ThreadsOK'
  <2> SUFFICES ASSUME NEW u \in Threads PROVE ThreadOK(u)'
    BY DEF ThreadsOK
  <2>1. CASE u = t
    BY <1>2, <1>3, <1>4, <1>6, <1>10, <2>1 DEF ThreadOK
  <2>2. CASE u # t
    <3>1. ThreadOK(u) /\ pc'[u] = pc[u] /\ pc[u] \notin {"parse", "store"}
      BY <1>2, <1>4, <2>2 DEF Inv, ThreadsOK, ThreadOK, OnlyMoves
    <3>2. pc[u] = "draw" => CacheKey(u) \in PSNames
      BY <3>1, CacheKeyType DEF Inv, ThreadOK
    <3>3. pc[u] = "draw" => names'[CacheKey(u)] # NoFace
      BY <1>3, <1>6, <3>1, <3>2 DEF ThreadOK
    <3>4. QED BY <1>10, <3>1, <3>3 DEF ThreadOK
  <2>3. QED BY <2>1, <2>2
<1>13. QED BY <1>7, <1>8, <1>9, <1>11, <1>12 DEF Inv

LEMMA DrawInv == ASSUME Inv, NEW t \in Threads, Draw(t) PROVE Inv'
<1> DEFINE p == job[t].request.project
           x == [field |-> Current(t).field, text |-> Current(t).text,
                 face |-> registered[names[CacheKey(t)]]]
<1>1. /\ pc[t] = "draw" /\ pc' = [pc EXCEPT ![t] = "lookup"]
      /\ job' = [job EXCEPT ![t].todo = @ \ {Current(t)}, ![t].drawn = @ \cup {x}]
      /\ UNCHANGED <<setup, serving, font, registered, names, lock>>
  BY DEF Draw, Goto, registry
<1>2. HasFont(t) /\ names[CacheKey(t)] # NoFace
  BY <1>1 DEF Inv, ThreadsOK, ThreadOK
<1>3. CacheKey(t) \in PSNames
  BY <1>1, <1>2, CacheKeyType DEF Inv
<1>4. names[CacheKey(t)] = CacheKey(t) /\ registered[CacheKey(t)] # NoFace
  BY <1>2, <1>3, FaceFacts DEF Inv, NamesOK
<1>5. x.face \in Faces /\ x.face[1] = File(t)
  BY <1>3, <1>4 DEF Inv, TypeOK, FacesOK, CacheKey
<1>6. x.face[1] = Path(p, Config(p).fonts[Config(p).layout[x.field]])
  BY <1>5 DEF File, Key
<1>7. OnlyMoves(t) /\ pc' \in [Threads -> PCs] /\ pc'[t] = "lookup" /\ DOMAIN job' = DOMAIN job
  BY <1>1 DEF OnlyMoves, Inv, TypeOK, PCs, Shapes
<1>8. job'[t] = [job[t] EXCEPT !.todo = @ \ {Current(t)}, !.drawn = @ \cup {x}]
  BY <1>1 DEF Inv, Shapes
<1>9. /\ DOMAIN job'[t] = DOMAIN job[t]
      /\ job'[t].drawn = job[t].drawn \cup {x}
      /\ job'[t].request = job[t].request
  <2> HIDE DEF x
  <2>1. DOMAIN job[t] = {"request", "row", "page", "todo", "drawn"}
    BY DEF Inv, Shapes, JobShape
  <2>2. QED BY <1>8, <2>1
<1>10. JobShape(job'[t])
  BY <1>9 DEF Inv, Shapes, JobShape
<1>11. OwnFont(job[t])'
  <2> HIDE DEF x
  <2>1. OwnFont(job[t])
    BY DEF Inv, OwnFonts
  <2>2. QED BY <1>1, <1>5, <1>6, <1>9, <1>10, <2>1 DEF OwnFont, Config, In
<1>12. Shapes' /\ OwnFonts'
  BY <1>7, <1>10, <1>11, OverlaysKept
<1>13. TypeOK'
  <2>1. \A u \in Threads : \A y \in job'[u].drawn : y.face \in Faces
    BY <1>12 DEF OwnFonts, OwnFont
  <2>2. \A u \in Threads : pc'[u] # "idle" => job'[u].request \in Request
    BY <1>1, <1>7, <1>9 DEF OnlyMoves, Inv, TypeOK
  <2>3. QED BY <1>1, <1>7, <2>1, <2>2 DEF Inv, TypeOK
<1>14. ThreadsOK'
  BY <1>1, <1>7, OthersOK DEF ThreadsOK, ThreadOK
<1>15. QED BY <1>1, <1>7, <1>12, <1>13, <1>14, RegistryKept DEF Inv
-----------------------------------------------------------------------------
LEMMA StutterInv == ASSUME Inv, UNCHANGED vars PROVE Inv'
<1> USE DEF vars, registry
<1>1. TypeOK' /\ Shapes' /\ FacesOK' /\ NamesOK'
  BY DEF Inv, TypeOK, Shapes, FacesOK, NamesOK
<1>2. \A t \in Threads : CacheKey(t)' = CacheKey(t) /\ (HasFont(t)' <=> HasFont(t))
  BY SameFont
<1>3. Pending' /\ ThreadsOK'
  BY <1>2 DEF Inv, Pending, ThreadsOK, ThreadOK
<1>4. OwnFonts'
  BY SameOverlay DEF Inv, OwnFonts
<1>5. QED BY <1>1, <1>3, <1>4 DEF Inv

LEMMA NextInv == ASSUME Inv, [Next]_vars PROVE Inv'
<1>1. ASSUME NEW t \in Threads, Render(t) PROVE Inv'
  BY <1>1, LookupInv, FailsInv, AcquireInv, RegisterInv, RejectInv, StoreInv, DrawInv, FinishInv
  DEF Render
<1>2. QED BY <1>1, LoadInv, DownloadInv, ReplaceFontInv, StutterInv DEF Next

\* The inductive invariant holds of every reachable state (FontRegistry.ensure_loaded,
\* render_certificate_bytes).
THEOREM Invariant == Spec => []Inv
<1>1. QED BY InitInv, NextInv, PTL DEF Spec

\* Whatever projects are served, however threads interleave and font files change,
\* the registry, its lock and the requests have their types (FontRegistry,
\* render_certificate_bytes).
THEOREM TypeCorrect == Spec => []TypeOK
<1>1. Inv => TypeOK
  BY DEF Inv
<1>2. QED BY <1>1, Invariant, PTL

\* Every text is drawn with a face read from the file that the project of the request
\* names for the field: projects that share a process and use the same font keys
\* never get each other's fonts (_psname_for, ensure_loaded).
THEOREM FontsApart == Spec => []DrawnInOwnFont
<1>1. Inv => DrawnInOwnFont
  BY DEF Inv, OwnFonts, OwnFont, DrawnInOwnFont
<1>2. QED BY <1>1, Invariant, PTL

\* A face that was registered is never replaced: with the lock and the second look at
\* the cache, no two threads register one font, although the file may have changed
\* in between (FontRegistry.ensure_loaded).
THEOREM RegisteredOnce == Spec => FacesStand
<1> DEFINE Stand == \A n \in PSNames : registered[n] # NoFace => registered'[n] = registered[n]
<1>1. ASSUME Inv, NEW t \in Threads, Register(t) PROVE Stand
  <2>1. /\ pc[t] = "parse"
        /\ registered' = [registered EXCEPT ![CacheKey(t)] = <<File(t), font[File(t)]>>]
    BY <1>1 DEF Register, PSName, CacheKey
  <2>2. HasFont(t) /\ lock = t /\ names[CacheKey(t)] = NoFace
    BY <1>1, <2>1 DEF Inv, ThreadsOK, ThreadOK
  <2>3. CacheKey(t) \in PSNames
    BY <1>1, <2>1, <2>2, CacheKeyType DEF Inv
  <2>4. registered[CacheKey(t)] = NoFace
    <3>1. \A u \in Threads : pc[u] # "store"
      BY <1>1, <2>1, <2>2 DEF Inv, ThreadsOK, ThreadOK
    <3>2. QED BY <1>1, <2>2, <2>3, <3>1 DEF Inv, Pending
  <2>5. QED BY <1>1, <2>1, <2>4 DEF Inv, TypeOK
<1>2. ASSUME Inv, [Next]_vars PROVE [Stand]_registered
  <2>1. ASSUME NEW t \in Threads, Render(t) PROVE Stand \/ UNCHANGED registered
    BY <1>1, <1>2, <2>1
    DEF Render, Lookup, Fails, Acquire, Reject, Store, Draw, Finish, registry
  <2>2. ASSUME NEW t \in Threads, Download(t) PROVE UNCHANGED registered
    BY <2>2 DEF Download, registry
  <2>3. ASSUME NEW p \in Projects, Load(p) PROVE UNCHANGED registered
    BY <2>3 DEF Load, registry
  <2>4. ASSUME ReplaceFont PROVE UNCHANGED registered
    BY <2>4 DEF ReplaceFont, registry
  <2>5. QED BY <1>2, <2>1, <2>2, <2>3, <2>4 DEF Next, vars, registry
<1>3. QED BY <1>2, Invariant, PTL DEF Spec, FacesStand
-----------------------------------------------------------------------------
(* The certificate that is chosen and what is printed on it. *)

\* A project that is served was accepted.
Served == \A p \in serving : Accepted(Config(p))

\* The page of a request has one result, which is the one in the student's row: one
\* round has the id of the request and one subject its code.
Shows(j) ==
  LET r == j.request
      c == Config(r.project)
      entries == c.results[r.code]
  IN /\ \E k \in DOMAIN entries : entries[k].page = j.page
     /\ \A i \in DOMAIN c.rounds, n \in DOMAIN c.subjects, k \in DOMAIN entries :
          /\ c.rounds[i].id = r.round /\ c.subjects[n].code = r.code
          /\ entries[k].page = j.page
          => Same("name", entries[k].name, Cell(RowIn(r.project, i), c.subjects[n].db_col))

\* LookupIsLenient, of one request.
Knows(j) ==
  LET r == j.request
      factor == IF Config(r.project).mode = "sbd_phone" THEN "phone" ELSE "name"
  IN ~r.admin /\ r.query[factor] # Blank => VerifyIdentityAny(r.project, j.row, r.query)

\* What is not drawn yet is still to do, and nothing that was drawn is too long.
Complete(j) ==
  LET p == j.request.project
  IN /\ \A x \in FieldValues(p, j.row) :
          x.field \in DOMAIN Config(p).layout /\ x.text # Blank =>
            x \in j.todo \/ \E d \in j.drawn : d.field = x.field /\ d.text = x.text
     /\ \A d \in j.drawn : d.text \notin TooLong

\* The text a thread is drawing passed the length check.
Checked(t) ==
  pc[t] \in {"lock", "parse", "store", "draw"} => Current(t).text \notin TooLong

JobsOK ==
  \A t \in Threads :
    /\ pc[t] # "idle" => Shows(job[t]) /\ Knows(job[t]) /\ Complete(job[t])
    /\ Checked(t)

Printed == Served /\ JobsOK

\* A nonempty set of naturals has a least element, which Min returns: the set of
\* naturals below which nothing is in it would otherwise have no end.
LEMMA MinOf ==
  ASSUME NEW S, S \subseteq Nat, S # {}
  PROVE  Min(S) \in S /\ \A x \in S : Min(S) <= x
<1>1. \E m \in S : \A x \in S : m <= x
  <2>1. PICK m \in S : \A x \in S : <<x, m>> \notin OpToRel(<, Nat)
    BY NatLessThanWellFounded, WFMin, Zenon
  <2>2. \A x \in S : ~(x < m)
    BY <2>1, Zenon DEF OpToRel
  <2>3. QED BY <2>2
<1>2. QED BY <1>1 DEF Min

\* The configuration of a setup does not change.
LEMMA ConfigKept ==
  ASSUME UNCHANGED setup
  PROVE  \A p : /\ Config(p)' = Config(p) /\ In(p)' = In(p)
                /\ Candidates(p)' = Candidates(p)
                /\ \A row : FieldValues(p, row)' = FieldValues(p, row)
                /\ \A i : RowIn(p, i)' = RowIn(p, i)
<1> SUFFICES ASSUME NEW p
             PROVE  /\ Config(p)' = Config(p) /\ In(p)' = In(p)
                    /\ Candidates(p)' = Candidates(p)
                    /\ \A row : FieldValues(p, row)' = FieldValues(p, row)
                    /\ \A i : RowIn(p, i)' = RowIn(p, i)
  OBVIOUS
<1>1. In(p)' = In(p) /\ Config(p)' = Config(p)
  BY DEF In, Config
<1>2. Candidates(p)' = Candidates(p)
  BY <1>1 DEF Candidates
<1>3. ASSUME NEW row PROVE FieldValues(p, row)' = FieldValues(p, row)
  BY <1>2 DEF FieldValues
<1>4. \A i : RowIn(p, i)' = RowIn(p, i)
  BY <1>1 DEF RowIn, RoundsOf
<1>5. QED BY <1>1, <1>2, <1>3, <1>4

\* What was found of a request stands while its job does.
LEMMA JobKept ==
  ASSUME NEW t \in Threads, UNCHANGED setup, job'[t] = job[t]
  PROVE  /\ Shows(job[t]) => Shows(job[t])'
         /\ Knows(job[t]) => Knows(job[t])'
         /\ Complete(job[t]) => Complete(job[t])'
         /\ Current(t)' = Current(t)
<1>1. Shows(job[t]) => Shows(job[t])'
  BY ConfigKept DEF Shows
<1>2. Knows(job[t]) => Knows(job[t])'
  BY DEF Knows, VerifyIdentityAny, Config, In
<1>3. Complete(job[t]) => Complete(job[t])'
  BY ConfigKept DEF Complete
<1>4. Current(t)' = Current(t)
  BY DEF Current, Todo
<1>5. QED BY <1>1, <1>2, <1>3, <1>4

\* What a request says of itself.
LEMMA RequestSays ==
  ASSUME NEW p \in serving, NEW r \in Requests(p)
  PROVE  r.project = p
BY SMT DEF Requests

\* The shape of a served project's configuration, as the proofs below use it.
LEMMA ConfigSays ==
  ASSUME TypeOK, Served, NEW p \in serving
  PROVE  /\ IsDocument(Config(p)) /\ Accepted(Config(p))
         /\ DOMAIN RoundsOf(p) \subseteq Nat
         /\ DOMAIN Config(p).subjects \subseteq Nat
         /\ \A code : DOMAIN Config(p).results[code] \subseteq Nat \/ code \notin Codes(Config(p))
<1>1. IsDocument(Config(p)) /\ Accepted(Config(p))
  BY CertificatesAssumption DEF TypeOK, Served, IsSetup, Config, In
<1>2. Config(p).rounds \in Seq(Round) /\ Config(p).subjects \in Seq(Subject)
  BY <1>1 DEF IsDocument
<1>3. DOMAIN RoundsOf(p) \subseteq Nat /\ DOMAIN Config(p).subjects \subseteq Nat
  BY <1>2, LenProperties DEF RoundsOf
<1>4. ASSUME NEW code \in Codes(Config(p))
      PROVE  DOMAIN Config(p).results[code] \subseteq Nat
  <2>1. code \in DOMAIN Config(p).results
    BY <1>1 DEF Accepted, ResultsMatchSubjects
  <2>2. Config(p).results[code] \in Seq(Entry)
    BY <1>1, <2>1 DEF IsDocument, IsMap
  <2>3. QED BY <2>2, LenProperties
<1>5. QED BY <1>1, <1>3, <1>4

\* The first of some certificates is one of them.
LEMMA FirstOf ==
  ASSUME NEW certs \in SUBSET (Nat \X Nat), certs # {}
  PROVE  First(certs) \in certs
<1> DEFINE A == {at[1] : at \in certs}
           i == Min(A)
           B == {at[2] : at \in {x \in certs : x[1] = i}}
<1>1. A \subseteq Nat /\ A # {}
  OBVIOUS
<1>2. i \in A
  BY <1>1, MinOf
<1> HIDE DEF i
<1>3. B \subseteq Nat /\ B # {}
  BY <1>2
<1>4. Min(B) \in B
  BY <1>3, MinOf
<1>5. <<i, Min(B)>> \in certs
  <2>1. PICK at \in certs : at[1] = i /\ at[2] = Min(B)
    BY <1>4
  <2>2. at = <<i, Min(B)>>
    BY <2>1
  <2>3. QED BY <2>2
<1>6. First(certs) = <<i, Min(B)>>
  BY DEF First, i
<1>7. QED BY <1>5, <1>6

\* The certificate of a request: a round and a subject that it names, in a round the
\* student was found in.
LEMMA ChosenSays ==
  ASSUME TypeOK, Served, NEW p \in serving, NEW r, Chosen(p, r) # {}
  PROVE  LET at == First(Chosen(p, r))
         IN /\ at[1] \in DOMAIN RoundsOf(p) /\ RoundsOf(p)[at[1]].id = r.round
            /\ at[2] \in DOMAIN Config(p).subjects
            /\ Config(p).subjects[at[2]].code = r.code
            /\ at[1] \in Matched(p, r.admin, r.query)
            /\ PageAt(p, at) # 0
<1>1. /\ Matched(p, r.admin, r.query) \subseteq DOMAIN RoundsOf(p)
      /\ \A at \in Chosen(p, r) :
           /\ at \in Matched(p, r.admin, r.query) \X DOMAIN Config(p).subjects
           /\ PageAt(p, at) # 0
           /\ RoundsOf(p)[at[1]].id = r.round
           /\ Config(p).subjects[at[2]].code = r.code
  BY DEF Chosen, Pick, Collected, Matched
<1>2. Chosen(p, r) \in SUBSET (Nat \X Nat)
  BY <1>1, ConfigSays
<1>3. First(Chosen(p, r)) \in Chosen(p, r)
  BY <1>2, FirstOf
<1>4. QED BY <1>1, <1>3

\* Ids of rounds and codes of subjects are unique, and so are the pages of a result.
LEMMA PageSays ==
  ASSUME TypeOK, Served, NEW p \in serving, NEW r \in Requests(p), Chosen(p, r) # {}
  PROVE  Shows(Started(p, r))
<1> DEFINE c == Config(p)
           at == First(Chosen(p, r))
           entries == c.results[r.code]
           page == PageAt(p, at)
           cell == Cell(RowIn(p, at[1]), c.subjects[at[2]].db_col)
<1>1. /\ at[1] \in DOMAIN c.rounds /\ c.rounds[at[1]].id = r.round
      /\ at[2] \in DOMAIN c.subjects /\ c.subjects[at[2]].code = r.code
      /\ page # 0
  BY ChosenSays DEF RoundsOf
<1>2. Accepted(c) /\ r.project = p
  BY ConfigSays, RequestSays
<1>3. \A i \in DOMAIN c.rounds : c.rounds[i].id = r.round => i = at[1]
  <2>1. RoundIdsUnique(c)
    BY <1>2 DEF Accepted
  <2>2. QED BY <1>1, <2>1 DEF RoundIdsUnique, IsInjective
<1>4. \A n \in DOMAIN c.subjects : c.subjects[n].code = r.code => n = at[2]
  <2>1. SubjectCodesUnique(c)
    BY <1>2 DEF Accepted
  <2>2. QED BY <1>1, <2>1 DEF SubjectCodesUnique, IsInjective
<1>5. r.code \in Codes(c)
  BY <1>1 DEF Codes, ToSet
<1> DEFINE same == {i \in DOMAIN entries : Same("name", entries[i].name, cell)}
<1>6. same # {} /\ page = entries[Min(same)].page
  <2>1. page = PageOf(p, r.code, cell)
    BY <1>1 DEF PageAt
  <2>2. QED BY <1>1, <2>1 DEF PageOf
<1>7. Min(same) \in same
  <2>1. DOMAIN entries \subseteq Nat
    BY <1>5, ConfigSays
  <2>2. same \subseteq Nat
    BY <2>1
  <2>3. QED BY <1>6, <2>2, MinOf
<1>8. \A k \in DOMAIN entries : entries[k].page = page => k = Min(same)
  <2>1. PagesUnique(entries)
    BY <1>2, <1>5 DEF Accepted, ResultsMatchSubjects
  <2>2. QED BY <1>6, <1>7, <2>1 DEF PagesUnique, IsInjective
<1>9. /\ Started(p, r).request = r /\ Started(p, r).page = page
      /\ same \subseteq DOMAIN entries
      /\ \A k \in same : Same("name", entries[k].name, cell)
  BY DEF Started
<1> HIDE DEF page, same, entries, cell
<1>10. \E k \in DOMAIN entries : entries[k].page = page
  BY <1>6, <1>7, <1>9
<1>11. \A i \in DOMAIN c.rounds, n \in DOMAIN c.subjects, k \in DOMAIN entries :
         /\ c.rounds[i].id = r.round /\ c.subjects[n].code = r.code
         /\ entries[k].page = page
         => Same("name", entries[k].name, Cell(RowIn(p, i), c.subjects[n].db_col))
  <2> HIDE DEF c, at
  <2>1. SUFFICES ASSUME NEW i \in DOMAIN c.rounds, NEW n \in DOMAIN c.subjects,
                        NEW k \in DOMAIN entries,
                        c.rounds[i].id = r.round, c.subjects[n].code = r.code,
                        entries[k].page = page
                 PROVE  Same("name", entries[k].name, Cell(RowIn(p, i), c.subjects[n].db_col))
    OBVIOUS
  <2>2. i = at[1] /\ n = at[2] /\ k \in same
    BY <1>3, <1>4, <1>7, <1>8, <2>1
  <2>3. Same("name", entries[k].name, cell)
    BY <1>9, <2>2
  <2>4. QED BY <2>2, <2>3 DEF cell
<1>12. QED BY <1>2, <1>9, <1>10, <1>11 DEF Shows, c, entries

\* The search compared the factor of the mode with the row of the first round.
LEMMA MatchSays ==
  ASSUME TypeOK, Served, NEW p \in serving, NEW r \in Requests(p), Renders(p, r)
  PROVE  Knows(Started(p, r))
<1> DEFINE c == Config(p)
           m == c.data_mapping
           row == RowIn(p, Min(Matched(p, r.admin, r.query)))
           factor == IF c.mode = "sbd_phone" THEN "phone" ELSE "name"
<1>1. IsDocument(c) /\ r.project = p
  BY ConfigSays, RequestSays
<1>2. c.mode \in SearchMode /\ m.name # Unset
  <2>1. c.mode \in SearchMode /\ m \in DataMapping
    BY <1>1 DEF IsDocument
  <2>2. QED BY <2>1, CertConfigAssumption DEF DataMapping
<1>3. Started(p, r).request = r /\ Started(p, r).row = row
  BY DEF Started
<1>4. SUFFICES ASSUME ~r.admin, r.query[factor] # Blank
               PROVE  VerifyIdentityAny(p, row, r.query)
  BY <1>1, <1>3 DEF Knows
<1>5. Min(Matched(p, r.admin, r.query)) \in Matched(p, r.admin, r.query)
  <2>1. Matched(p, r.admin, r.query) \subseteq Nat
    BY ConfigSays DEF Matched
  <2>2. Matched(p, r.admin, r.query) # {}
    BY ChosenSays DEF Renders
  <2>3. QED BY <2>1, <2>2, MinOf
<1>6. row # NoRow /\ MatchPredicate(p, row, r.query)
  BY <1>4, <1>5 DEF Matched
<1>7. ~Misconfigured(p)
  BY <1>4 DEF Renders
<1>8. CASE c.mode = "sbd_phone"
  BY <1>4, <1>6, <1>7, <1>8 DEF MatchPredicate, Misconfigured, VerifyIdentityAny
<1>9. CASE c.mode = "name_dob_captcha" \/ c.mode = "name_sbd_captcha"
  BY <1>2, <1>4, <1>6, <1>9 DEF MatchPredicate, VerifyIdentityAny
<1>10. QED BY <1>2, <1>8, <1>9 DEF SearchMode

\* A request starts with all its texts to do.
LEMMA OverlaySays ==
  ASSUME NEW p \in serving, NEW r \in Requests(p)
  PROVE  Complete(Started(p, r))
<1>1. /\ Started(p, r).request = r /\ Started(p, r).drawn = {} /\ r.project = p
      /\ Started(p, r).todo = Overlay(p, Started(p, r).row)
  BY RequestSays DEF Started
<1>2. QED BY <1>1 DEF Complete, Overlay

LEMMA PrintedInit == Init => Printed
BY DEF Init, Printed, Served, JobsOK, Checked

\* The other threads' requests stand.
LEMMA OthersPrint ==
  ASSUME JobsOK, NEW t \in Threads, OnlyMoves(t),
         pc'[t] # "idle" => Shows(job[t])' /\ Knows(job[t])' /\ Complete(job[t])',
         Checked(t)'
  PROVE  JobsOK'
<1> SUFFICES ASSUME NEW u \in Threads
             PROVE  /\ pc'[u] # "idle" => Shows(job[u])' /\ Knows(job[u])' /\ Complete(job[u])'
                    /\ Checked(u)'
  BY DEF JobsOK
<1>1. CASE u = t
  BY <1>1
<1>2. CASE u # t
  BY <1>2, JobKept DEF OnlyMoves, JobsOK, Checked
<1>3. QED BY <1>1, <1>2

\* A thread that goes on with its request without drawing.
LEMMA GoesOn ==
  ASSUME JobsOK, NEW t \in Threads, OnlyMoves(t), pc[t] # "idle", job'[t] = job[t],
         \/ pc[t] \in {"lock", "parse", "store", "draw"}
         \/ Current(t).text \notin TooLong
  PROVE  JobsOK'
<1>1. Shows(job[t])' /\ Knows(job[t])' /\ Complete(job[t])'
  BY JobKept DEF JobsOK, OnlyMoves
<1>2. Checked(t)'
  BY JobKept DEF JobsOK, Checked, OnlyMoves
<1>3. QED BY <1>1, <1>2, OthersPrint

LEMMA DrawPrints ==
  ASSUME Inv, JobsOK, NEW t \in Threads, Draw(t)
  PROVE  JobsOK'
<1> DEFINE cur == Current(t)
           x == [field |-> cur.field, text |-> cur.text,
                 face |-> registered[names[CacheKey(t)]]]
<1>0. UNCHANGED setup
  BY DEF Draw
<1>1. /\ pc[t] = "draw" /\ pc' = [pc EXCEPT ![t] = "lookup"]
      /\ job' = [job EXCEPT ![t].todo = @ \ {cur}, ![t].drawn = @ \cup {x}]
  BY DEF Draw, Goto
<1>2. x.field = cur.field /\ x.text = cur.text
  OBVIOUS
<1> HIDE DEF cur, x
<1>3. OnlyMoves(t) /\ pc'[t] = "lookup"
  BY <1>0, <1>1 DEF OnlyMoves, Inv, TypeOK, Shapes
<1>4. job'[t] = [job[t] EXCEPT !.todo = @ \ {cur}, !.drawn = @ \cup {x}]
  BY <1>1 DEF Inv, Shapes
<1>5. /\ job'[t].request = job[t].request /\ job'[t].row = job[t].row
      /\ job'[t].page = job[t].page
      /\ job'[t].todo = job[t].todo \ {cur} /\ job'[t].drawn = job[t].drawn \cup {x}
  <2>1. DOMAIN job[t] = {"request", "row", "page", "todo", "drawn"}
    BY DEF Inv, Shapes, JobShape
  <2>2. QED BY <1>4, <2>1
<1>6. Shows(job[t]) /\ Knows(job[t]) /\ Complete(job[t]) /\ cur.text \notin TooLong
  BY <1>1 DEF JobsOK, Checked, cur
<1>7. Shows(job[t])'
  BY <1>0, <1>5, <1>6, ConfigKept DEF Shows
<1>8. Knows(job[t])'
  BY <1>0, <1>5, <1>6 DEF Knows, VerifyIdentityAny, Config, In
<1>9. Complete(job[t])'
  <2> DEFINE p == job[t].request.project
  <2>1. ASSUME NEW y \in FieldValues(p, job[t].row),
               y.field \in DOMAIN Config(p).layout, y.text # Blank
        PROVE  \/ y \in job'[t].todo
               \/ \E d \in job'[t].drawn : d.field = y.field /\ d.text = y.text
    <3>1. \/ y \in job[t].todo
          \/ \E d \in job[t].drawn : d.field = y.field /\ d.text = y.text
      BY <1>6, <2>1 DEF Complete
    <3>2. CASE y = cur
      BY <1>2, <1>5, <3>2
    <3>3. CASE y # cur
      BY <1>5, <3>1, <3>3
    <3>4. QED BY <3>2, <3>3
  <2>2. \A d \in job'[t].drawn : d.text \notin TooLong
    BY <1>2, <1>5, <1>6 DEF Complete
  <2>3. QED BY <1>0, <1>5, <2>1, <2>2, ConfigKept DEF Complete
<1>10. QED BY <1>3, <1>7, <1>8, <1>9, OthersPrint DEF Checked

LEMMA DownloadPrints ==
  ASSUME Inv, Printed, NEW t \in Threads, Download(t)
  PROVE  JobsOK'
<1>1. PICK p \in serving :
        \E r \in Requests(p) : Renders(p, r) /\ job' = [job EXCEPT ![t] = Started(p, r)]
  BY DEF Download
<1>2. PICK r \in Requests(p) :
        Renders(p, r) /\ job' = [job EXCEPT ![t] = Started(p, r)]
  BY <1>1
<1>3. PICK j : j = Started(p, r)
  OBVIOUS
<1>4. /\ UNCHANGED setup /\ job'[t] = j /\ pc'[t] = "lookup"
      /\ \A u \in Threads \ {t} : pc'[u] = pc[u] /\ job'[u] = job[u]
  <2>1. UNCHANGED setup
    BY DEF Download
  <2>2. pc' = [pc EXCEPT ![t] = "lookup"]
    BY DEF Download, Goto
  <2>3. job' = [job EXCEPT ![t] = j]
    BY <1>2, <1>3
  <2>4. pc \in [Threads -> PCs] /\ DOMAIN job = Threads
    BY DEF Inv, TypeOK, Shapes
  <2>5. QED BY <2>1, <2>2, <2>3, <2>4
<1>5. Shows(j) /\ Knows(j) /\ Complete(j)
  BY <1>2, <1>3, PageSays, MatchSays, OverlaySays DEF Inv, Printed, Renders
<1>6. Shows(job[t])'
  <2>1. \A q : Config(q)' = Config(q) /\ \A i : RowIn(q, i)' = RowIn(q, i)
    BY <1>4, ConfigKept
  <2>2. Shows(j) /\ job'[t] = j
    BY <1>4, <1>5
  <2>3. QED BY <2>1, <2>2 DEF Shows
<1>7. Knows(job[t])'
  BY <1>4, <1>5 DEF Knows, VerifyIdentityAny, Config, In
<1>8. Complete(job[t])'
  BY <1>4, <1>5, ConfigKept DEF Complete
<1>9. QED BY <1>4, <1>6, <1>7, <1>8, OthersPrint DEF Printed, Checked, OnlyMoves

LEMMA RenderPrints ==
  ASSUME Inv, JobsOK, NEW t \in Threads, Render(t)
  PROVE  JobsOK'
<1>1. CASE Lookup(t) \/ Acquire(t) \/ Register(t) \/ Store(t)
  <2>1. /\ UNCHANGED <<setup, job>> /\ pc[t] # "idle"
        /\ \E to : pc' = [pc EXCEPT ![t] = to]
        /\ \/ pc[t] \in {"lock", "parse", "store", "draw"}
           \/ Current(t).text \notin TooLong
    <3>1. CASE Lookup(t)
      BY <3>1 DEF Lookup, Goto
    <3>2. CASE Acquire(t)
      <4>1. \E to : pc' = [pc EXCEPT ![t] = to]
        BY <3>2 DEF Acquire, Goto
      <4>2. QED BY <3>2, <4>1 DEF Acquire
    <3>3. CASE Register(t)
      BY <3>3 DEF Register, Goto
    <3>4. CASE Store(t)
      BY <3>4 DEF Store, Goto
    <3>5. QED BY <1>1, <3>1, <3>2, <3>3, <3>4
  <2>2. OnlyMoves(t) /\ job'[t] = job[t]
    BY <2>1 DEF OnlyMoves, Inv, TypeOK
  <2>3. QED BY <2>1, <2>2, GoesOn
<1>2. CASE Fails(t) \/ Reject(t) \/ Finish(t)
  <2>1. Refuse(t) /\ UNCHANGED setup
    BY <1>2 DEF Fails, Reject, Finish
  <2>2. OnlyMoves(t) /\ pc'[t] = "idle"
    BY <2>1, Refused
  <2>3. QED BY <2>2, OthersPrint DEF Checked
<1>3. CASE Draw(t)
  BY <1>3, DrawPrints
<1>4. QED BY <1>1, <1>2, <1>3 DEF Render

LEMMA PrintedStep == ASSUME Inv, Printed, [Next]_vars PROVE Printed'
<1>1. UNCHANGED setup
  BY DEF Next, vars, Load, Download, Render, Lookup, Fails, Acquire, Register, Reject, Store,
         Draw, Finish, ReplaceFont
<1>2. Served'
  <2>1. \A p \in serving' : p \in serving \/ Accepted(Config(p))
    BY DEF Next, vars, Load, Download, Render, Lookup, Fails, Acquire, Register, Reject, Store,
           Draw, Finish, ReplaceFont
  <2>2. \A p \in serving' : Accepted(Config(p))
    BY <2>1 DEF Printed, Served
  <2>3. QED BY <1>1, <2>2, ConfigKept DEF Served
<1>3. ASSUME UNCHANGED <<pc, job>> PROVE JobsOK'
  BY <1>1, <1>3, JobKept DEF Printed, JobsOK, Checked
<1>4. JobsOK'
  <2>1. ASSUME NEW p \in Projects, Load(p) PROVE UNCHANGED <<pc, job>>
    BY <2>1 DEF Load
  <2>2. ReplaceFont \/ UNCHANGED vars => UNCHANGED <<pc, job>>
    BY DEF ReplaceFont, vars
  <2>3. QED BY <1>3, <2>1, <2>2, DownloadPrints, RenderPrints DEF Next, Printed
<1>5. QED BY <1>2, <1>4 DEF Printed

THEOREM PrintedInvariant == Spec => []Printed
<1>1. QED BY Invariant, PrintedInit, PrintedStep, PTL DEF Spec

\* The page of a certificate is that of the one result that the student has in the
\* round and the subject of the request (search_student, _collect_certificates,
\* _pick_certificate): with the uniqueness rules of CertConfig, whatever else the
\* configuration says and whichever rounds the student was found in.
THEOREM PageIsTheResult == Spec => []PageShowsResult
<1>1. TypeOK /\ Printed => PageShowsResult
  <2> SUFFICES ASSUME TypeOK, Printed, NEW t \in Threads, pc[t] = "lookup"
               PROVE  LET cert == job[t]
                          r == cert.request
                          c == Config(r.project)
                          results == {Cell(In(r.project).rows[round.table], s.db_col) :
                                        round \in {x \in ToSet(c.rounds) : x.id = r.round},
                                        s \in {x \in ToSet(c.subjects) : x.code = r.code}}
                          shown == {e \in ToSet(c.results[r.code]) : e.page = cert.page}
                      IN shown # {} /\ \A e \in shown, cell \in results : Same("name", e.name, cell)
    BY DEF PageShowsResult, Delivered
  <2>1. Shows(job[t])
    BY DEF Printed, JobsOK
  <2> DEFINE cert == job[t]
             r == cert.request
             c == Config(r.project)
             entries == c.results[r.code]
  <2>2. /\ \E k \in DOMAIN entries : entries[k].page = cert.page
        /\ \A i \in DOMAIN c.rounds, n \in DOMAIN c.subjects, k \in DOMAIN entries :
             /\ c.rounds[i].id = r.round /\ c.subjects[n].code = r.code
             /\ entries[k].page = cert.page
             => Same("name", entries[k].name,
                     Cell(In(r.project).rows[c.rounds[i].table], c.subjects[n].db_col))
    BY <2>1 DEF Shows, RowIn, RoundsOf
  <2> HIDE DEF c, entries, r, cert
  <2>3. \E e \in ToSet(entries) : e.page = cert.page
    BY <2>2 DEF ToSet
  <2>4. ASSUME NEW e \in ToSet(entries), e.page = cert.page,
               NEW x \in ToSet(c.rounds), x.id = r.round,
               NEW s \in ToSet(c.subjects), s.code = r.code
        PROVE  Same("name", e.name, Cell(In(r.project).rows[x.table], s.db_col))
    <3>1. PICK k \in DOMAIN entries : e = entries[k]
      BY DEF ToSet
    <3>2. PICK i \in DOMAIN c.rounds : x = c.rounds[i]
      BY DEF ToSet
    <3>3. PICK n \in DOMAIN c.subjects : s = c.subjects[n]
      BY DEF ToSet
    <3>4. QED BY <2>2, <2>4, <3>1, <3>2, <3>3
  <2>5. QED BY <2>3, <2>4 DEF c, entries, r, cert
<1>2. QED BY <1>1, TypeCorrect, PrintedInvariant, PTL

\* Every text of the layout that the row has something for is on the certificate,
\* and none that is too long (render_certificate_bytes).
THEOREM NothingLeftOut == Spec => []NothingMissing
<1>1. Printed => NothingMissing
  <2> SUFFICES ASSUME Printed, NEW t \in Threads, pc[t] = "lookup", job[t].todo = {}
               PROVE  LET p == job[t].request.project
                          drawn == {[field |-> x.field, text |-> x.text] : x \in job[t].drawn}
                      IN /\ \A x \in FieldValues(p, job[t].row) :
                              x.field \in DOMAIN Config(p).layout /\ x.text # Blank =>
                                [field |-> x.field, text |-> x.text] \in drawn
                         /\ \A x \in drawn : x.text \notin TooLong
    BY DEF NothingMissing, Delivered, Todo
  <2>1. Complete(job[t])
    BY DEF Printed, JobsOK
  <2>2. QED BY <2>1 DEF Complete
<1>2. QED BY <1>1, PrintedInvariant, PTL

\* What identified a caller in a search identifies them in the shipment look-up
\* (verify_identity_any), in each mode of search.
THEOREM LookupFollowsSearch == Spec => []LookupIsLenient
<1>1. Printed => LookupIsLenient
  BY DEF Printed, JobsOK, Knows, LookupIsLenient, Delivered
<1>2. QED BY <1>1, PrintedInvariant, PTL
===============================================================================
