-------------------------- MODULE PublicPortal_proofs --------------------------
(***************************************************************************)
(* Theorems about PublicPortal, for any number of clients, workers and     *)
(* challenges, any window, limit and lifetime.                             *)
(***************************************************************************)
EXTENDS PublicPortal, FiniteSetTheorems, TLAPS

\* A request that named window i counts itself before the window after it ends.
ClocksOK ==
  \A w \in Workers :
    /\ pc[w] \in {"incr", "expire"} => job[w].at <= now
    /\ pc[w] = "incr" => now <= job[w].at + MaxDelay

\* The request that made the key has yet to be let through.
Pending(w, k) == pc[w] = "expire" /\ KeyOf(w) = k

\* A key outlives the requests that name it, and counts those let through and
\* the one that made it.
KeyOK(k) ==
  /\ At(counter, k).until = 0 \/ At(counter, k).until >= (k[3] + 2) * Window
  /\ At(admitted, k) <= At(counter, k).count
  /\ At(admitted, k) <= Limit
  /\ \A v, w \in Workers : Pending(v, k) /\ Pending(w, k) => v = w
  /\ (\E w \in Workers : Pending(w, k)) =>
       At(admitted, k) < At(counter, k).count /\ At(admitted, k) < Limit
KeysOK == \A k \in Scopes \X Clients \X Windows : KeyOK(k)

\* A request presents a challenge that was issued; on its way from the CAPTCHA
\* to the count it holds one of its own, which let it through.
Gated == {"gate_lookup_first", "gate_download", "gate_lookup", "captcha"}
Flying(w) == pc[w] \in {"clock", "incr"} /\ job[w].kind # "mint"
FlightsOK ==
  /\ \A w \in Workers : pc[w] \in Gated => job[w].captcha \in 1..issued
  /\ \A w \in Workers : Flying(w) => job[w].captcha \in Captchas /\ passed[job[w].captcha] > 0
  /\ \A v, w \in Workers : Flying(v) /\ Flying(w) /\ job[v].captcha = job[w].captcha => v = w

CaptchasOK ==
  \A n \in Captchas :
    passed[n] <= 1 /\ (passed[n] > 0 => n <= issued /\ ~captcha[n].stored)

\* The challenges whose requests have counted themselves, or were abandoned.
Landed == {n \in Captchas : passed[n] > 0 /\ ~\E w \in Workers : Flying(w) /\ job[w].captcha = n}
QuotaOK ==
  /\ \A k \in Scopes \X Clients \X Windows : At(counter, k).count <= MaxCount
  /\ IsFiniteSet(QuotaSpent)
  /\ Cardinality(QuotaSpent) <= Cardinality(Landed)

\* A surface is shut when its key says so and nobody is writing; a request that
\* came later has a read of that key before it.
GatesOK ==
  /\ shut # {} => \A w \in Workers : ~Updating(w)
  /\ shut \cap {"search", "shipment"} # {} => lookupFlag = "0"
  /\ "download" \in shut => downloadFlag = "0"
  /\ \A w \in Workers : job[w].late =>
       /\ job[w].kind \in shut
       /\ pc[w] \in (IF job[w].kind = "download" THEN {"gate_lookup_first", "gate_download"}
                     ELSE {"gate_lookup"})
  /\ \A w \in Workers : Updating(w) /\ job[w].alone =>
       /\ \A v \in Workers : Updating(v) => v = w
       /\ pc[w] \in {"set_download", "log_flip"} => lookupFlag = Flag(job[w].lookup)
       /\ pc[w] = "log_flip" => downloadFlag = Flag(job[w].download)

Inv == TypeOK /\ ClocksOK /\ KeysOK /\ FlightsOK /\ CaptchasOK /\ QuotaOK /\ GatesOK
-----------------------------------------------------------------------------
Keys == Scopes \X Clients \X Windows

\* A time lies in its window.
LEMMA WindowFacts ==
  ASSUME NEW t \in Nat
  PROVE  /\ t \div Window \in Nat
         /\ (t \div Window) * Window <= t
         /\ t < (t \div Window) * Window + Window
BY PortalAssumption

LEMMA KeyType ==
  ASSUME TypeOK, NEW w \in Workers
  PROVE  /\ KeyOf(w) \in Keys /\ KeyOf(w)[3] = job[w].at \div Window
         /\ job[w] \in Job /\ job[w].at \in 0..MaxTime /\ job[w].at \in Nat
<1>1. job[w] \in Job
  BY DEF TypeOK
<1>2. job[w].at \in 0..MaxTime /\ job[w].client \in Clients /\ job[w].at \in Nat /\ MaxTime \in Nat
  BY <1>1, PortalAssumption DEF Job
<1>3. ScopeOf(job[w].kind) \in Scopes
  BY DEF ScopeOf, Scopes
<1>4. job[w].at \div Window \in Windows
  <2> DEFINE i == job[w].at \div Window  m == MaxTime \div Window
  <2>1. /\ i \in Nat /\ m \in Nat /\ Window \in Nat /\ Window > 0
        /\ i * Window <= job[w].at /\ MaxTime < m * Window + Window
    BY <1>2, WindowFacts, PortalAssumption
  <2>2. i * Window < (m + 1) * Window
    BY <1>2, <2>1
  <2>3. i < m + 1
    <3> HIDE DEF i, m
    <3>1. ASSUME i >= m + 1 PROVE FALSE
      <4>1. PICK d \in Nat : i = (m + 1) + d
        BY <2>1, <3>1
      <4>2. i * Window = (m + 1) * Window + d * Window /\ d * Window \in Nat
        BY <2>1, <4>1
      <4>3. (m + 1) * Window \in Nat
        BY <2>1
      <4>4. QED BY <2>2, <4>2, <4>3
    <3>2. QED BY <2>1, <3>1
  <2>4. QED BY <2>1, <2>3 DEF Windows
<1>5. QED BY <1>1, <1>2, <1>3, <1>4 DEF KeyOf, Keys

\* A value for each rate-limit key.
Table(X) == [Scopes -> [Clients -> [Windows -> X]]]
Entry == [count: Nat, until: Nat]
LEMMA Tables ==
  ASSUME TypeOK
  PROVE  counter \in Table(Entry) /\ admitted \in Table(Nat)
BY DEF TypeOK, Table, Entry

\* Put changes a table at one key.
LEMMA PutFacts ==
  ASSUME NEW X, NEW f \in Table(X), NEW k \in Keys, NEW x \in X
  PROVE  /\ Put(f, k, x) \in Table(X)
         /\ At(Put(f, k, x), k) = x
         /\ \A m \in Keys : m # k => At(Put(f, k, x), m) = At(f, m)
<1>1. k[1] \in Scopes /\ k[2] \in Clients /\ k[3] \in Windows
  BY DEF Keys
<1>2. \A m \in Keys : m[1] \in Scopes /\ m[2] \in Clients /\ m[3] \in Windows
  BY DEF Keys
<1>3. \A m \in Keys : m # k => m[1] # k[1] \/ m[2] # k[2] \/ m[3] # k[3]
  BY DEF Keys
<1>4. Put(f, k, x) \in Table(X)
  BY <1>1 DEF Put, Table
<1>5. At(Put(f, k, x), k) = x
  BY <1>1 DEF Put, At, Table
<1>6. ASSUME NEW m \in Keys, m # k PROVE At(Put(f, k, x), m) = At(f, m)
  BY <1>1, <1>2, <1>3, <1>6 DEF Put, At, Table
<1>7. QED BY <1>4, <1>5, <1>6

LEMMA AtTypes ==
  ASSUME TypeOK, NEW k \in Keys
  PROVE  /\ At(counter, k) \in [count: Nat, until: Nat]
         /\ At(counter, k).count \in Nat /\ At(counter, k).until \in Nat
         /\ At(admitted, k) \in Nat
         /\ k[3] \in Nat
<1>1. k[1] \in Scopes /\ k[2] \in Clients /\ k[3] \in Windows
  BY DEF Keys
<1>2. At(counter, k) \in [count: Nat, until: Nat] /\ At(admitted, k) \in Nat
  BY <1>1 DEF TypeOK, At
<1>3. k[3] \in Nat
  BY <1>1 DEF Windows
<1>4. QED BY <1>2, <1>3

LEMMA NoJobType == NoJob \in Job /\ NoJob.late = FALSE /\ NoJob.alone = FALSE
<1>1. (CHOOSE c \in Clients : TRUE) \in Clients
  BY PortalAssumption
<1>2. QED BY <1>1, PortalAssumption DEF NoJob, Job

\* Every step but the start of an update changes the job of one worker.
LEMMA GotoBegins ==
  ASSUME TypeOK, NEW w \in Workers, NEW to, Goto(w, to)
  PROVE  \E j \in Job : Begin(w, to, j) /\ j = (IF to = "idle" THEN NoJob ELSE job[w])
<1>1. job \in [Workers -> Job]
  BY DEF TypeOK
<1>2. CASE to = "idle"
  BY <1>1, <1>2, NoJobType DEF Goto, Begin
<1>3. CASE to # "idle"
  BY <1>1, <1>3 DEF Goto, Begin
<1>4. QED BY <1>2, <1>3

LEMMA BeginFacts ==
  ASSUME TypeOK, NEW w \in Workers, NEW to, NEW j, Begin(w, to, j)
  PROVE  /\ pc'[w] = to /\ job'[w] = j
         /\ \A v \in Workers : v # w => pc'[v] = pc[v] /\ job'[v] = job[v]
         /\ to \in PCs => pc' \in [Workers -> PCs]
         /\ j \in Job => job' \in [Workers -> Job]
BY DEF Begin, TypeOK
-----------------------------------------------------------------------------
\* Initially, with no key, no challenge and nobody at work.
LEMMA InitInv == Init => Inv
<1> SUFFICES ASSUME Init PROVE Inv
  OBVIOUS
<1>1. TypeOK
  <2>1. now \in 0..MaxTime /\ issued \in 0..MaxCaptchas /\ updates \in 0..MaxUpdates
    BY PortalAssumption DEF Init
  <2>2. pc \in [Workers -> PCs] /\ job \in [Workers -> Job]
    BY NoJobType DEF Init, PCs
  <2>3. NoKey \in [count: Nat, until: Nat]
    BY DEF NoKey
  <2>4. counter \in [Scopes -> [Clients -> [Windows -> [count: Nat, until: Nat]]]]
    BY <2>3 DEF Init
  <2>5. /\ captcha \in [Captchas -> [stored: BOOLEAN, until: Nat]]
        /\ passed \in [Captchas -> Nat]
        /\ admitted \in [Scopes -> [Clients -> [Windows -> Nat]]]
    BY DEF Init
  <2>6. {lookupFlag, downloadFlag} \subseteq Flags /\ audit \subseteq BOOLEAN \X BOOLEAN
        /\ shut \subseteq {"search", "download", "shipment"}
    BY DEF Init, Flags
  <2>7. QED BY <2>1, <2>2, <2>4, <2>5, <2>6 DEF TypeOK
<1>2. ASSUME NEW k \in Keys
      PROVE  At(counter, k).count = 0 /\ At(counter, k).until = 0 /\ At(admitted, k) = 0
  <2>1. k[1] \in Scopes /\ k[2] \in Clients /\ k[3] \in Windows
    BY DEF Keys
  <2>2. QED BY <2>1 DEF Init, At, NoKey
<1>3. \A w \in Workers : pc[w] = "idle" /\ job[w] = NoJob
  BY DEF Init
<1>4. ClocksOK /\ KeysOK
  BY <1>2, <1>3, PortalAssumption DEF ClocksOK, KeysOK, KeyOK, Keys, Pending
<1>5. FlightsOK /\ CaptchasOK
  BY <1>3 DEF FlightsOK, Flying, Gated, CaptchasOK, Init
<1>6. QuotaOK
  <2>1. QuotaSpent = {}
    <3> SUFFICES ASSUME NEW u \in QuotaSpent PROVE FALSE
      OBVIOUS
    <3>1. <<u[1], u[2], u[3]>> \in Keys /\ u[4] \in 1..MaxCount /\ u[4] <= At(counter, u).count
      BY DEF QuotaSpent, Keys
    <3>2. At(counter, u) = At(counter, <<u[1], u[2], u[3]>>)
      BY DEF At
    <3>3. QED BY <1>2, <3>1, <3>2
  <2>2. Landed = {}
    BY DEF Landed, Init
  <2>3. \A k \in Keys : At(counter, k).count <= MaxCount
    BY <1>2, PortalAssumption
  <2>4. QED BY <2>1, <2>2, <2>3, FS_EmptySet DEF QuotaOK, Keys
<1>7. GatesOK
  BY <1>3, NoJobType DEF GatesOK, Updating, Init
<1>8. QED BY <1>1, <1>4, <1>5, <1>6, <1>7 DEF Inv

\* A worker that goes on, or back to the top, keeps its types.
LEMMA GotoType ==
  ASSUME TypeOK, NEW w \in Workers, NEW to \in PCs, Goto(w, to)
  PROVE  pc' \in [Workers -> PCs] /\ job' \in [Workers -> Job]
BY GotoBegins, BeginFacts

LEMMA PutTypes ==
  ASSUME TypeOK, NEW w \in Workers
  PROVE  /\ Put(admitted, KeyOf(w), At(admitted, KeyOf(w)) + 1)
              \in [Scopes -> [Clients -> [Windows -> Nat]]]
         /\ \A v \in [count: Nat, until: Nat] :
              Put(counter, KeyOf(w), v)
                \in [Scopes -> [Clients -> [Windows -> [count: Nat, until: Nat]]]]
<1>1. KeyOf(w) \in Keys
  BY KeyType
<1>2. At(admitted, KeyOf(w)) + 1 \in Nat
  BY <1>1, AtTypes
<1>3. Put(admitted, KeyOf(w), At(admitted, KeyOf(w)) + 1) \in Table(Nat)
  BY <1>1, <1>2, PutFacts, Tables
<1>4. \A v \in Entry : Put(counter, KeyOf(w), v) \in Table(Entry)
  BY <1>1, PutFacts, Tables
<1>5. QED BY <1>3, <1>4 DEF Table, Entry

LEMMA RequestJobs ==
  \A k \in {"search", "download", "shipment"}, c \in Clients, n \in 0..MaxCaptchas,
     right \in BOOLEAN, late \in BOOLEAN :
    [NoJob EXCEPT !.kind = k, !.client = c, !.captcha = n, !.right = right, !.late = late] \in Job
BY NoJobType DEF Job

LEMMA TypeInv ==
  ASSUME TypeOK, [Next]_vars
  PROVE  TypeOK'
<1>0. /\ now \in Nat /\ MaxTime \in Nat /\ issued \in Nat /\ updates \in Nat
      /\ job \in [Workers -> Job]
  BY PortalAssumption DEF TypeOK
<1>1. CASE Tick
  BY <1>0, <1>1 DEF Tick, TypeOK, gates, challenges, quotas, operator
<1>2. ASSUME NEW w \in Workers, NEW to \in PCs, Goto(w, to),
             UNCHANGED <<now, challenges, quotas, updates>>,
             {lookupFlag', downloadFlag'} \subseteq Flags,
             audit' \subseteq BOOLEAN \X BOOLEAN,
             shut' \subseteq {"search", "download", "shipment"}
      PROVE  TypeOK'
  BY <1>2, GotoType DEF TypeOK, challenges, quotas
<1>3. ASSUME NEW w \in Workers,
             \/ GateLookupFirst(w) \/ GateDownload(w) \/ GateLookup(w) \/ Query(w) \/ Abandon(w)
      PROVE  TypeOK'
  <2>1. PICK to \in {"gate_download", "gate_lookup", "captcha", "idle"} : Goto(w, to)
    BY <1>3 DEF GateLookupFirst, GateDownload, GateLookup, Query, Abandon
  <2>2. UNCHANGED <<now, gates, challenges, quotas, operator>>
    BY <1>3 DEF GateLookupFirst, GateDownload, GateLookup, Query, Abandon
  <2>3. QED BY <1>2, <2>1, <2>2 DEF PCs, TypeOK, gates, operator
<1>4. ASSUME NEW w \in Workers, SetLookup(w) \/ SetDownload(w) \/ LogFlip(w)
      PROVE  TypeOK'
  <2>1. PICK to \in {"set_download", "log_flip", "idle"} : Goto(w, to)
    BY <1>4 DEF SetLookup, SetDownload, LogFlip
  <2>2. job[w].lookup \in BOOLEAN /\ job[w].download \in BOOLEAN
    BY <1>0 DEF Job
  <2>3. UNCHANGED <<now, challenges, quotas, updates>>
    BY <1>4 DEF SetLookup, SetDownload, LogFlip, operator
  <2>4. {lookupFlag', downloadFlag'} \subseteq Flags
    BY <1>4 DEF SetLookup, SetDownload, LogFlip, TypeOK, Flags, Flag, gates
  <2>5. audit' \subseteq BOOLEAN \X BOOLEAN
    BY <1>4, <2>2 DEF SetLookup, SetDownload, LogFlip, TypeOK, operator
  <2>6. shut' \subseteq {"search", "download", "shipment"}
    BY <1>4 DEF SetLookup, SetDownload, LogFlip, TypeOK, operator
  <2>7. QED BY <1>2, <2>1, <2>3, <2>4, <2>5, <2>6 DEF PCs
<1>5. ASSUME NEW w \in Workers, NEW to \in PCs, NEW j \in Job, Begin(w, to, j),
             UNCHANGED <<now, gates, challenges, quotas, operator>>
      PROVE  TypeOK'
  BY <1>5, BeginFacts DEF TypeOK, gates, challenges, quotas, operator
<1>6. ASSUME NEW w \in Workers, StartRequest(w) \/ StartMint(w) \/ ReadClock(w)
      PROVE  TypeOK'
  <2>1. CASE StartRequest(w)
    <3>1. PICK k \in Kinds, c \in Clients, n \in 1..issued, right \in BOOLEAN :
            Begin(w, IF k = "download" THEN "gate_lookup_first" ELSE "gate_lookup",
                  [NoJob EXCEPT !.kind = k, !.client = c, !.captcha = n, !.right = right,
                                !.late = k \in shut])
      BY <2>1 DEF StartRequest
    <3>2. n \in 0..MaxCaptchas /\ k \in {"search", "download", "shipment"}
      BY PortalAssumption DEF TypeOK
    <3> DEFINE j == [NoJob EXCEPT !.kind = k, !.client = c, !.captcha = n, !.right = right,
                                  !.late = k \in shut]
    <3>3. j \in Job
      <4>1. (k \in shut) \in BOOLEAN
        OBVIOUS
      <4>2. QED BY <3>2, <4>1, RequestJobs, Zenon
    <3>4. PICK to \in {"gate_lookup_first", "gate_lookup"} : Begin(w, to, j)
      <4> DEFINE to == IF k = "download" THEN "gate_lookup_first" ELSE "gate_lookup"
      <4>1. Begin(w, to, j)
        BY <3>1
      <4>2. to \in {"gate_lookup_first", "gate_lookup"}
        OBVIOUS
      <4> HIDE DEF j, to
      <4>3. QED BY <4>1, <4>2
    <3> HIDE DEF j
    <3>5. QED BY <1>5, <2>1, <3>3, <3>4 DEF StartRequest, PCs
  <2>2. CASE StartMint(w)
    <3>1. PICK c \in Clients : Begin(w, "clock", [NoJob EXCEPT !.kind = "mint", !.client = c])
      BY <2>2 DEF StartMint
    <3>2. [NoJob EXCEPT !.kind = "mint", !.client = c] \in Job
      BY NoJobType DEF Job
    <3>3. QED BY <1>5, <2>2, <3>1, <3>2 DEF PCs, StartMint
  <2>3. CASE ReadClock(w)
    <3>1. [job[w] EXCEPT !.at = now] \in Job
      BY <1>0 DEF Job, TypeOK
    <3>2. QED BY <1>5, <2>3, <3>1 DEF PCs, ReadClock
  <2>4. QED BY <1>6, <2>1, <2>2, <2>3
<1>7. ASSUME NEW w \in Workers, VerifyChallenge(w)
      PROVE  TypeOK'
  <2>1. PICK to \in {"clock", "idle"} : Goto(w, to)
    BY <1>7 DEF VerifyChallenge
  <2>2. pc' \in [Workers -> PCs] /\ job' \in [Workers -> Job]
    BY <2>1, GotoType DEF PCs
  <2>3. captcha' \in [Captchas -> [stored: BOOLEAN, until: Nat]]
    BY <1>7 DEF VerifyChallenge, Consumed, TypeOK
  <2>4. passed' \in [Captchas -> Nat]
    BY <1>7 DEF VerifyChallenge, TypeOK
  <2>5. QED BY <1>7, <2>2, <2>3, <2>4 DEF VerifyChallenge, TypeOK, gates, quotas, operator
<1>8. ASSUME NEW w \in Workers, IssueChallenge(w)
      PROVE  TypeOK'
  <2>1. pc' \in [Workers -> PCs] /\ job' \in [Workers -> Job]
    BY <1>8, GotoType DEF IssueChallenge, PCs
  <2>2. issued' \in 0..MaxCaptchas
    BY <1>0, <1>8, PortalAssumption DEF IssueChallenge, TypeOK
  <2>3. now + CaptchaTTL \in Nat
    BY <1>0, PortalAssumption
  <2>4. captcha' \in [Captchas -> [stored: BOOLEAN, until: Nat]]
    BY <1>8, <2>3 DEF IssueChallenge, TypeOK
  <2>5. QED BY <1>8, <2>1, <2>2, <2>4 DEF IssueChallenge, TypeOK, gates, quotas, operator
<1>9. ASSUME NEW w \in Workers, Incr(w) \/ Expire(w)
      PROVE  TypeOK'
  <2>1. PICK to \in {"expire", "issue", "query", "idle"} : Goto(w, to)
    BY <1>9 DEF Incr, Expire, Admit, AfterLimit
  <2>2. pc' \in [Workers -> PCs] /\ job' \in [Workers -> Job]
    BY <2>1, GotoType DEF PCs
  <2>3. admitted' \in [Scopes -> [Clients -> [Windows -> Nat]]]
    BY <1>9, PutTypes DEF Incr, Expire, Admit, TypeOK
  <2>4. counter' \in [Scopes -> [Clients -> [Windows -> [count: Nat, until: Nat]]]]
    <3>1. At(counter, KeyOf(w)) \in [count: Nat, until: Nat]
      BY KeyType, AtTypes
    <3>2. [At(counter, KeyOf(w)) EXCEPT !.count = @ + 1] \in [count: Nat, until: Nat]
      BY <3>1
    <3>3. now + KeyTTL \in Nat
      BY <1>0, PortalAssumption DEF KeyTTL
    <3>4. [At(counter, KeyOf(w)) EXCEPT !.until = now + KeyTTL] \in [count: Nat, until: Nat]
      BY <3>1, <3>3
    <3>5. [count |-> 1, until |-> 0] \in [count: Nat, until: Nat]
      OBVIOUS
    <3>6. QED BY <1>9, <3>2, <3>4, <3>5, PutTypes DEF Incr, Expire
  <2>5. UNCHANGED <<now, gates, challenges, operator>>
    BY <1>9 DEF Incr, Expire
  <2>6. QED BY <2>2, <2>3, <2>4, <2>5 DEF TypeOK, gates, challenges, operator
<1>10. ASSUME NEW w \in Workers, StartUpdate(w)
       PROVE  TypeOK'
  <2>1. pc' \in [Workers -> PCs]
    BY <1>10 DEF StartUpdate, TypeOK, PCs
  <2>2. job' \in [Workers -> Job]
    <3>1. PICK l \in BOOLEAN, d \in BOOLEAN :
            job' = [v \in Workers |->
              IF v = w THEN [NoJob EXCEPT !.kind = "flip", !.lookup = l, !.download = d /\ l,
                                          !.alone = ~\E u \in Workers : Updating(u)]
              ELSE [job[v] EXCEPT !.late = FALSE, !.alone = FALSE]]
      BY <1>10 DEF StartUpdate
    <3>2. [NoJob EXCEPT !.kind = "flip", !.lookup = l, !.download = d /\ l,
                        !.alone = ~\E u \in Workers : Updating(u)] \in Job
      BY NoJobType DEF Job
    <3>3. \A v \in Workers : [job[v] EXCEPT !.late = FALSE, !.alone = FALSE] \in Job
      BY <1>0 DEF Job
    <3>4. QED BY <3>1, <3>2, <3>3
  <2>3. updates' \in 0..MaxUpdates
    <3>1. updates < MaxUpdates /\ updates' = updates + 1
      BY <1>10 DEF StartUpdate
    <3>2. updates + 1 \in 0..MaxUpdates
      BY <1>0, <3>1, PortalAssumption
    <3>3. QED BY <3>1, <3>2
  <2>4. /\ UNCHANGED <<now, lookupFlag, downloadFlag, issued, captcha, counter, audit, passed,
                       admitted>>
        /\ shut' = {}
    BY <1>10 DEF StartUpdate, gates, challenges, quotas
  <2>5. QED BY <2>1, <2>2, <2>3, <2>4 DEF TypeOK
<1>11. CASE UNCHANGED vars
  BY <1>11 DEF vars, TypeOK, gates, challenges, quotas, operator
<1>12. QED BY <1>1, <1>3, <1>4, <1>6, <1>7, <1>8, <1>9, <1>10, <1>11 DEF Next, Step
-----------------------------------------------------------------------------
\* The start of an update touches the other workers' jobs, in their history only.
LEMMA StartUpdateFacts ==
  ASSUME TypeOK, NEW w \in Workers, StartUpdate(w)
  PROVE  /\ pc[w] = "idle" /\ pc'[w] = "set_lookup" /\ ~job'[w].late
         /\ job'[w].alone => \A u \in Workers : ~Updating(u)
         /\ \A v \in Workers : v # w =>
              /\ pc'[v] = pc[v] /\ ~job'[v].late /\ ~job'[v].alone
              /\ job'[v].kind = job[v].kind /\ job'[v].client = job[v].client
              /\ job'[v].captcha = job[v].captcha /\ job'[v].at = job[v].at
         /\ shut' = {} /\ UNCHANGED <<now, lookupFlag, downloadFlag, issued, captcha, passed,
                                      counter, admitted>>
<1> DEFINE alone == ~\E u \in Workers : Updating(u)
<1>1. PICK l \in BOOLEAN, d \in BOOLEAN :
        job' = [v \in Workers |->
          IF v = w THEN [NoJob EXCEPT !.kind = "flip", !.lookup = l, !.download = d /\ l,
                                      !.alone = alone]
          ELSE [job[v] EXCEPT !.late = FALSE, !.alone = FALSE]]
  BY DEF StartUpdate
<1>2. /\ pc[w] = "idle" /\ pc' = [pc EXCEPT ![w] = "set_lookup"] /\ shut' = {}
      /\ UNCHANGED <<now, lookupFlag, downloadFlag, issued, captcha, passed, counter, admitted>>
  BY DEF StartUpdate, gates, challenges, quotas
<1>3. ASSUME NEW v \in Workers, v # w
      PROVE  job'[v] = [job[v] EXCEPT !.late = FALSE, !.alone = FALSE]
  BY <1>1, <1>3
<1>4. \A v \in Workers : v # w =>
        /\ ~job'[v].late /\ ~job'[v].alone
        /\ job'[v].kind = job[v].kind /\ job'[v].client = job[v].client
        /\ job'[v].captcha = job[v].captcha /\ job'[v].at = job[v].at
  <2> SUFFICES ASSUME NEW v \in Workers, v # w
               PROVE  /\ ~job'[v].late /\ ~job'[v].alone
                      /\ job'[v].kind = job[v].kind /\ job'[v].client = job[v].client
                      /\ job'[v].captcha = job[v].captcha /\ job'[v].at = job[v].at
    OBVIOUS
  <2>1. job[v] \in Job
    BY DEF TypeOK
  <2>2. \A b \in Job : LET c == [b EXCEPT !.late = FALSE, !.alone = FALSE]
                       IN  /\ c.late = FALSE /\ c.alone = FALSE
                           /\ c.kind = b.kind /\ c.client = b.client
                           /\ c.captcha = b.captcha /\ c.at = b.at
    BY DEF Job
  <2>3. QED BY <1>3, <2>1, <2>2
<1>5. job'[w].alone = alone /\ job'[w].late = FALSE
  <2> HIDE DEF alone
  <2>1. job'[w] = [NoJob EXCEPT !.kind = "flip", !.lookup = l, !.download = d /\ l,
                                !.alone = alone]
    BY <1>1
  <2>2. NoJob.late = FALSE /\ NoJob \in Job
    BY NoJobType
  <2>3. QED BY <2>1, <2>2 DEF Job
<1>6. pc \in [Workers -> PCs]
  BY DEF TypeOK
<1>7. QED BY <1>2, <1>4, <1>5, <1>6
-----------------------------------------------------------------------------
(* The rate limit. *)

\* A step that counts nothing.
LEMMA KeysMoved ==
  ASSUME TypeOK, ClocksOK, KeysOK, NEW w \in Workers, NEW to, NEW j, Begin(w, to, j),
         UNCHANGED <<now, counter, admitted>>,
         to # "expire", to = "incr" => j.at = now
  PROVE  ClocksOK' /\ KeysOK'
<1>1. /\ pc'[w] = to /\ job'[w] = j
      /\ \A v \in Workers : v # w => pc'[v] = pc[v] /\ job'[v] = job[v]
  BY BeginFacts
<1>2. now \in Nat /\ MaxDelay \in Nat
  BY PortalAssumption DEF TypeOK
<1>3. ClocksOK'
  BY <1>1, <1>2 DEF ClocksOK
<1>4. \A v \in Workers, k \in Keys : Pending(v, k)' => Pending(v, k)
  BY <1>1 DEF Pending, KeyOf
<1>5. KeysOK'
  BY <1>4 DEF KeysOK, KeyOK, Keys, At
<1>6. QED BY <1>3, <1>5

LEMMA KeysStartUpdate ==
  ASSUME TypeOK, ClocksOK, KeysOK, NEW w \in Workers, StartUpdate(w)
  PROVE  ClocksOK' /\ KeysOK'
<1>1. \A v \in Workers : pc'[v] \in {"incr", "expire"} =>
        pc[v] = pc'[v] /\ job'[v].at = job[v].at /\ KeyOf(v)' = KeyOf(v)
  BY StartUpdateFacts DEF KeyOf
<1>2. UNCHANGED <<now, counter, admitted>>
  BY StartUpdateFacts
<1>3. ClocksOK'
  BY <1>1, <1>2 DEF ClocksOK
<1>4. \A v \in Workers, k \in Keys : Pending(v, k)' => Pending(v, k)
  BY <1>1 DEF Pending
<1>5. KeysOK'
  BY <1>2, <1>4 DEF KeysOK, KeyOK, Keys, At
<1>6. QED BY <1>3, <1>5

LEMMA KeysTick ==
  ASSUME TypeOK, ClocksOK, KeysOK, Tick
  PROVE  ClocksOK' /\ KeysOK'
<1>1. now \in Nat /\ MaxDelay \in Nat /\ now' = now + 1
  BY PortalAssumption DEF TypeOK, Tick
<1>2. UNCHANGED <<counter, admitted, pc, job>>
  BY DEF Tick, quotas
<1>3. \A w \in Workers : pc[w] = "incr" => now < job[w].at + MaxDelay
  BY DEF Tick
<1>4. \A w \in Workers : job[w].at \in Nat
  BY KeyType
<1>5. ClocksOK'
  BY <1>1, <1>2, <1>3, <1>4 DEF ClocksOK
<1>6. KeysOK'
  BY <1>2 DEF KeysOK, KeyOK, Pending, KeyOf, At
<1>7. QED BY <1>5, <1>6

\* A request that counts itself finds its key alive, or not made yet.
LEMMA IncrFinds ==
  ASSUME TypeOK, ClocksOK, KeysOK, NEW w \in Workers, pc[w] = "incr"
  PROVE  Live(At(counter, KeyOf(w)).until)
<1> DEFINE i == KeyOf(w)[3]  u == At(counter, KeyOf(w)).until
<1>1. KeyOf(w) \in Keys /\ i = job[w].at \div Window /\ job[w].at \in Nat /\ i \in Nat /\ u \in Nat
  BY KeyType, AtTypes
<1>2. /\ now \in Nat /\ Window \in Nat /\ MaxDelay \in Nat /\ MaxDelay <= Window
      /\ now <= job[w].at + MaxDelay
  BY PortalAssumption DEF TypeOK, ClocksOK
<1>3. job[w].at < i * Window + Window
  BY <1>1, WindowFacts
<1>4. i * Window \in Nat /\ (i + 2) * Window = i * Window + Window + Window
  <2> HIDE DEF i
  <2>1. QED BY <1>1, <1>2
<1>5. now < (i + 2) * Window
  <2> HIDE DEF i
  <2>1. QED BY <1>1, <1>2, <1>3, <1>4
<1>6. u = 0 \/ u >= (i + 2) * Window
  BY <1>1 DEF KeysOK, KeyOK, Keys
<1>7. (i + 2) * Window \in Nat
  BY <1>2, <1>4
<1>8. QED
  <2> HIDE DEF i
  <2>1. u = 0 \/ now < u
    BY <1>1, <1>2, <1>5, <1>6, <1>7
  <2>2. QED BY <2>1 DEF Live

\* So it adds one to the key's count, and goes on as that count says.
LEMMA IncrFacts ==
  ASSUME TypeOK, ClocksOK, KeysOK, NEW w \in Workers, Incr(w)
  PROVE  LET k == KeyOf(w)
             old == At(counter, k)
         IN  /\ pc[w] = "incr" /\ k \in Keys
             /\ old.count + 1 <= MaxCount
             /\ At(counter', k).count = old.count + 1
             /\ At(counter', k).until = old.until
             /\ \A m \in Keys : m # k => At(counter', m) = At(counter, m)
             /\ \/ old.count = 0 /\ Goto(w, "expire") /\ admitted' = admitted
                \/ old.count + 1 \in 2..Limit /\ Admit(w)
                \/ Goto(w, "idle") /\ admitted' = admitted
<1> DEFINE k == KeyOf(w)  old == At(counter, k)
<1>1. /\ k \in Keys /\ old \in [count: Nat, until: Nat] /\ old.count \in Nat /\ pc[w] = "incr"
      /\ Live(old.until)
  BY KeyType, AtTypes, IncrFinds DEF Incr
<1>2. [old EXCEPT !.count = @ + 1] \in [count: Nat, until: Nat]
  BY <1>1
<1>3. counter' = Put(counter, k, [old EXCEPT !.count = @ + 1])
  BY <1>1 DEF Incr
<1>4. /\ At(counter', k) = [old EXCEPT !.count = @ + 1]
      /\ \A m \in Keys : m # k => At(counter', m) = At(counter, m)
  <2>1. [old EXCEPT !.count = @ + 1] \in Entry
    BY <1>2 DEF Entry
  <2>2. QED BY <1>1, <1>3, <2>1, PutFacts, Tables
<1>5. [old EXCEPT !.count = @ + 1].count = old.count + 1 /\ [old EXCEPT !.count = @ + 1].until = old.until
  BY <1>1
<1>6. old.count + 1 <= MaxCount
  BY <1>1, <1>5 DEF Incr
<1>7. \/ old.count + 1 = 1 /\ Goto(w, "expire") /\ admitted' = admitted
      \/ old.count + 1 \in 2..Limit /\ Admit(w)
      \/ Goto(w, "idle") /\ admitted' = admitted
  BY <1>1, <1>5 DEF Incr
<1>8. old.count + 1 = 1 => old.count = 0
  BY <1>1
<1>9. QED BY <1>1, <1>4, <1>5, <1>6, <1>7, <1>8

\* An admission counts under its key.
LEMMA AdmitFacts ==
  ASSUME TypeOK, NEW w \in Workers, Admit(w)
  PROVE  /\ Goto(w, AfterLimit(w)) /\ AfterLimit(w) \in {"issue", "query"}
         /\ At(admitted', KeyOf(w)) = At(admitted, KeyOf(w)) + 1
         /\ \A m \in Keys : m # KeyOf(w) => At(admitted', m) = At(admitted, m)
<1>1. KeyOf(w) \in Keys /\ At(admitted, KeyOf(w)) + 1 \in Nat
  BY KeyType, AtTypes
<1>2. admitted \in Table(Nat)
  BY Tables
<1>3. admitted' = Put(admitted, KeyOf(w), At(admitted, KeyOf(w)) + 1)
  BY DEF Admit
<1>4. /\ At(admitted', KeyOf(w)) = At(admitted, KeyOf(w)) + 1
      /\ \A m \in Keys : m # KeyOf(w) => At(admitted', m) = At(admitted, m)
  BY <1>1, <1>2, <1>3, PutFacts
<1>5. QED BY <1>4 DEF Admit, AfterLimit

LEMMA KeysIncr ==
  ASSUME TypeOK, ClocksOK, KeysOK, NEW w \in Workers, Incr(w)
  PROVE  ClocksOK' /\ KeysOK'
<1> DEFINE k == KeyOf(w)
<1> DEFINE count == At(counter, k).count
<1>1. /\ pc[w] = "incr" /\ k \in Keys
      /\ At(counter', k).count = count + 1 /\ At(counter', k).until = At(counter, k).until
      /\ \A m \in Keys : m # k => At(counter', m) = At(counter, m)
  BY IncrFacts
<1>2. now' = now /\ now \in Nat /\ Limit \in Nat \ {0}
  BY PortalAssumption DEF Incr, TypeOK
<1>3. PICK to \in PCs, j \in Job :
        /\ Begin(w, to, j) /\ (to # "idle" => j = job[w])
        /\ \/ count = 0 /\ to = "expire" /\ admitted' = admitted
           \/ count + 1 \in 2..Limit /\ Admit(w) /\ to \in {"issue", "query"}
           \/ to = "idle" /\ admitted' = admitted
  <2>1. PICK to \in PCs :
          /\ Goto(w, to)
          /\ \/ count = 0 /\ to = "expire" /\ admitted' = admitted
             \/ count + 1 \in 2..Limit /\ Admit(w) /\ to \in {"issue", "query"}
             \/ to = "idle" /\ admitted' = admitted
    <3>1. \/ count = 0 /\ Goto(w, "expire") /\ admitted' = admitted
          \/ count + 1 \in 2..Limit /\ Admit(w)
          \/ Goto(w, "idle") /\ admitted' = admitted
      BY IncrFacts
    <3>2. Admit(w) => Goto(w, AfterLimit(w)) /\ AfterLimit(w) \in {"issue", "query"}
      BY AdmitFacts
    <3>3. QED BY <3>1, <3>2 DEF PCs
  <2>2. QED BY <2>1, GotoBegins
<1>4. /\ pc'[w] = to /\ job'[w] = j
      /\ \A v \in Workers : v # w => pc'[v] = pc[v] /\ job'[v] = job[v]
  BY <1>3, BeginFacts
<1>5. ClocksOK'
  BY <1>1, <1>2, <1>3, <1>4 DEF ClocksOK
<1>6. \A v \in Workers, m \in Keys : v # w /\ Pending(v, m)' => Pending(v, m)
  BY <1>4 DEF Pending, KeyOf
<1>7. \A m \in Keys : Pending(w, m)' => to = "expire" /\ m = k
  BY <1>3, <1>4 DEF Pending, KeyOf
<1>8. ASSUME NEW m \in Keys, m # k
      PROVE  KeyOK(m)'
  <2>1. At(admitted', m) = At(admitted, m)
    BY <1>3, <1>8, AdmitFacts
  <2>2. \A v \in Workers : Pending(v, m)' => Pending(v, m)
    BY <1>6, <1>7, <1>8
  <2>3. KeyOK(m)
    BY DEF KeysOK, Keys
  <2>4. QED BY <1>1, <1>8, <2>1, <2>2, <2>3 DEF KeyOK, At
<1>9. KeyOK(k)
  BY <1>1 DEF KeysOK, Keys
<1>10. count \in Nat /\ At(admitted, k) \in Nat
  BY <1>1, AtTypes
<1>11. ASSUME NEW m, m = k
       PROVE  KeyOK(m)'
  <2>1. CASE count = 0 /\ to = "expire" /\ admitted' = admitted
    <3>1. \A v \in Workers : ~Pending(v, k)
      BY <1>9, <1>10, <2>1 DEF KeyOK
    <3>2. \A v \in Workers : Pending(v, m)' => v = w
      BY <1>1, <1>6, <1>11, <3>1
    <3>3. At(admitted, k) = 0
      BY <1>9, <1>10, <2>1 DEF KeyOK
    <3>4. At(counter', m).count = 1 /\ At(counter', m).until = At(counter, m).until
          /\ At(admitted', m) = 0
      BY <1>1, <1>11, <2>1, <3>3
    <3>5. QED BY <1>2, <1>9, <1>11, <3>2, <3>4 DEF KeyOK, At
  <2>2. CASE count + 1 \in 2..Limit /\ Admit(w) /\ to \in {"issue", "query"}
    <3>1. At(admitted', m) = At(admitted, m) + 1
      BY <1>11, <2>2, AdmitFacts
    <3>2. \A v \in Workers : Pending(v, m)' => Pending(v, m)
      BY <1>1, <1>6, <1>7, <1>11, <2>2
    <3>3. /\ At(admitted, m) + 1 <= count + 1 /\ At(admitted, m) + 1 <= Limit
          /\ (\E v \in Workers : Pending(v, m)) =>
               At(admitted, m) + 1 < count + 1 /\ At(admitted, m) + 1 < Limit
      BY <1>2, <1>9, <1>10, <1>11, <2>2 DEF KeyOK
    <3>4. At(counter', m).count = count + 1 /\ At(counter', m).until = At(counter, m).until
      BY <1>1, <1>11
    <3>5. QED BY <1>9, <1>11, <3>1, <3>2, <3>3, <3>4 DEF KeyOK, At
  <2>3. CASE to = "idle" /\ admitted' = admitted
    <3>1. \A v \in Workers : Pending(v, m)' => Pending(v, m)
      BY <1>1, <1>6, <1>7, <1>11, <2>3
    <3>2. At(counter', m).count = count + 1 /\ At(counter', m).until = At(counter, m).until
      BY <1>1, <1>11
    <3>3. QED BY <1>9, <1>10, <1>11, <2>3, <3>1, <3>2 DEF KeyOK, At
  <2>4. QED BY <1>3, <2>1, <2>2, <2>3
<1>12. KeysOK'
  <2>1. ASSUME NEW m \in Keys PROVE KeyOK(m)'
    BY <1>8, <1>11
  <2>2. QED BY <2>1 DEF KeysOK, Keys
<1>13. QED BY <1>5, <1>12

\* The lifetime outlasts the window after the one named.
LEMMA KeysExpire ==
  ASSUME TypeOK, ClocksOK, KeysOK, NEW w \in Workers, Expire(w)
  PROVE  ClocksOK' /\ KeysOK'
<1> DEFINE k == KeyOf(w)
<1> DEFINE new == [At(counter, k) EXCEPT !.until = now + KeyTTL]
<1>0. /\ k \in Keys /\ k[3] = job[w].at \div Window /\ job[w].at \in Nat /\ k[3] \in Nat
      /\ At(counter, k) \in [count: Nat, until: Nat] /\ At(counter, k).count \in Nat
      /\ At(admitted, k) \in Nat
  BY KeyType, AtTypes
<1>1. /\ pc[w] = "expire" /\ Admit(w) /\ now' = now /\ now \in Nat /\ Window \in Nat
      /\ Limit \in Nat /\ now + KeyTTL \in Nat /\ now + KeyTTL = now + Window + Window
  BY PortalAssumption DEF Expire, TypeOK, KeyTTL
<1>2. new \in [count: Nat, until: Nat] /\ new.count = At(counter, k).count /\ new.until = now + KeyTTL
  BY <1>0, <1>1
<1>3. /\ At(counter', k) = new
      /\ \A m \in Keys : m # k => At(counter', m) = At(counter, m)
  <2>1. counter' = Put(counter, k, new)
    BY DEF Expire
  <2>2. new \in Entry
    BY <1>2 DEF Entry
  <2>3. QED BY <1>0, <2>1, <2>2, PutFacts, Tables
<1>4. PICK to \in {"issue", "query"}, j \in Job : Begin(w, to, j)
  BY <1>1, AdmitFacts, GotoBegins
<1>5. /\ pc'[w] = to /\ job'[w] = j
      /\ \A v \in Workers : v # w => pc'[v] = pc[v] /\ job'[v] = job[v]
  BY <1>4, BeginFacts
<1>6. ClocksOK'
  BY <1>1, <1>4, <1>5 DEF ClocksOK
<1>7. \A v \in Workers, m \in Keys : Pending(v, m)' => v # w /\ Pending(v, m)
  BY <1>4, <1>5 DEF Pending, KeyOf
<1>8. Pending(w, k)
  BY <1>1 DEF Pending
<1>9. KeyOK(k)
  BY <1>0 DEF KeysOK, Keys
<1>10. ASSUME NEW m \in Keys, m # k
       PROVE  KeyOK(m)'
  <2>1. At(admitted', m) = At(admitted, m)
    BY <1>1, <1>10, AdmitFacts
  <2>2. KeyOK(m)
    BY DEF KeysOK, Keys
  <2>3. QED BY <1>3, <1>7, <1>10, <2>1, <2>2 DEF KeyOK, At
<1>11. now + KeyTTL >= (k[3] + 2) * Window
  <2> DEFINE i == k[3]
  <2>1. i * Window <= job[w].at /\ job[w].at <= now
    BY <1>0, <1>1, WindowFacts DEF ClocksOK
  <2>2. i \in Nat
    BY <1>0
  <2> HIDE DEF i
  <2>3. i * Window \in Nat /\ (i + 2) * Window = i * Window + Window + Window
    BY <1>1, <2>2
  <2>4. now + KeyTTL >= (i + 2) * Window
    BY <1>0, <1>1, <2>1, <2>3
  <2>5. QED BY <2>4 DEF i
<1>12. ASSUME NEW m, m = k
       PROVE  KeyOK(m)'
  <2>1. \A v \in Workers : ~Pending(v, m)'
    BY <1>0, <1>7, <1>8, <1>9, <1>12 DEF KeyOK
  <2>2. At(admitted', m) = At(admitted, k) + 1
    BY <1>1, <1>12, AdmitFacts
  <2>3. At(admitted, k) < At(counter, k).count /\ At(admitted, k) < Limit
    BY <1>8, <1>9 DEF KeyOK
  <2>4. At(admitted', m) <= At(counter', m).count /\ At(admitted', m) <= Limit
    BY <1>0, <1>1, <1>2, <1>3, <1>12, <2>2, <2>3
  <2>5. At(counter', m).until >= (m[3] + 2) * Window
    BY <1>2, <1>3, <1>11, <1>12
  <2>6. QED BY <2>1, <2>4, <2>5 DEF KeyOK, At
<1>13. KeysOK'
  <2>1. ASSUME NEW m \in Keys PROVE KeyOK(m)'
    BY <1>10, <1>12
  <2>2. QED BY <2>1 DEF KeysOK, Keys
<1>14. QED BY <1>6, <1>13
-----------------------------------------------------------------------------
\* Where a step leads to, and from where.
Leads(w, to, j) ==
  /\ to = "expire" => Incr(w)
  /\ to = "incr" => /\ pc[w] = "clock" /\ j.at = now
                    /\ j.kind = job[w].kind /\ j.captcha = job[w].captcha
  /\ to = "clock" => j.kind = "mint" \/ (VerifyChallenge(w) /\ j = job[w])
  /\ to \in Gated => j.captcha \in 1..issued \/ (pc[w] \in Gated /\ j = job[w])
  /\ to # "set_lookup"
  /\ to = "set_download" => SetLookup(w) /\ j = job[w]
  /\ to = "log_flip" => SetDownload(w) /\ j = job[w]
  /\ j.late =>
       \/ j.kind \in shut /\ to = (IF j.kind = "download" THEN "gate_lookup_first" ELSE "gate_lookup")
       \/ /\ job[w].late /\ j.kind = job[w].kind
          /\ pc[w] = "gate_lookup_first" => to = "gate_download"
          /\ pc[w] = "gate_download" => downloadFlag # "0"
          /\ pc[w] = "gate_lookup" => lookupFlag # "0"

LEMMA StepLeads ==
  ASSUME TypeOK, NEW w \in Workers, Step(w), ~StartUpdate(w)
  PROVE  \E to \in PCs, j \in Job : Begin(w, to, j) /\ Leads(w, to, j)
<1>0. job[w] \in Job /\ NoJob \in Job /\ ~NoJob.late /\ pc[w] \in PCs
  BY NoJobType DEF TypeOK
<1>1. ASSUME NEW to \in PCs, Goto(w, to),
             to = "expire" => Incr(w),
             to # "incr",
             to = "clock" => VerifyChallenge(w),
             to \in Gated => pc[w] \in Gated,
             to # "set_lookup",
             to = "set_download" => SetLookup(w),
             to = "log_flip" => SetDownload(w),
             pc[w] = "gate_lookup_first" /\ to # "idle" => to = "gate_download",
             pc[w] = "gate_download" /\ to # "idle" => downloadFlag # "0",
             pc[w] = "gate_lookup" /\ to # "idle" => lookupFlag # "0"
      PROVE  \E j \in Job : Begin(w, to, j) /\ Leads(w, to, j)
  <2>1. PICK j \in Job : Begin(w, to, j) /\ j = (IF to = "idle" THEN NoJob ELSE job[w])
    BY <1>1, GotoBegins
  <2>2. CASE to = "idle"
    <3>1. ~j.late
      BY <1>0, <2>1, <2>2
    <3>2. QED BY <2>1, <2>2, <3>1 DEF Leads, Gated
  <2>3. CASE to # "idle"
    <3>1. j = job[w]
      BY <2>1, <2>3
    <3>2. QED BY <1>1, <2>1, <2>3, <3>1 DEF Leads
  <2>4. QED BY <2>2, <2>3
<1>2. CASE \/ GateLookupFirst(w) \/ GateDownload(w) \/ GateLookup(w)
  <2>1. PICK to \in {"gate_download", "gate_lookup", "captcha", "idle"} :
          /\ Goto(w, to) /\ pc[w] \in Gated
          /\ pc[w] = "gate_lookup_first" /\ to # "idle" => to = "gate_download"
          /\ pc[w] = "gate_download" /\ to # "idle" => downloadFlag # "0"
          /\ pc[w] = "gate_lookup" /\ to # "idle" => lookupFlag # "0"
    BY <1>2 DEF GateLookupFirst, GateDownload, GateLookup, Open, Gated
  <2>2. QED BY <1>1, <2>1 DEF PCs, Gated
<1>3. CASE Query(w) \/ IssueChallenge(w) \/ LogFlip(w) \/ Abandon(w)
  <2>1. Goto(w, "idle")
    BY <1>3 DEF Query, IssueChallenge, LogFlip, Abandon
  <2>2. QED BY <1>1, <2>1 DEF PCs, Gated
<1>4. CASE VerifyChallenge(w)
  <2>1. PICK to \in {"clock", "idle"} : Goto(w, to)
    BY <1>4 DEF VerifyChallenge
  <2>2. pc[w] = "captcha"
    BY <1>4 DEF VerifyChallenge
  <2>3. QED BY <1>1, <1>4, <2>1, <2>2 DEF PCs, Gated
<1>5. CASE SetLookup(w) \/ SetDownload(w)
  <2>1. PICK to \in {"set_download", "log_flip"} :
          Goto(w, to) /\ (to = "set_download" => SetLookup(w)) /\ (to = "log_flip" => SetDownload(w))
    BY <1>5 DEF SetLookup, SetDownload
  <2>2. pc[w] \in {"set_lookup", "set_download"}
    BY <1>5 DEF SetLookup, SetDownload
  <2>3. QED BY <1>1, <2>1, <2>2 DEF PCs, Gated
<1>6. CASE Incr(w) \/ Expire(w)
  <2>1. PICK to \in {"expire", "issue", "query", "idle"} : Goto(w, to) /\ (to = "expire" => Incr(w))
    BY <1>6 DEF Incr, Expire, Admit, AfterLimit
  <2>2. pc[w] \in {"incr", "expire"}
    BY <1>6 DEF Incr, Expire
  <2>3. QED BY <1>1, <2>1, <2>2 DEF PCs, Gated
<1>7. CASE StartRequest(w)
  <2>1. PICK k \in Kinds, c \in Clients, n \in 1..issued, right \in BOOLEAN :
          Begin(w, IF k = "download" THEN "gate_lookup_first" ELSE "gate_lookup",
                [NoJob EXCEPT !.kind = k, !.client = c, !.captcha = n, !.right = right,
                              !.late = k \in shut])
    BY <1>7 DEF StartRequest
  <2>2. n \in 0..MaxCaptchas /\ k \in {"search", "download", "shipment"}
    BY PortalAssumption DEF TypeOK
  <2> DEFINE j == [NoJob EXCEPT !.kind = k, !.client = c, !.captcha = n, !.right = right,
                                !.late = k \in shut]
             to == IF k = "download" THEN "gate_lookup_first" ELSE "gate_lookup"
  <2>3. j \in Job
    <3>1. (k \in shut) \in BOOLEAN
      OBVIOUS
    <3>2. QED BY <2>2, <3>1, RequestJobs, Zenon
  <2>4. j.kind = k /\ j.captcha = n /\ (j.late => k \in shut)
    <3> DEFINE late == k \in shut
    <3> HIDE DEF late
    <3>1. [NoJob EXCEPT !.kind = k, !.client = c, !.captcha = n, !.right = right,
                        !.late = late].late = late
      BY <1>0 DEF Job
    <3>2. [NoJob EXCEPT !.kind = k, !.client = c, !.captcha = n, !.right = right,
                        !.late = late].kind = k
      BY <1>0 DEF Job
    <3>4. [NoJob EXCEPT !.kind = k, !.client = c, !.captcha = n, !.right = right,
                        !.late = late].captcha = n
      BY <1>0 DEF Job
    <3>3. QED BY <3>1, <3>2, <3>4, Zenon DEF late
  <2>5. Begin(w, to, j)
    BY <2>1, Zenon
  <2>6. to \in {"gate_lookup_first", "gate_lookup"} /\ to = (IF k = "download" THEN "gate_lookup_first" ELSE "gate_lookup")
    OBVIOUS
  <2> HIDE DEF j, to
  <2>7. Leads(w, to, j)
    BY <2>4, <2>6 DEF Leads
  <2>8. QED BY <2>3, <2>5, <2>6, <2>7 DEF PCs
<1>8. CASE StartMint(w)
  <2>1. PICK c \in Clients : Begin(w, "clock", [NoJob EXCEPT !.kind = "mint", !.client = c])
    BY <1>8 DEF StartMint
  <2> DEFINE j == [NoJob EXCEPT !.kind = "mint", !.client = c]
  <2>2. j \in Job /\ ~j.late /\ j.kind = "mint"
    BY <1>0, NoJobType DEF Job
  <2> HIDE DEF j
  <2>3. Leads(w, "clock", j)
    BY <2>2 DEF Leads, Gated
  <2>4. Begin(w, "clock", j)
    BY <2>1 DEF j
  <2>5. QED BY <2>2, <2>3, <2>4 DEF PCs
<1>9. CASE ReadClock(w)
  <2> DEFINE j == [job[w] EXCEPT !.at = now]
  <2>1. Begin(w, "incr", j) /\ pc[w] = "clock"
    BY <1>9 DEF ReadClock
  <2>2. /\ j \in Job /\ j.at = now /\ j.kind = job[w].kind /\ j.captcha = job[w].captcha
        /\ j.late = job[w].late
    BY <1>0 DEF Job, TypeOK
  <2>3. Leads(w, "incr", j)
    BY <2>1, <2>2 DEF Leads, Gated
  <2>4. QED BY <2>1, <2>2, <2>3 DEF PCs
<1>10. QED BY <1>2, <1>3, <1>4, <1>5, <1>6, <1>7, <1>8, <1>9 DEF Step

LEMMA KeysStep ==
  ASSUME TypeOK, ClocksOK, KeysOK, NEW w \in Workers, Step(w)
  PROVE  ClocksOK' /\ KeysOK'
<1>1. CASE Incr(w) \/ Expire(w) \/ StartUpdate(w)
  BY <1>1, KeysIncr, KeysExpire, KeysStartUpdate
<1>2. CASE ~(Incr(w) \/ Expire(w) \/ StartUpdate(w))
  <2>1. PICK to \in PCs, j \in Job : Begin(w, to, j) /\ Leads(w, to, j)
    BY <1>2, StepLeads
  <2>2. UNCHANGED <<now, counter, admitted>>
    BY <1>2 DEF Step, StartRequest, GateLookupFirst, GateDownload, GateLookup, VerifyChallenge,
      Query, StartMint, IssueChallenge, ReadClock, SetLookup, SetDownload, LogFlip, Abandon, quotas
  <2>3. QED BY <1>2, <2>1, <2>2, KeysMoved DEF Leads
<1>3. QED BY <1>1, <1>2
-----------------------------------------------------------------------------
(* The feature gates. *)

\* A step that writes no gate: a late request goes no further than the read of
\* its key.
LEMMA GatesMoved ==
  ASSUME TypeOK, GatesOK, NEW w \in Workers, NEW to \in PCs, NEW j \in Job,
         Begin(w, to, j), Leads(w, to, j), to \notin {"set_download", "log_flip"},
         UNCHANGED <<lookupFlag, downloadFlag, shut>>
  PROVE  GatesOK'
<1>1. /\ pc'[w] = to /\ job'[w] = j
      /\ \A v \in Workers : v # w => pc'[v] = pc[v] /\ job'[v] = job[v]
  BY BeginFacts
<1>2. ~Updating(w)' /\ \A v \in Workers : v # w => (Updating(v)' <=> Updating(v))
  BY <1>1 DEF Updating, Leads
<1>3. \A v \in Workers : Updating(v)' => v # w /\ Updating(v)
  BY <1>2
<1>4. j.late =>
        /\ j.kind \in shut
        /\ to \in (IF j.kind = "download" THEN {"gate_lookup_first", "gate_download"}
                   ELSE {"gate_lookup"})
  <2>1. j.kind \in {"search", "download", "shipment", "mint", "flip"}
        /\ shut \subseteq {"search", "download", "shipment"}
    BY DEF Job, TypeOK
  <2>2. CASE j.kind \in shut /\ to = (IF j.kind = "download" THEN "gate_lookup_first" ELSE "gate_lookup")
    BY <2>2
  <2>3. CASE /\ job[w].late /\ j.kind = job[w].kind
             /\ pc[w] = "gate_lookup_first" => to = "gate_download"
             /\ pc[w] = "gate_download" => downloadFlag # "0"
             /\ pc[w] = "gate_lookup" => lookupFlag # "0"
    <3>1. /\ job[w].kind \in shut
          /\ pc[w] \in (IF job[w].kind = "download" THEN {"gate_lookup_first", "gate_download"}
                        ELSE {"gate_lookup"})
      BY <2>3 DEF GatesOK
    <3>2. CASE job[w].kind = "download"
      BY <2>3, <3>1, <3>2 DEF GatesOK
    <3>3. CASE job[w].kind # "download"
      <4>1. job[w].kind \in shut \cap {"search", "shipment"}
        BY <2>1, <2>3, <3>1, <3>3
      <4>2. lookupFlag = "0"
        BY <4>1 DEF GatesOK
      <4>3. QED BY <2>3, <3>1, <3>3, <4>2
    <3>4. QED BY <3>2, <3>3
  <2>4. QED BY <2>2, <2>3 DEF Leads
<1>5. ASSUME NEW v \in Workers, job'[v].late
      PROVE  /\ job'[v].kind \in shut
             /\ pc'[v] \in (IF job'[v].kind = "download" THEN {"gate_lookup_first", "gate_download"}
                            ELSE {"gate_lookup"})
  BY <1>1, <1>4, <1>5 DEF GatesOK
<1>6. shut # {} => \A v \in Workers : ~Updating(v)'
  BY <1>3 DEF GatesOK
<1>7. ASSUME NEW u \in Workers, Updating(u)', job'[u].alone
      PROVE  /\ \A v \in Workers : Updating(v)' => v = u
             /\ pc'[u] \in {"set_download", "log_flip"} => lookupFlag = Flag(job'[u].lookup)
             /\ pc'[u] = "log_flip" => downloadFlag = Flag(job'[u].download)
  <2>1. u # w /\ Updating(u) /\ job'[u] = job[u] /\ pc'[u] = pc[u]
    BY <1>1, <1>3, <1>7
  <2>2. QED BY <1>3, <1>7, <2>1 DEF GatesOK
<1>8. QED BY <1>5, <1>6, <1>7 DEF GatesOK, Updating

LEMMA GatesStep ==
  ASSUME TypeOK, GatesOK, NEW w \in Workers, Step(w)
  PROVE  GatesOK'
<1>0. job \in [Workers -> Job] /\ \A v \in Workers : job[v].lookup \in BOOLEAN /\ job[v].download \in BOOLEAN
  BY DEF TypeOK, Job
<1>1. CASE StartUpdate(w)
  <2>1. \A v \in Workers : ~job'[v].late
    BY <1>1, StartUpdateFacts
  <2>2. ASSUME NEW u \in Workers, Updating(u)', job'[u].alone
        PROVE  /\ u = w /\ pc'[u] = "set_lookup"
               /\ \A v \in Workers : Updating(v)' => v = u
    BY <1>1, <2>2, StartUpdateFacts DEF Updating
  <2>3. QED BY <1>1, <2>1, <2>2, StartUpdateFacts DEF GatesOK, Updating
<1>2. CASE SetLookup(w) \/ SetDownload(w)
  <2>1. PICK to \in {"set_download", "log_flip"} :
          /\ Goto(w, to)
          /\ to = "set_download" => lookupFlag' = Flag(job[w].lookup) /\ downloadFlag' = downloadFlag
          /\ to = "log_flip" => /\ pc[w] = "set_download" /\ lookupFlag' = lookupFlag
                                /\ downloadFlag' = Flag(job[w].download)
    BY <1>2 DEF SetLookup, SetDownload
  <2>2. Updating(w) /\ shut' = shut
    BY <1>2 DEF SetLookup, SetDownload, Updating, operator
  <2>3. shut = {} /\ \A v \in Workers : ~job[v].late
    BY <2>2 DEF GatesOK
  <2>4. PICK j \in Job : Begin(w, to, j) /\ j = job[w]
    BY <2>1, GotoBegins
  <2>5. /\ pc'[w] = to /\ job'[w] = job[w]
        /\ \A v \in Workers : v # w => pc'[v] = pc[v] /\ job'[v] = job[v]
    BY <2>4, BeginFacts
  <2>6. \A v \in Workers : job'[v] = job[v] /\ (Updating(v)' <=> Updating(v))
    BY <2>2, <2>5 DEF Updating
  <2>7. ASSUME NEW u \in Workers, Updating(u)', job'[u].alone
        PROVE  /\ \A v \in Workers : Updating(v)' => v = u
               /\ pc'[u] \in {"set_download", "log_flip"} => lookupFlag' = Flag(job'[u].lookup)
               /\ pc'[u] = "log_flip" => downloadFlag' = Flag(job'[u].download)
    <3>1. u = w /\ \A v \in Workers : Updating(v) => v = u
      BY <2>2, <2>6, <2>7 DEF GatesOK
    <3>2. pc[w] = "set_download" => lookupFlag = Flag(job[w].lookup)
      BY <2>6, <2>7, <3>1 DEF GatesOK
    <3>3. QED BY <2>1, <2>5, <2>6, <3>1, <3>2
  <2>8. QED BY <2>2, <2>3, <2>6, <2>7 DEF GatesOK, Updating
<1>3. CASE LogFlip(w)
  <2>1. Updating(w) /\ Goto(w, "idle") /\ UNCHANGED <<lookupFlag, downloadFlag>> /\ pc[w] = "log_flip"
    BY <1>3 DEF LogFlip, Updating, gates
  <2>2. \A v \in Workers : ~job[v].late
    BY <2>1 DEF GatesOK
  <2>3. PICK j \in Job : Begin(w, "idle", j) /\ j = NoJob
    BY <2>1, GotoBegins
  <2>4. /\ pc'[w] = "idle" /\ ~job'[w].late
        /\ \A v \in Workers : v # w => pc'[v] = pc[v] /\ job'[v] = job[v]
    BY <2>3, BeginFacts, NoJobType
  <2>5. \A v \in Workers : ~job'[v].late /\ (Updating(v)' => v # w /\ Updating(v))
    BY <2>2, <2>4 DEF Updating
  <2>6. shut' # {} => job[w].alone
    BY <1>3 DEF LogFlip
  <2>7. job[w].alone => /\ \A v \in Workers : Updating(v) => v = w
                        /\ lookupFlag = Flag(job[w].lookup) /\ downloadFlag = Flag(job[w].download)
    BY <2>1 DEF GatesOK
  <2>8. shut' # {} => \A v \in Workers : ~Updating(v)'
    BY <2>5, <2>6, <2>7
  <2>9. /\ shut' \cap {"search", "shipment"} # {} => ~job[w].lookup
        /\ "download" \in shut' => ~job[w].download
    BY <1>0, <1>3 DEF LogFlip
  <2>10. /\ shut' \cap {"search", "shipment"} # {} => lookupFlag' = "0"
         /\ "download" \in shut' => downloadFlag' = "0"
    BY <2>1, <2>6, <2>7, <2>9 DEF Flag
  <2>11. ASSUME NEW u \in Workers, Updating(u)', job'[u].alone
         PROVE  /\ \A v \in Workers : Updating(v)' => v = u
                /\ pc'[u] \in {"set_download", "log_flip"} => lookupFlag' = Flag(job'[u].lookup)
                /\ pc'[u] = "log_flip" => downloadFlag' = Flag(job'[u].download)
    <3>1. u # w /\ Updating(u) /\ job'[u] = job[u] /\ pc'[u] = pc[u]
      BY <2>4, <2>5, <2>11
    <3>2. QED BY <2>1, <2>5, <2>11, <3>1 DEF GatesOK
  <2>12. QED BY <2>5, <2>8, <2>10, <2>11 DEF GatesOK, Updating
<1>4. CASE ~(StartUpdate(w) \/ SetLookup(w) \/ SetDownload(w) \/ LogFlip(w))
  <2>1. PICK to \in PCs, j \in Job : Begin(w, to, j) /\ Leads(w, to, j)
    BY <1>4, StepLeads
  <2>2. UNCHANGED <<lookupFlag, downloadFlag, shut>>
    BY <1>4 DEF Step, StartRequest, GateLookupFirst, GateDownload, GateLookup, VerifyChallenge,
      Query, StartMint, IssueChallenge, ReadClock, Incr, Expire, Abandon, gates, operator
  <2>3. to \notin {"set_download", "log_flip"}
    BY <1>4, <2>1 DEF Leads
  <2>4. QED BY <2>1, <2>2, <2>3, GatesMoved
<1>5. QED BY <1>1, <1>2, <1>3, <1>4
-----------------------------------------------------------------------------
(* The CAPTCHA and the quota it pays for. *)

LEMMA CaptchaSets ==
  ASSUME NEW S, S \subseteq Captchas
  PROVE  IsFiniteSet(S) /\ Cardinality(S) \in Nat
<1>1. MaxCaptchas \in Int /\ 1 \in Int
  BY PortalAssumption
<1>2. IsFiniteSet(Captchas)
  BY <1>1, FS_Interval DEF Captchas
<1>3. QED BY <1>2, FS_Subset, FS_CardinalityType

LEMMA LandedFinite ==
  /\ IsFiniteSet(Landed) /\ Cardinality(Landed) \in Nat
  /\ IsFiniteSet(Landed') /\ Cardinality(Landed') \in Nat
  /\ IsFiniteSet({n \in Captchas : passed[n] > 0})
<1>1. Landed \subseteq Captchas /\ Landed' \subseteq Captchas
      /\ {n \in Captchas : passed[n] > 0} \subseteq Captchas
  BY DEF Landed
<1>2. QED BY <1>1, CaptchaSets

\* The quota is what the keys count.
LEMMA SpentUnits ==
  ASSUME NEW u
  PROVE  u \in QuotaSpent <=>
           /\ u \in (Scopes \ {"captcha"}) \X Clients \X Windows \X (1..MaxCount)
           /\ <<u[1], u[2], u[3]>> \in Keys
           /\ u[4] <= At(counter, <<u[1], u[2], u[3]>>).count
BY DEF QuotaSpent, Keys, At

\* A step that counts nothing, and takes no challenge out of Landed.
LEMMA QuotaKept ==
  ASSUME TypeOK, TypeOK', QuotaOK,
         \A k \in Keys : At(counter', k).count = At(counter, k).count,
         Landed \subseteq Landed'
  PROVE  QuotaOK'
<1>1. QuotaSpent' = QuotaSpent
  <2>1. ASSUME NEW u PROVE u \in QuotaSpent' <=> u \in QuotaSpent
    <3>1. u \in QuotaSpent' <=>
           /\ u \in (Scopes \ {"captcha"}) \X Clients \X Windows \X (1..MaxCount)
           /\ <<u[1], u[2], u[3]>> \in Keys
           /\ u[4] <= At(counter', <<u[1], u[2], u[3]>>).count
      BY DEF QuotaSpent, Keys, At
    <3>2. QED BY <3>1, SpentUnits
  <2>2. QED BY <2>1
<1>2. IsFiniteSet(Landed') /\ Cardinality(Landed) <= Cardinality(Landed') /\ Cardinality(Landed') \in Nat
  BY LandedFinite, FS_Subset
<1>3. Cardinality(QuotaSpent) \in Nat /\ Cardinality(Landed) \in Nat
  BY LandedFinite, FS_CardinalityType DEF QuotaOK
<1>4. QED BY <1>1, <1>2, <1>3 DEF QuotaOK, Keys, At

\* A step that verifies no challenge.
LEMMA FlightsMoved ==
  ASSUME TypeOK, FlightsOK, NEW w \in Workers, NEW to, NEW j, Begin(w, to, j),
         Leads(w, to, j), ~VerifyChallenge(w),
         issued' \in Nat, issued <= issued', passed' = passed
  PROVE  /\ FlightsOK'
         /\ \A v \in Workers : Flying(v)' => Flying(v) /\ job'[v].captcha = job[v].captcha
         /\ Landed \subseteq Landed'
<1>1. /\ pc'[w] = to /\ job'[w] = j
      /\ \A v \in Workers : v # w => pc'[v] = pc[v] /\ job'[v] = job[v]
  BY BeginFacts
<1>2. \A v \in Workers : Flying(v)' => Flying(v) /\ job'[v].captcha = job[v].captcha
  <2>1. Flying(w)' => Flying(w) /\ job'[w].captcha = job[w].captcha
    BY <1>1 DEF Flying, Leads
  <2>2. QED BY <1>1, <2>1 DEF Flying
<1>3. ASSUME NEW v \in Workers, pc'[v] \in Gated
      PROVE  job'[v].captcha \in 1..issued'
  <2>1. job'[v].captcha \in 1..issued
    <3>1. CASE v = w
      BY <1>1, <1>3, <3>1 DEF Leads, FlightsOK
    <3>2. CASE v # w
      BY <1>1, <1>3, <3>2 DEF FlightsOK
    <3>3. QED BY <3>1, <3>2
  <2>2. issued \in Nat
    BY PortalAssumption DEF TypeOK
  <2>3. QED BY <2>1, <2>2
<1>4. FlightsOK'
  BY <1>2, <1>3 DEF FlightsOK
<1>5. Landed \subseteq Landed'
  BY <1>2 DEF Landed
<1>6. QED BY <1>2, <1>4, <1>5

\* A right answer uses its challenge up, and the request flies with it.
LEMMA VerifyInv ==
  ASSUME TypeOK, TypeOK', FlightsOK, CaptchasOK, QuotaOK, NEW w \in Workers, VerifyChallenge(w)
  PROVE  FlightsOK' /\ CaptchasOK' /\ QuotaOK'
<1> DEFINE n == job[w].captcha
<1>1. /\ pc[w] = "captcha" /\ n \in 1..issued /\ n \in Captchas /\ issued \in Nat
      /\ counter' = counter /\ issued' = issued
  BY PortalAssumption DEF VerifyChallenge, FlightsOK, Gated, TypeOK, Captchas, quotas
<1>2. /\ captcha'[n].stored = FALSE
      /\ \A m \in Captchas : m # n => captcha'[m] = captcha[m]
  BY <1>1 DEF VerifyChallenge, Consumed, TypeOK
<1>3. \/ captcha[n].stored /\ passed' = [passed EXCEPT ![n] = @ + 1] /\ Goto(w, "clock")
      \/ passed' = passed /\ Goto(w, "idle")
  BY DEF VerifyChallenge
<1>4. CASE captcha[n].stored /\ passed' = [passed EXCEPT ![n] = @ + 1] /\ Goto(w, "clock")
  <2>1. passed[n] = 0
    BY <1>1, <1>4 DEF CaptchasOK, TypeOK
  <2>2. passed'[n] = 1 /\ \A m \in Captchas : m # n => passed'[m] = passed[m]
    BY <1>1, <1>4, <2>1 DEF TypeOK
  <2>3. CaptchasOK'
    BY <1>1, <1>2, <2>2 DEF CaptchasOK
  <2>4. PICK j \in Job : Begin(w, "clock", j) /\ j = job[w]
    BY <1>4, GotoBegins
  <2>5. /\ pc'[w] = "clock" /\ job'[w] = job[w]
        /\ \A v \in Workers : v # w => pc'[v] = pc[v] /\ job'[v] = job[v]
    BY <2>4, BeginFacts
  <2>6. \A v \in Workers : v # w => (Flying(v)' <=> Flying(v)) /\ (Flying(v) => job[v].captcha # n)
    BY <2>1, <2>5 DEF Flying, FlightsOK
  <2>7. FlightsOK'
    <3>1. \A v \in Workers : Flying(v)' => job'[v].captcha \in Captchas /\ passed'[job'[v].captcha] > 0
      BY <1>1, <2>2, <2>5, <2>6 DEF FlightsOK
    <3>2. \A u, v \in Workers : Flying(u)' /\ Flying(v)' /\ job'[u].captcha = job'[v].captcha => u = v
      BY <2>5, <2>6 DEF FlightsOK
    <3>3. \A v \in Workers : pc'[v] \in Gated => job'[v].captcha \in 1..issued'
      BY <1>1, <2>5 DEF FlightsOK, Gated
    <3>4. QED BY <3>1, <3>2, <3>3 DEF FlightsOK
  <2>8. Landed \subseteq Landed'
    <3> SUFFICES ASSUME NEW m \in Landed PROVE m \in Landed'
      OBVIOUS
    <3>1. m \in Captchas /\ m # n /\ passed'[m] > 0
      BY <2>1, <2>2 DEF Landed
    <3>2. \A v \in Workers : ~(Flying(v)' /\ job'[v].captcha = m)
      BY <2>5, <2>6, <3>1 DEF Landed
    <3>3. QED BY <3>1, <3>2 DEF Landed
  <2>9. QED BY <1>1, <2>3, <2>7, <2>8, QuotaKept
<1>5. CASE passed' = passed /\ Goto(w, "idle")
  <2>1. CaptchasOK'
    BY <1>1, <1>2, <1>5 DEF CaptchasOK
  <2>2. PICK j \in Job : Begin(w, "idle", j)
    BY <1>5, GotoBegins
  <2>3. /\ pc'[w] = "idle"
        /\ \A v \in Workers : v # w => pc'[v] = pc[v] /\ job'[v] = job[v]
    BY <2>2, BeginFacts
  <2>4. \A v \in Workers : Flying(v)' => v # w /\ Flying(v)
    BY <2>3 DEF Flying
  <2>5. FlightsOK' /\ Landed \subseteq Landed'
    BY <1>1, <1>5, <2>3, <2>4 DEF FlightsOK, Gated, Landed
  <2>6. QED BY <1>1, <2>1, <2>5, QuotaKept
<1>6. QED BY <1>3, <1>4, <1>5

\* A request that counts itself spends one unit, and lands its challenge.
LEMMA SpendInv ==
  ASSUME TypeOK, TypeOK', ClocksOK, KeysOK, FlightsOK, CaptchasOK, QuotaOK,
         NEW w \in Workers, Incr(w)
  PROVE  QuotaOK'
<1> DEFINE k == KeyOf(w)
<1> DEFINE new == At(counter, k).count + 1
<1>1. /\ pc[w] = "incr" /\ k \in Keys /\ new <= MaxCount
      /\ At(counter', k).count = new
      /\ \A m \in Keys : m # k => At(counter', m) = At(counter, m)
  BY IncrFacts
<1>2. /\ At(counter, k).count \in Nat /\ new \in 1..MaxCount /\ MaxCount \in Nat
      /\ \A m \in Keys : At(counter, m).count \in Nat
  BY <1>1, AtTypes, PortalAssumption
<1>3. PICK to \in PCs, j \in Job : Begin(w, to, j) /\ Leads(w, to, j)
  BY StepLeads DEF Step, StartUpdate, Incr
<1>4. ~VerifyChallenge(w) /\ issued' = issued /\ passed' = passed /\ to \notin {"clock", "incr"}
  <2>1. ~VerifyChallenge(w)
    BY <1>1 DEF VerifyChallenge
  <2>2. to \notin {"clock", "incr"}
    <3>1. pc'[w] = to
      BY <1>3, BeginFacts
    <3>2. pc'[w] \in {"expire", "issue", "query", "idle"}
      BY DEF Incr, Admit, AfterLimit, Goto, TypeOK
    <3>3. QED BY <3>1, <3>2
  <2>3. QED BY <2>1, <2>2 DEF Incr, challenges
<1>5. issued \in Nat
  BY PortalAssumption DEF TypeOK
<1>6. /\ \A v \in Workers : Flying(v)' => Flying(v) /\ job'[v].captcha = job[v].captcha
      /\ Landed \subseteq Landed'
  BY <1>3, <1>4, <1>5, FlightsMoved
<1>7. \A m \in Keys : At(counter', m).count <= MaxCount
  BY <1>1, <1>2 DEF QuotaOK, Keys
<1>8. ASSUME NEW u
      PROVE  u \in QuotaSpent' <=>
               /\ u \in (Scopes \ {"captcha"}) \X Clients \X Windows \X (1..MaxCount)
               /\ <<u[1], u[2], u[3]>> \in Keys
               /\ u[4] <= At(counter', <<u[1], u[2], u[3]>>).count
  BY DEF QuotaSpent, Keys, At
<1>9. IsFiniteSet(Landed') /\ Cardinality(Landed') \in Nat
  BY LandedFinite
<1>10. /\ IsFiniteSet(QuotaSpent) /\ Cardinality(QuotaSpent) \in Nat
       /\ Cardinality(QuotaSpent) <= Cardinality(Landed) /\ Cardinality(Landed) \in Nat
  BY LandedFinite, FS_CardinalityType DEF QuotaOK
<1>11. k[1] = "captcha" <=> job[w].kind = "mint"
  BY DEF KeyOf, ScopeOf
<1>12. CASE job[w].kind = "mint"
  <2>1. QuotaSpent' = QuotaSpent
    <3>1. ASSUME NEW u PROVE u \in QuotaSpent' <=> u \in QuotaSpent
      <4>1. u[1] # "captcha" => <<u[1], u[2], u[3]>> # k
        BY <1>1, <1>11, <1>12 DEF Keys
      <4>2. QED BY <1>1, <1>8, <4>1, SpentUnits
    <3>2. QED BY <3>1
  <2>2. Cardinality(Landed) <= Cardinality(Landed')
    BY <1>6, <1>9, FS_Subset
  <2>3. QED BY <1>7, <1>9, <1>10, <2>1, <2>2 DEF QuotaOK, Keys, At
<1>13. CASE job[w].kind # "mint"
  <2> DEFINE n == job[w].captcha
  <2> DEFINE unit == <<k[1], k[2], k[3], new>>
  <2>1. Flying(w) /\ n \in Captchas /\ passed[n] > 0
    BY <1>1, <1>13 DEF Flying, FlightsOK
  <2>2. QuotaSpent' = QuotaSpent \cup {unit} /\ unit \notin QuotaSpent
    <3>1. unit \in (Scopes \ {"captcha"}) \X Clients \X Windows \X (1..MaxCount)
      BY <1>1, <1>2, <1>11, <1>13 DEF Keys
    <3>2. <<unit[1], unit[2], unit[3]>> = k /\ unit[4] = new
      BY <1>1 DEF Keys
    <3>3. unit \in QuotaSpent'
      BY <1>1, <1>2, <1>8, <3>1, <3>2
    <3>4. unit \notin QuotaSpent
      BY <1>2, <3>2, SpentUnits
    <3>5. ASSUME NEW u \in QuotaSpent' PROVE u \in QuotaSpent \cup {unit}
      <4> DEFINE m == <<u[1], u[2], u[3]>>
      <4>1. /\ u \in (Scopes \ {"captcha"}) \X Clients \X Windows \X (1..MaxCount)
            /\ m \in Keys /\ u[4] <= At(counter', m).count /\ u[4] \in Nat
        BY <1>8, <3>5
      <4>2. CASE m # k
        BY <1>1, <4>1, <4>2, SpentUnits
      <4>3. CASE m = k
        <5>1. u = <<k[1], k[2], k[3], u[4]>>
          BY <4>1, <4>3
        <5>2. u[4] <= new
          BY <1>1, <4>1, <4>3
        <5>3. CASE u[4] = new
          BY <5>1, <5>3
        <5>4. CASE u[4] # new
          <6>1. u[4] <= At(counter, m).count
            BY <1>2, <4>1, <4>3, <5>2, <5>4
          <6>2. QED BY <4>1, <6>1, SpentUnits
        <5>5. QED BY <5>3, <5>4
      <4>4. QED BY <4>2, <4>3
    <3>6. ASSUME NEW u \in QuotaSpent PROVE u \in QuotaSpent'
      <4> DEFINE m == <<u[1], u[2], u[3]>>
      <4>1. /\ u \in (Scopes \ {"captcha"}) \X Clients \X Windows \X (1..MaxCount)
            /\ m \in Keys /\ u[4] <= At(counter, m).count /\ u[4] \in Nat
        BY <3>6, SpentUnits
      <4>2. u[4] <= At(counter', m).count
        BY <1>1, <1>2, <4>1
      <4>3. QED BY <1>8, <4>1, <4>2
    <3>7. QED BY <3>3, <3>4, <3>5, <3>6
  <2>3. n \in Landed' /\ n \notin Landed
    <3>1. ~Flying(w)'
      BY <1>3, <1>4, BeginFacts DEF Flying
    <3>2. \A v \in Workers : ~(Flying(v)' /\ job'[v].captcha = n)
      BY <1>6, <2>1, <3>1 DEF FlightsOK
    <3>3. n \in Landed'
      BY <1>4, <2>1, <3>2 DEF Landed
    <3>4. QED BY <2>1, <3>3 DEF Landed
  <2>4. Cardinality(Landed) + 1 <= Cardinality(Landed')
    <3>1. Cardinality(Landed \cup {n}) = Cardinality(Landed) + 1
      BY <2>3, LandedFinite, FS_AddElement
    <3>2. Landed \cup {n} \subseteq Landed'
      BY <1>6, <2>3
    <3>3. Cardinality(Landed \cup {n}) <= Cardinality(Landed')
      BY <1>9, <3>2, FS_Subset
    <3>4. QED BY <3>1, <3>3
  <2>5. IsFiniteSet(QuotaSpent') /\ Cardinality(QuotaSpent') = Cardinality(QuotaSpent) + 1
    BY <1>10, <2>2, FS_AddElement
  <2>6. QED BY <1>7, <1>9, <1>10, <2>4, <2>5 DEF QuotaOK, Keys, At
<1>14. QED BY <1>12, <1>13

LEMMA FlightsStep ==
  ASSUME TypeOK, TypeOK', ClocksOK, KeysOK, FlightsOK, CaptchasOK, QuotaOK,
         NEW w \in Workers, Step(w)
  PROVE  FlightsOK' /\ CaptchasOK' /\ QuotaOK'
<1>0. issued \in Nat /\ issued' \in Nat
  BY PortalAssumption DEF TypeOK
<1>1. CASE VerifyChallenge(w)
  BY <1>1, VerifyInv
<1>2. CASE StartUpdate(w)
  <2>1. /\ UNCHANGED <<issued, captcha, passed, counter>> /\ pc'[w] = "set_lookup"
        /\ \A v \in Workers : v # w =>
             pc'[v] = pc[v] /\ job'[v].kind = job[v].kind /\ job'[v].captcha = job[v].captcha
    BY <1>2, StartUpdateFacts
  <2>2. \A v \in Workers : Flying(v)' => Flying(v) /\ job'[v].captcha = job[v].captcha
    BY <2>1 DEF Flying
  <2>3. FlightsOK'
    BY <2>1, <2>2 DEF FlightsOK, Gated
  <2>4. CaptchasOK' /\ Landed \subseteq Landed'
    BY <2>1, <2>2 DEF CaptchasOK, Landed
  <2>5. QED BY <2>1, <2>3, <2>4, QuotaKept
<1>3. CASE IssueChallenge(w)
  <2>1. PICK to \in PCs, j \in Job : Begin(w, to, j) /\ Leads(w, to, j)
    BY <1>3, StepLeads DEF StartUpdate, IssueChallenge
  <2>2. /\ ~VerifyChallenge(w) /\ issued' = issued + 1 /\ passed' = passed /\ counter' = counter
        /\ captcha' = [captcha EXCEPT ![issued + 1] = [stored |-> TRUE, until |-> now + CaptchaTTL]]
    BY <1>3 DEF IssueChallenge, VerifyChallenge, quotas
  <2>3. FlightsOK' /\ Landed \subseteq Landed'
    BY <1>0, <2>1, <2>2, FlightsMoved
  <2>4. CaptchasOK'
    <3> SUFFICES ASSUME NEW n \in Captchas
                 PROVE  /\ passed[n] <= 1
                        /\ passed[n] > 0 => n <= issued + 1 /\ ~captcha'[n].stored
      BY <2>2 DEF CaptchasOK
    <3>1. passed[n] <= 1 /\ (passed[n] > 0 => n <= issued /\ ~captcha[n].stored) /\ n \in Nat
      BY DEF CaptchasOK, Captchas
    <3>2. n <= issued => captcha'[n] = captcha[n] /\ n <= issued + 1
      BY <1>0, <2>2, <3>1 DEF TypeOK
    <3>3. QED BY <3>1, <3>2
  <2>5. QED BY <2>2, <2>3, <2>4, QuotaKept
<1>4. CASE ~(VerifyChallenge(w) \/ StartUpdate(w) \/ IssueChallenge(w))
  <2>1. PICK to \in PCs, j \in Job : Begin(w, to, j) /\ Leads(w, to, j)
    BY <1>4, StepLeads
  <2>2. UNCHANGED <<issued, captcha, passed>>
    BY <1>4 DEF Step, StartRequest, GateLookupFirst, GateDownload, GateLookup, Query, StartMint,
      ReadClock, Incr, Expire, SetLookup, SetDownload, LogFlip, Abandon, challenges
  <2>3. FlightsOK' /\ Landed \subseteq Landed'
    BY <1>0, <1>4, <2>1, <2>2, FlightsMoved
  <2>4. CaptchasOK'
    BY <2>2 DEF CaptchasOK
  <2>5. CASE Incr(w)
    BY <2>3, <2>4, <2>5, SpendInv
  <2>6. CASE ~Incr(w)
    <3>1. \A k \in Keys : At(counter', k).count = At(counter, k).count
      <4>1. CASE Expire(w)
        <5>1. /\ KeyOf(w) \in Keys /\ At(counter, KeyOf(w)) \in [count: Nat, until: Nat]
              /\ now + KeyTTL \in Nat
          BY KeyType, AtTypes, PortalAssumption DEF TypeOK, KeyTTL
        <5> DEFINE new == [At(counter, KeyOf(w)) EXCEPT !.until = now + KeyTTL]
        <5>2. new \in Entry /\ new.count = At(counter, KeyOf(w)).count
          BY <5>1 DEF Entry
        <5>3. counter' = Put(counter, KeyOf(w), new)
          BY <4>1 DEF Expire
        <5> HIDE DEF new
        <5>4. At(counter', KeyOf(w)) = new
              /\ \A m \in Keys : m # KeyOf(w) => At(counter', m) = At(counter, m)
          BY <5>1, <5>2, <5>3, PutFacts, Tables
        <5>5. QED BY <5>2, <5>4
      <4>2. CASE ~Expire(w)
        <5>1. counter' = counter
          BY <1>4, <2>6, <4>2 DEF Step, StartRequest, GateLookupFirst, GateDownload, GateLookup,
            Query, StartMint, ReadClock, SetLookup, SetDownload, LogFlip, Abandon, quotas
        <5>2. QED BY <5>1
      <4>3. QED BY <4>1, <4>2
    <3>2. QED BY <2>3, <2>4, <3>1, QuotaKept
  <2>7. QED BY <2>5, <2>6
<1>5. QED BY <1>1, <1>2, <1>3, <1>4
-----------------------------------------------------------------------------
LEMMA NextInv == Inv /\ [Next]_vars => Inv'
<1> SUFFICES ASSUME Inv, [Next]_vars PROVE Inv'
  OBVIOUS
<1> USE DEF Inv
<1>1. TypeOK'
  BY TypeInv
<1>2. ASSUME NEW w \in Workers, Step(w) PROVE Inv'
  BY <1>1, <1>2, KeysStep, FlightsStep, GatesStep
<1>3. CASE Tick
  <2>1. UNCHANGED <<lookupFlag, downloadFlag, issued, captcha, passed, counter, pc, job, shut>>
    BY <1>3 DEF Tick, gates, challenges, quotas, operator
  <2>2. FlightsOK' /\ CaptchasOK' /\ QuotaOK' /\ GatesOK'
    BY <2>1 DEF FlightsOK, Flying, CaptchasOK, QuotaOK, QuotaSpent, At, Landed, GatesOK, Updating
  <2>3. QED BY <1>1, <1>3, <2>2, KeysTick
<1>4. CASE UNCHANGED vars
  <2>1. UNCHANGED <<now, lookupFlag, downloadFlag, issued, captcha, passed, counter, admitted,
                    pc, job, shut>>
    BY <1>4 DEF vars, gates, challenges, quotas, operator
  <2>2. FlightsOK' /\ CaptchasOK' /\ QuotaOK' /\ GatesOK'
    BY <2>1 DEF FlightsOK, Flying, CaptchasOK, QuotaOK, QuotaSpent, At, Landed, GatesOK, Updating
  <2>3. ClocksOK' /\ KeysOK'
    BY <2>1 DEF ClocksOK, KeysOK, KeyOK, Pending, KeyOf, At
  <2>4. QED BY <1>1, <2>2, <2>3
<1>5. QED BY <1>2, <1>3, <1>4 DEF Next

LEMMA SpecInv == Spec => []Inv
BY InitInv, NextInv, PTL DEF Spec

\* The variables have their types.
THEOREM TypeCorrect == Spec => []TypeOK
<1>1. Inv => TypeOK
  BY DEF Inv
<1>2. QED BY SpecInv, <1>1, PTL

\* No more than Limit requests of a client are let through under one window,
\* whatever the window, the limit and the number of workers, as long as a
\* request's INCR is no more than a window behind its clock (check_rate_limit
\* over RestKV.incr).
THEOREM WindowHolds == Spec => []WindowLimit
<1>1. Inv => WindowLimit
  <2> SUFFICES ASSUME Inv, NEW s \in Scopes, NEW c \in Clients, NEW i \in Windows
               PROVE  admitted[s][c][i] <= Limit
    BY DEF WindowLimit
  <2>1. KeyOK(<<s, c, i>>)
    BY DEF Inv, KeysOK
  <2>2. QED BY <2>1 DEF KeyOK, At
<1>2. QED BY SpecInv, <1>1, PTL

\* A challenge lets one request through, on whichever surface and however many
\* workers receive its answer (verify_challenge).
THEOREM CaptchaOnce == Spec => []CaptchaAdmitsOnce
<1>1. Inv => CaptchaAdmitsOnce
  BY DEF Inv, CaptchasOK, CaptchaAdmitsOnce
<1>2. QED BY SpecInv, <1>1, PTL

\* Every unit of quota spent on the public surfaces was paid for with a
\* challenge of its own (_verify_student_gate, lookup_shipment).
THEOREM QuotaPaid == Spec => []QuotaNeedsCaptcha
<1>1. Inv => QuotaNeedsCaptcha
  <2> SUFFICES ASSUME Inv PROVE QuotaNeedsCaptcha
    OBVIOUS
  <2>1. /\ IsFiniteSet(QuotaSpent) /\ Cardinality(QuotaSpent) \in Nat
        /\ Cardinality(QuotaSpent) <= Cardinality(Landed)
    BY FS_CardinalityType DEF Inv, QuotaOK
  <2>2. Landed \subseteq {n \in Captchas : passed[n] > 0}
    BY DEF Landed
  <2>3. /\ Cardinality(Landed) \in Nat
        /\ Cardinality(Landed) <= Cardinality({n \in Captchas : passed[n] > 0})
        /\ Cardinality({n \in Captchas : passed[n] > 0}) \in Nat
    BY <2>2, LandedFinite, FS_Subset, FS_CardinalityType
  <2>4. QED BY <2>1, <2>3 DEF QuotaNeedsCaptcha
<1>2. QED BY SpecInv, <1>1, PTL

\* Once a freeze that no other update overlapped is logged, no request that
\* begins afterwards reaches the records, until the next update starts
\* (set_state, get_state).
THEOREM FreezeKept == Spec => []FreezeHolds
<1>1. Inv => FreezeHolds
  <2> SUFFICES ASSUME Inv, NEW w \in Workers, pc[w] = "query", job[w].late PROVE FALSE
    BY DEF FreezeHolds
  <2>1. pc[w] \in (IF job[w].kind = "download" THEN {"gate_lookup_first", "gate_download"}
                   ELSE {"gate_lookup"})
    BY DEF Inv, GatesOK
  <2>2. QED BY <2>1
<1>2. QED BY SpecInv, <1>1, PTL
=============================================================================
