----------------------------- MODULE PublicPortal -----------------------------
(***************************************************************************)
(* What stands between the public and the student records: the feature     *)
(* gates (api/feature_gates.py), the CAPTCHA (api/captcha.py) and the      *)
(* fixed-window rate limit (api/rate_limiter.py), in the order in which    *)
(* search_student, download_certificate and lookup_shipment go through     *)
(* them, and the routes that mint a challenge and flip the gates.          *)
(*                                                                         *)
(* The shared state is the KV store behind RestKV: a command is one atomic *)
(* step, a handler is several.  KV entries with a lifetime disappear by    *)
(* themselves.  The clock counts seconds.                                  *)
(***************************************************************************)
EXTENDS Naturals, FiniteSets

CONSTANTS
  Clients,      \* rate-limit identifiers
  Kinds,        \* the public surfaces in use: "search", "download", "shipment"
  Workers,
  Window,       \* window_seconds
  Limit,        \* limit
  CaptchaTTL,   \* CAPTCHA_TTL_SECONDS
  MaxDelay,     \* bound: seconds from reading the clock to the INCR
  MaxTime,      \* bound: seconds the clock advances
  MaxCount,     \* bound: requests counted under one key
  MaxCaptchas,  \* bound: challenges issued
  MaxUpdates    \* bound: gate updates started

ASSUME PortalAssumption ==
  /\ Clients # {}
  /\ Kinds \subseteq {"search", "download", "shipment"}
  /\ Window \in Nat \ {0}
  /\ Limit \in Nat \ {0}
  /\ MaxDelay \in 0..Window
  /\ {CaptchaTTL, MaxTime, MaxCount, MaxCaptchas, MaxUpdates} \subseteq Nat

VARIABLES
  now,
  lookupFlag,    \* feature:public_lookup_enabled
  downloadFlag,  \* feature:public_download_enabled
  issued,        \* how many challenges were issued
  captcha,       \* captcha[n]: the KV entry of the n-th challenge
  counter,       \* counter[s][c][i]: the key rl:<scope>:<client>:<window i>
  pc, job,       \* where each worker is in its handler, and its locals
  updates,       \* how many gate updates were started
  audit,         \* the gate states in "admin.features.update" rows
  passed,        \* history: how often each challenge let a request through
  admitted,      \* history: requests let through, by rate-limit key
  shut           \* history: the surfaces an update closed for good, so far

gates == <<lookupFlag, downloadFlag>>
challenges == <<issued, captcha, passed>>
quotas == <<counter, admitted>>
operator == <<updates, audit, shut>>
vars == <<now, gates, challenges, quotas, pc, job, operator>>

-----------------------------------------------------------------------------
Flags == {"unset", "1", "0"}
Scopes == {"captcha", "search", "shipment_lookup"}
Captchas == 1..MaxCaptchas
Windows == 0..(MaxTime \div Window)

PCs == {"idle", "gate_lookup_first", "gate_download", "gate_lookup", "captcha",
        "clock", "incr", "expire", "issue", "query",
        "set_lookup", "set_download", "log_flip"}

Job == [kind: {"search", "download", "shipment", "mint", "flip"},
        client: Clients,
        captcha: 0..MaxCaptchas,  \* the challenge presented
        right: BOOLEAN,           \* the answer is the right one
        at: 0..MaxTime,           \* when the limiter read the clock
        lookup: BOOLEAN, download: BOOLEAN,  \* the gate state asked for
        late: BOOLEAN,            \* history: began after its surface was shut
        alone: BOOLEAN]           \* history: no other update overlapped this one

NoJob == [kind |-> "search", client |-> CHOOSE c \in Clients : TRUE, captcha |-> 0,
          right |-> FALSE, at |-> 0, lookup |-> FALSE, download |-> FALSE, late |-> FALSE,
          alone |-> FALSE]

Goto(w, to) ==
  /\ pc' = [pc EXCEPT ![w] = to]
  /\ job' = IF to = "idle" THEN [job EXCEPT ![w] = NoJob] ELSE job
Begin(w, to, j) == pc' = [pc EXCEPT ![w] = to] /\ job' = [job EXCEPT ![w] = j]

\* A lifetime of 0 stands for a key without expiry.
Live(until) == until = 0 \/ now < until

NoKey == [count |-> 0, until |-> 0]

Init ==
  /\ now = 0
  /\ lookupFlag = "unset" /\ downloadFlag = "unset"
  /\ issued = 0
  /\ captcha = [n \in Captchas |-> [stored |-> FALSE, until |-> 0]]
  /\ counter = [s \in Scopes |-> [c \in Clients |-> [i \in Windows |-> NoKey]]]
  /\ pc = [w \in Workers |-> "idle"]
  /\ job = [w \in Workers |-> NoJob]
  /\ updates = 0
  /\ audit = {}
  /\ passed = [n \in Captchas |-> 0]
  /\ admitted = [s \in Scopes |-> [c \in Clients |-> [i \in Windows |-> 0]]]
  /\ shut = {}

-----------------------------------------------------------------------------
(* The public handlers. *)

StartRequest(w) ==
  /\ pc[w] = "idle"
  /\ \E k \in Kinds, c \in Clients, n \in 1..issued, right \in BOOLEAN :
       Begin(w, IF k = "download" THEN "gate_lookup_first" ELSE "gate_lookup",
             [NoJob EXCEPT !.kind = k, !.client = c, !.captcha = n, !.right = right,
                           !.late = k \in shut])
  /\ UNCHANGED <<now, gates, challenges, quotas, operator>>

\* A flag that was never written reads as on.
\* Mutant: any value stored counts as on.
OpenIfSet(flag) == flag \in Flags
Open(flag) == flag # "0"

\* require_public_download: both keys, one GET after the other.
GateLookupFirst(w) ==
  /\ pc[w] = "gate_lookup_first"
  /\ Goto(w, IF Open(lookupFlag) THEN "gate_download" ELSE "idle")
  /\ UNCHANGED <<now, gates, challenges, quotas, operator>>

GateDownload(w) ==
  /\ pc[w] = "gate_download"
  /\ Goto(w, IF Open(downloadFlag) THEN "gate_lookup" ELSE "idle")
  /\ UNCHANGED <<now, gates, challenges, quotas, operator>>

\* require_public_lookup, which a download meets again inside search_student;
\* it fetches the download key as well and makes no use of it.
\* Mutant: the rate limit is taken first and the CAPTCHA afterwards.
GateLookupQuotaFirst(w) ==
  /\ pc[w] = "gate_lookup"
  /\ Goto(w, IF Open(lookupFlag) THEN "clock" ELSE "idle")
  /\ UNCHANGED <<now, gates, challenges, quotas, operator>>
GateLookup(w) ==
  /\ pc[w] = "gate_lookup"
  /\ Goto(w, IF Open(lookupFlag) THEN "captcha" ELSE "idle")
  /\ UNCHANGED <<now, gates, challenges, quotas, operator>>

\* kv.consume: the challenge is used up, right or wrong.
\* Mutant: a challenge is only removed when it was answered wrongly.
ConsumedIfWrong(n, right) == [captcha EXCEPT ![n].stored = right]
Consumed(n, right) == [captcha EXCEPT ![n].stored = FALSE]

VerifyChallenge(w) ==
  /\ pc[w] = "captcha"
  /\ LET n == job[w].captcha
     IN /\ captcha' = Consumed(n, job[w].right)
        /\ IF captcha[n].stored /\ Live(captcha[n].until) /\ job[w].right
           THEN passed' = [passed EXCEPT ![n] = @ + 1] /\ Goto(w, "clock")
           ELSE Goto(w, "idle") /\ UNCHANGED passed
  /\ UNCHANGED <<now, gates, issued, quotas, operator>>

\* The records are read and the answer leaves the server.
Query(w) ==
  /\ pc[w] = "query"
  /\ Goto(w, "idle")
  /\ UNCHANGED <<now, gates, challenges, quotas, operator>>

-----------------------------------------------------------------------------
(* The route that mints challenges; its rate limit comes first. *)

StartMint(w) ==
  /\ pc[w] = "idle"
  /\ \E c \in Clients : Begin(w, "clock", [NoJob EXCEPT !.kind = "mint", !.client = c])
  /\ UNCHANGED <<now, gates, challenges, quotas, operator>>

IssueChallenge(w) ==
  /\ pc[w] = "issue"
  /\ issued < MaxCaptchas
  /\ issued' = issued + 1
  /\ captcha' = [captcha EXCEPT ![issued + 1] = [stored |-> TRUE, until |-> now + CaptchaTTL]]
  /\ Goto(w, "idle")
  /\ UNCHANGED <<now, gates, passed, quotas, operator>>

-----------------------------------------------------------------------------
(* check_rate_limit. *)

ScopeOf(kind) ==
  CASE kind = "mint" -> "captcha"
    [] kind = "shipment" -> "shipment_lookup"
    [] OTHER -> "search"

\* The limiter's key: the clock was read when the request got here.
ReadClock(w) ==
  /\ pc[w] = "clock"
  /\ Begin(w, "incr", [job[w] EXCEPT !.at = now])
  /\ UNCHANGED <<now, gates, challenges, quotas, operator>>

KeyOf(w) == <<ScopeOf(job[w].kind), job[w].client, job[w].at \div Window>>
At(f, k) == f[k[1]][k[2]][k[3]]
Put(f, k, v) == [f EXCEPT ![k[1]][k[2]][k[3]] = v]

AfterLimit(w) == IF job[w].kind = "mint" THEN "issue" ELSE "query"

Admit(w) ==
  /\ admitted' = Put(admitted, KeyOf(w), At(admitted, KeyOf(w)) + 1)
  /\ Goto(w, AfterLimit(w))

\* INCR of a missing or expired key makes one that counts 1 and never expires.
Incr(w) ==
  LET k == KeyOf(w)
      old == At(counter, k)
      new == IF Live(old.until) THEN [old EXCEPT !.count = @ + 1]
             ELSE [count |-> 1, until |-> 0]
  IN /\ pc[w] = "incr"
     /\ new.count <= MaxCount
     /\ counter' = Put(counter, k, new)
     /\ CASE new.count = 1 -> Goto(w, "expire") /\ UNCHANGED admitted
          [] new.count \in 2..Limit -> Admit(w)
          [] OTHER -> Goto(w, "idle") /\ UNCHANGED admitted
     /\ UNCHANGED <<now, gates, challenges, operator>>

\* ttl_seconds = window_seconds * 2, sent as a command of its own.
\* Mutant: the key lives for one window.
KeyTTLOneWindow == Window
KeyTTL == 2 * Window

Expire(w) ==
  /\ pc[w] = "expire"
  /\ counter' = Put(counter, KeyOf(w), [At(counter, KeyOf(w)) EXCEPT !.until = now + KeyTTL])
  /\ Admit(w)
  /\ UNCHANGED <<now, gates, challenges, operator>>

-----------------------------------------------------------------------------
(* The super-admin's update of the gates: set_state, then the audit row. *)

Updating(v) == pc[v] \in {"set_lookup", "set_download", "log_flip"}

\* No surface counts as shut while an update is under way.
StartUpdate(w) ==
  /\ pc[w] = "idle"
  /\ updates < MaxUpdates
  /\ \E l, d \in BOOLEAN :
       job' = [v \in Workers |->
         IF v = w THEN [NoJob EXCEPT !.kind = "flip", !.lookup = l, !.download = d /\ l,
                                     !.alone = ~\E u \in Workers : Updating(u)]
         ELSE [job[v] EXCEPT !.late = FALSE, !.alone = FALSE]]
  /\ pc' = [pc EXCEPT ![w] = "set_lookup"]
  /\ updates' = updates + 1
  /\ shut' = {}
  /\ UNCHANGED <<now, gates, challenges, quotas, audit>>

Flag(on) == IF on THEN "1" ELSE "0"

SetLookup(w) ==
  /\ pc[w] = "set_lookup"
  /\ lookupFlag' = Flag(job[w].lookup)
  /\ Goto(w, "set_download")
  /\ UNCHANGED <<now, downloadFlag, challenges, quotas, operator>>

SetDownload(w) ==
  /\ pc[w] = "set_download"
  /\ downloadFlag' = Flag(job[w].download)
  /\ Goto(w, "log_flip")
  /\ UNCHANGED <<now, lookupFlag, challenges, quotas, operator>>

LogFlip(w) ==
  /\ pc[w] = "log_flip"
  /\ audit' = audit \cup {<<job[w].lookup, job[w].download>>}
  /\ shut' = IF ~job[w].alone THEN {}
             ELSE (IF job[w].lookup THEN {} ELSE {"search", "shipment"})
                  \cup (IF job[w].download THEN {} ELSE {"download"})
  /\ Goto(w, "idle")
  /\ UNCHANGED <<now, gates, challenges, quotas, updates>>

-----------------------------------------------------------------------------
\* The worker is killed or a KV command fails (KVError).
Abandon(w) ==
  /\ pc[w] # "idle"
  /\ Goto(w, "idle")
  /\ UNCHANGED <<now, gates, challenges, quotas, operator>>

\* RestKV gives up on a command after DEFAULT_TIMEOUT, a fraction of a window:
\* no request is slower than MaxDelay between reading the clock and its INCR.
Tick ==
  /\ now < MaxTime
  /\ \A w \in Workers : pc[w] = "incr" => now < job[w].at + MaxDelay
  /\ now' = now + 1
  /\ UNCHANGED <<gates, challenges, quotas, pc, job, operator>>

Step(w) ==
  \/ StartRequest(w) \/ GateLookupFirst(w) \/ GateDownload(w) \/ GateLookup(w)
  \/ VerifyChallenge(w) \/ Query(w)
  \/ StartMint(w) \/ IssueChallenge(w)
  \/ ReadClock(w) \/ Incr(w) \/ Expire(w)
  \/ StartUpdate(w) \/ SetLookup(w) \/ SetDownload(w) \/ LogFlip(w)
  \/ Abandon(w)

Next == Tick \/ \E w \in Workers : Step(w)

Spec == Init /\ [][Next]_vars
-----------------------------------------------------------------------------
\* The variables have their types.
TypeOK ==
  /\ now \in 0..MaxTime
  /\ {lookupFlag, downloadFlag} \subseteq Flags
  /\ issued \in 0..MaxCaptchas
  /\ captcha \in [Captchas -> [stored: BOOLEAN, until: Nat]]
  /\ counter \in [Scopes -> [Clients -> [Windows -> [count: Nat, until: Nat]]]]
  /\ pc \in [Workers -> PCs]
  /\ job \in [Workers -> Job]
  /\ updates \in 0..MaxUpdates
  /\ audit \subseteq BOOLEAN \X BOOLEAN
  /\ passed \in [Captchas -> Nat]
  /\ admitted \in [Scopes -> [Clients -> [Windows -> Nat]]]
  /\ shut \subseteq {"search", "download", "shipment"}

\* A challenge lets one request through, however many workers receive its
\* right answer at the same time, on whichever surface (verify_challenge).
CaptchaAdmitsOnce == \A n \in Captchas : passed[n] <= 1

\* No more than Limit requests of a client are let through under one window,
\* although requests count themselves after the window has ended, and
\* although the key is made and given its lifetime by separate commands
\* (check_rate_limit over RestKV.incr).
WindowLimit ==
  \A s \in Scopes, c \in Clients, i \in Windows : admitted[s][c][i] <= Limit

\* Every unit of quota ever spent on the public surfaces was paid for with a
\* challenge answered rightly: a wrong answer costs no quota, and one challenge
\* does not pay on two surfaces (_verify_student_gate and lookup_shipment put
\* the CAPTCHA first).
QuotaSpent ==
  {u \in (Scopes \ {"captcha"}) \X Clients \X Windows \X (1..MaxCount) :
     u[4] <= At(counter, u).count}
QuotaNeedsCaptcha ==
  Cardinality(QuotaSpent) <= Cardinality({n \in Captchas : passed[n] > 0})

\* When a freeze was logged and no other update overlapped or followed it, no
\* request that began afterwards reaches the records, although its handler
\* reads the two keys one by one (set_state, get_state).
FreezeHolds == \A w \in Workers : ~(pc[w] = "query" /\ job[w].late)
=============================================================================
