-------------------------- MODULE AdminSession_proofs --------------------------
(***************************************************************************)
(* Theorems about AdminSession, for any number of admins, workers, codes   *)
(* and tokens, any clock rate and any lifetimes.                           *)
(***************************************************************************)
EXTENDS AdminSession, TLAPS

\* A challenge that is used up and has not become a session yet.
Spent(n) ==
  n # 0 => challenge[n].state = "gone" /\ \A t \in 1..minted : token[t].challenge # n

\* The denylist covers the rest of the token's life, whatever is left of it.
Dead(t) == denied[t] >= Expiry(t) \/ ~Decodes(t)

\* What a worker has established by the time it is at a point of its handler.
HasToken == {"log_in", "reply", "denylist", "acting", "revoke", "deny", "log_out", "bye"}
JobOK(at, j) ==
  /\ at = "send" => j.challenge \in 1..issued
  /\ at \in {"select", "mint"} => Spent(j.challenge)
  /\ at \in HasToken => j.token \in 1..minted
  /\ at = "deny" => now + j.ttl * Rate >= Expiry(j.token)
  /\ at \in {"log_out", "bye"} => Dead(j.token)
  /\ at = "bye" => j.token \in audit.logout
JobsOK == \A w \in Workers : JobOK(pc[w], job[w])

\* At most one worker carries a challenge from its use to the session.
Carries(w, n) == pc[w] \in {"select", "mint"} /\ job[w].challenge = n
OneCarrier ==
  \A n \in Challenges : \A v, w \in Workers : Carries(v, n) /\ Carries(w, n) => v = w

\* Only what was issued can have been used, and what a session names was used.
CodesOK ==
  /\ \A n \in Challenges : n > issued => challenge[n].state = "none"
  /\ \A t \in 1..minted : token[t].challenge # 0 => challenge[token[t].challenge].state = "gone"

LogoutsOK == signedOut \subseteq audit.logout /\ \A t \in audit.logout : Dead(t)

Inv == TypeOK /\ JobsOK /\ OneCarrier /\ CodesOK /\ OneSessionPerChallenge /\ LogoutsOK
-----------------------------------------------------------------------------
\* Whole seconds are not later than the clock, and less than one behind.
LEMMA SecondsFacts ==
  ASSUME NEW n \in Nat
  PROVE  Seconds(n) \in Nat /\ Seconds(n) * Rate \in Nat /\ Seconds(n) * Rate <= n
BY SessionAssumption DEF Seconds

LEMMA ExpiryType ==
  ASSUME TypeOK, NEW t \in Tokens
  PROVE  token[t].exp \in Nat /\ Expiry(t) \in Nat /\ denied[t] \in Nat /\ now \in Nat
BY SessionAssumption DEF TypeOK, Token, Expiry

LEMMA MadeTypes ==
  ASSUME TypeOK
  PROVE  /\ minted \in Nat /\ 1..minted \subseteq Tokens
         /\ issued \in Nat /\ 1..issued \subseteq Challenges
<1>1. minted \in 0..MaxTokens /\ issued \in 0..MaxChallenges
  BY DEF TypeOK
<1>2. QED BY <1>1, SessionAssumption DEF Tokens, Challenges

LEMMA JobTypes ==
  /\ AnyAdmin \in Admins
  /\ \A a \in Admins, n \in 0..MaxChallenges, t \in 0..MaxTokens : LoginJob(a, n, t) \in Job
  /\ \A t \in 0..MaxTokens, ttl \in Nat : TokenJob(t, ttl) \in Job
  /\ NoJob \in Job
<1>1. AnyAdmin \in Admins
  BY SessionAssumption DEF AnyAdmin
<1>2. 0 \in 0..MaxTokens /\ 0 \in 0..MaxChallenges /\ 0 \in Nat
  BY SessionAssumption
<1>3. QED BY <1>1, <1>2 DEF LoginJob, TokenJob, NoJob, Job

LEMMA JobFields ==
  ASSUME TypeOK, NEW w \in Workers
  PROVE  /\ job[w] \in Job /\ job[w].admin \in Admins
         /\ job[w].challenge \in 0..MaxChallenges /\ job[w].token \in 0..MaxTokens
         /\ 0 \in 0..MaxTokens
<1>1. job[w] \in Job
  BY DEF TypeOK
<1>2. QED BY <1>1, SessionAssumption DEF Job

LEMMA InitInv == Init => Inv
<1> SUFFICES ASSUME Init PROVE Inv
  OBVIOUS
<1>1. TypeOK
  <2>1. challenge \in [Challenges -> Challenge]
    <3>1. (CHOOSE c \in Codes : TRUE) \in Codes
      BY SessionAssumption
    <3>2. QED BY <3>1, JobTypes DEF Init, Challenge
  <2>2. token \in [Tokens -> Token]
    BY SessionAssumption, JobTypes DEF Init, Token
  <2>3. pc \in [Workers -> PCs] /\ job \in [Workers -> Job]
    BY JobTypes DEF Init, PCs
  <2>4. now \in 0..MaxTime /\ issued \in 0..MaxChallenges /\ minted \in 0..MaxTokens
    BY SessionAssumption DEF Init
  <2>5. QED BY <2>1, <2>2, <2>3, <2>4 DEF Init, TypeOK
<1>2. JobsOK
  BY DEF Init, JobsOK, JobOK, HasToken
<1>3. OneCarrier
  BY DEF Init, OneCarrier, Carries
<1>4. CodesOK
  BY DEF Init, CodesOK
<1>5. OneSessionPerChallenge
  BY DEF Init, OneSessionPerChallenge
<1>6. LogoutsOK
  BY DEF Init, LogoutsOK
<1>7. QED BY <1>1, <1>2, <1>3, <1>4, <1>5, <1>6 DEF Inv
-----------------------------------------------------------------------------
\* What every step does to the state the workers' knowledge is about: it only
\* grows, and a token that is dead stays dead.
Grows ==
  /\ now <= now' /\ issued <= issued' /\ minted <= minted'
  /\ audit.logout \subseteq audit'.logout
  /\ \A t \in 1..minted : token'[t] = token[t] /\ (Dead(t) => Dead(t)')

\* So what a worker knows stays true, but for the challenge it carries.
LEMMA JobKept ==
  ASSUME TypeOK, TypeOK', Grows, NEW at, NEW j \in Job, JobOK(at, j),
         at \in {"select", "mint"} => Spent(j.challenge)'
  PROVE  JobOK(at, j)'
<1>1. /\ now \in Nat /\ now' \in Nat /\ issued \in Nat /\ issued' \in Nat
      /\ minted \in Nat /\ minted' \in Nat /\ Rate \in Nat /\ j.ttl \in Nat
      /\ j.challenge \in Nat /\ j.token \in Nat
  BY SessionAssumption DEF TypeOK, Job
<1>2. at = "send" => j.challenge \in 1..issued'
  BY <1>1 DEF JobOK, Grows
<1>3. at \in HasToken => j.token \in 1..minted'
  BY <1>1 DEF JobOK, Grows
<1>4. at = "deny" => now' + j.ttl * Rate >= Expiry(j.token)'
  <2> SUFFICES ASSUME at = "deny" PROVE now' + j.ttl * Rate >= Expiry(j.token)'
    OBVIOUS
  <2>1. j.token \in 1..minted /\ now + j.ttl * Rate >= Expiry(j.token)
    BY DEF JobOK, HasToken
  <2>2. Expiry(j.token)' = Expiry(j.token)
    BY <2>1 DEF Grows, Expiry
  <2>3. j.token \in Tokens
    BY <2>1, MadeTypes
  <2>6. Expiry(j.token) \in Nat
    BY <2>3, ExpiryType
  <2>4. j.ttl * Rate \in Nat
    BY <1>1
  <2>5. QED BY <1>1, <2>1, <2>2, <2>4, <2>6 DEF Grows
<1>5. at \in {"log_out", "bye"} => Dead(j.token)'
  BY <1>1 DEF JobOK, HasToken, Grows
<1>6. at = "bye" => j.token \in audit'.logout
  BY DEF JobOK, Grows
<1>7. QED BY <1>2, <1>3, <1>4, <1>5, <1>6 DEF JobOK

\* One worker moves: the others keep what they know, if their challenges do.
LEMMA JobsKept ==
  ASSUME TypeOK, TypeOK', JobsOK, Grows,
         NEW w \in Workers, NEW to, NEW j, Begin(w, to, j), JobOK(to, j)',
         \A v \in Workers : v # w /\ pc[v] \in {"select", "mint"} => Spent(job[v].challenge)'
  PROVE  JobsOK'
<1>1. \A v \in Workers : v # w => pc'[v] = pc[v] /\ job'[v] = job[v] /\ job[v] \in Job
  BY DEF Begin, TypeOK
<1>2. pc'[w] = to /\ job'[w] = j
  BY DEF Begin, TypeOK
<1>3. ASSUME NEW v \in Workers, v # w, NEW at, NEW k, at = pc[v], k = job[v]
      PROVE  JobOK(at, k)'
  <2>1. JobOK(at, k) /\ k \in Job
    BY <1>1, <1>3 DEF JobsOK
  <2>2. at \in {"select", "mint"} => Spent(k.challenge)'
    BY <1>1, <1>3 DEF Spent
  <2>3. QED BY <2>1, <2>2, JobKept
<1>4. ASSUME NEW v \in Workers PROVE JobOK(pc[v], job[v])'
  <2>1. CASE v = w
    BY <1>2, <2>1 DEF JobOK, Spent, Dead, Expiry, Decodes
  <2>2. CASE v # w
    BY <1>1, <1>3, <2>2 DEF JobOK, Spent, Dead, Expiry, Decodes
  <2>3. QED BY <2>1, <2>2
<1>5. QED BY <1>4 DEF JobsOK

\* What the others carry stays used up while no token is minted.
LEMMA SpentKept ==
  ASSUME TypeOK, JobsOK, NEW w \in Workers, NEW to, NEW j, Begin(w, to, j),
         UNCHANGED <<minted, token>>,
         \A n \in Challenges : challenge[n].state = "gone" => challenge'[n].state = "gone"
  PROVE  \A v \in Workers : v # w /\ pc[v] \in {"select", "mint"} => Spent(job[v].challenge)'
<1> SUFFICES ASSUME NEW v \in Workers, v # w, pc[v] \in {"select", "mint"}
             PROVE  Spent(job[v].challenge)'
  OBVIOUS
<1>1. job'[v] = job[v] /\ Spent(job[v].challenge)
  BY DEF Begin, TypeOK, JobsOK, JobOK
<1>2. job[v].challenge # 0 => job[v].challenge \in Challenges
  BY SessionAssumption DEF TypeOK, Job, Challenges
<1>3. QED BY <1>1, <1>2 DEF Spent

LEMMA CarrierKept ==
  ASSUME TypeOK, OneCarrier,
         NEW w \in Workers, NEW to, NEW j, Begin(w, to, j),
         to \in {"select", "mint"} /\ j.challenge # 0 =>
           \A v \in Workers : v # w => ~Carries(v, j.challenge)
  PROVE  OneCarrier'
<1> SUFFICES ASSUME NEW n \in Challenges, NEW v \in Workers, NEW u \in Workers,
                    Carries(v, n)', Carries(u, n)'
             PROVE  v = u
  BY DEF OneCarrier
<1>1. n # 0
  BY SessionAssumption DEF Challenges
<1>2. \A x \in Workers : x # w => pc'[x] = pc[x] /\ job'[x] = job[x]
  BY DEF Begin, TypeOK
<1>3. pc'[w] = to /\ job'[w] = j
  BY DEF Begin, TypeOK
<1>4. CASE v # w /\ u # w
  BY <1>2, <1>4 DEF OneCarrier, Carries
<1>5. CASE v = w \/ u = w
  BY <1>1, <1>2, <1>3, <1>5 DEF Carries
<1>6. QED BY <1>4, <1>5
-----------------------------------------------------------------------------
\* A step that only moves a worker along its handler.
LEMMA Moved ==
  ASSUME Inv, NEW w \in Workers, NEW to \in PCs, NEW j \in Job, Begin(w, to, j),
         UNCHANGED <<now, accounts, codes, sessions, audit, revocation>>,
         JobOK(to, j),
         to \in {"select", "mint"} /\ j.challenge # 0 => Carries(w, j.challenge)
  PROVE  Inv'
<1> USE DEF Inv
<1>0. UNCHANGED <<now, mode, account, issued, challenge, mailed, minted, token, held,
                  denied, audit, signedOut>>
  BY DEF accounts, codes, sessions, revocation
<1>1. TypeOK'
  BY <1>0 DEF TypeOK, Begin
<1>2. Grows
  <2>1. \A t \in 1..minted : Dead(t) => Dead(t)'
    BY <1>0 DEF Dead, Expiry, Decodes
  <2>2. now \in Nat /\ issued \in Nat /\ minted \in Nat
    BY SessionAssumption DEF TypeOK
  <2>3. QED BY <1>0, <2>1, <2>2 DEF Grows
<1>3. JobOK(to, j)'
  BY <1>0 DEF JobOK, Spent, Dead, Expiry, Decodes
<1>4. \A v \in Workers : v # w /\ pc[v] \in {"select", "mint"} => Spent(job[v].challenge)'
  BY <1>0 DEF JobsOK, JobOK, Spent, Begin, TypeOK
<1>5. JobsOK'
  BY <1>1, <1>2, <1>3, <1>4, JobsKept
<1>6. OneCarrier'
  <2>1. to \in {"select", "mint"} /\ j.challenge # 0 =>
          \A v \in Workers : v # w => ~Carries(v, j.challenge)
    BY DEF OneCarrier, Challenges, Job
  <2>2. QED BY <2>1, CarrierKept
<1>7. CodesOK' /\ OneSessionPerChallenge' /\ LogoutsOK'
  BY <1>0 DEF CodesOK, OneSessionPerChallenge, LogoutsOK, Dead, Expiry, Decodes
<1>8. QED BY <1>1, <1>5, <1>6, <1>7

\* It returns to the top of its loop, or goes on with the job it has.
LEMMA GotoBegins ==
  ASSUME TypeOK, NEW w \in Workers, NEW to, Goto(w, to)
  PROVE  \E j \in Job : Begin(w, to, j) /\ (to # "idle" => j = job[w])
BY JobTypes DEF Goto, TypeOK

LEMMA AccountInv ==
  ASSUME Inv, NEW a \in Admins, CreateAdmin(a) \/ UpdatePassword(a) \/ DeleteAdmin(a)
  PROVE  Inv'
<1> USE DEF Inv
<1>0. UNCHANGED <<now, mode, issued, challenge, mailed, minted, token, held,
                  denied, audit, signedOut, pc, job>>
  BY DEF CreateAdmin, UpdatePassword, DeleteAdmin, codes, sessions, revocation
<1>1. account' \in [Admins -> {NoAccount, NoPassword} \cup Passwords]
  BY DEF CreateAdmin, UpdatePassword, DeleteAdmin, TypeOK
<1>2. TypeOK'
  BY <1>0, <1>1 DEF TypeOK
<1>3. JobsOK' /\ OneCarrier'
  BY <1>0 DEF JobsOK, JobOK, Spent, Dead, Expiry, Decodes, OneCarrier, Carries
<1>4. CodesOK' /\ OneSessionPerChallenge' /\ LogoutsOK'
  BY <1>0 DEF CodesOK, OneSessionPerChallenge, LogoutsOK, Dead, Expiry, Decodes
<1>5. QED BY <1>2, <1>3, <1>4

\* The steps that read the shared state and write none of it.
LEMMA MoveInv ==
  ASSUME Inv, NEW w \in Workers,
         \/ PasswordLogin(w) \/ RequestCode(w) \/ SelectAdmin(w)
         \/ StartRequest(w) \/ CheckDenylist(w) \/ FinishRequest(w)
         \/ StartLogout(w) \/ TakeRemaining(w) \/ Abandon(w)
  PROVE  Inv'
<1> USE DEF Inv
<1>0. JobOK(pc[w], job[w]) /\ job[w] \in Job /\ held \subseteq 1..minted /\ 1..minted \subseteq Tokens
  BY MadeTypes DEF JobsOK, TypeOK
<1>1. ASSUME NEW to \in PCs, Goto(w, to),
             UNCHANGED <<now, accounts, codes, sessions, audit, revocation>>,
             to # "idle" => JobOK(to, job[w]),
             to \in {"select", "mint"} => pc[w] \in {"select", "mint"}
      PROVE  Inv'
  <2>1. PICK j \in Job : Begin(w, to, j) /\ (to # "idle" => j = job[w])
    BY <1>1, GotoBegins
  <2>2. JobOK(to, j)
    BY <1>1, <2>1 DEF JobOK, HasToken
  <2>3. to \in {"select", "mint"} /\ j.challenge # 0 => Carries(w, j.challenge)
    BY <1>1, <2>1 DEF Carries
  <2>4. QED BY <1>1, <2>1, <2>2, <2>3, Moved
<1>2. CASE PasswordLogin(w)
  <2>1. PICK a \in Admins : Begin(w, "mint", LoginJob(a, 0, 0))
    BY <1>2 DEF PasswordLogin
  <2>2. LoginJob(a, 0, 0) \in Job /\ LoginJob(a, 0, 0).challenge = 0
    BY SessionAssumption, JobTypes DEF LoginJob
  <2>3. JobOK("mint", LoginJob(a, 0, 0))
    BY <2>2 DEF JobOK, Spent, HasToken
  <2>4. QED BY <1>2, <2>1, <2>2, <2>3, Moved DEF PasswordLogin, PCs
<1>3. CASE RequestCode(w)
  <2>1. PICK a \in Admins : Begin(w, "issue", LoginJob(a, 0, 0))
    BY <1>3 DEF RequestCode
  <2>2. LoginJob(a, 0, 0) \in Job
    BY SessionAssumption, JobTypes
  <2>3. JobOK("issue", LoginJob(a, 0, 0))
    BY DEF JobOK, HasToken
  <2>4. QED BY <1>3, <2>1, <2>2, <2>3, Moved DEF RequestCode, PCs
<1>4. CASE SelectAdmin(w)
  <2>1. PICK to \in {"mint", "idle"} : Goto(w, to)
    BY <1>4 DEF SelectAdmin
  <2>2. to # "idle" => JobOK(to, job[w])
    BY <1>0, <1>4, <2>1 DEF SelectAdmin, JobOK, HasToken
  <2>3. QED BY <1>1, <1>4, <2>1, <2>2 DEF SelectAdmin, PCs
<1>5. CASE StartRequest(w) \/ StartLogout(w)
  <2>1. PICK t \in held, to \in {"denylist", "revoke"} : Begin(w, to, TokenJob(t, 0))
    BY <1>5 DEF StartRequest, StartLogout
  <2>2. TokenJob(t, 0) \in Job /\ TokenJob(t, 0).token = t
    BY <1>0, <2>1, SessionAssumption, JobTypes DEF TokenJob, Tokens
  <2>3. JobOK(to, TokenJob(t, 0))
    BY <1>0, <2>1, <2>2 DEF JobOK, HasToken
  <2>4. QED BY <1>5, <2>1, <2>2, <2>3, Moved DEF StartRequest, StartLogout, PCs
<1>6. CASE CheckDenylist(w)
  <2>1. PICK to \in {"acting", "idle"} : Goto(w, to)
    BY <1>6 DEF CheckDenylist
  <2>2. to # "idle" => JobOK(to, job[w])
    BY <1>0, <1>6, <2>1 DEF CheckDenylist, JobOK, HasToken
  <2>3. QED BY <1>1, <1>6, <2>1, <2>2 DEF CheckDenylist, PCs
<1>7. CASE FinishRequest(w) \/ Abandon(w)
  BY <1>1, <1>7 DEF FinishRequest, Abandon, PCs
<1>8. CASE TakeRemaining(w)
  <2> DEFINE t == job[w].token
  <2>1. /\ t \in 1..minted /\ t \in Tokens /\ t \in 0..MaxTokens
        /\ token[t].exp \in Nat /\ Expiry(t) \in Nat /\ now \in Nat /\ Rate \in Nat \ {0}
    BY <1>0, <1>8, SessionAssumption, ExpiryType DEF TakeRemaining, JobOK, HasToken, Tokens
  <2>2. Seconds(now) \in Nat /\ Seconds(now) * Rate \in Nat /\ Seconds(now) * Rate <= now
    BY <2>1, SecondsFacts
  <2>3. CASE Remaining(t) > 0
    <3>1. Begin(w, "deny", TokenJob(t, Remaining(t)))
      BY <1>8, <2>3 DEF TakeRemaining
    <3>2. Remaining(t) \in Nat
      BY <2>1, <2>2, <2>3 DEF Remaining
    <3>3. TokenJob(t, Remaining(t)) \in Job
      BY <2>1, <3>2, JobTypes
    <3>4. Remaining(t) * Rate = Expiry(t) - Seconds(now) * Rate
      BY <2>1, <2>2 DEF Remaining, Expiry
    <3>5. now + Remaining(t) * Rate >= Expiry(t)
      BY <2>1, <2>2, <3>4
    <3>6. JobOK("deny", TokenJob(t, Remaining(t)))
      BY <2>1, <3>5 DEF JobOK, HasToken, TokenJob
    <3>7. QED BY <1>8, <3>1, <3>3, <3>6, Moved DEF TakeRemaining, PCs
  <2>4. CASE ~(Remaining(t) > 0)
    <3>1. Goto(w, "log_out")
      BY <1>8, <2>4 DEF TakeRemaining
    <3>2. token[t].exp <= Seconds(now)
      BY <2>1, <2>2, <2>4 DEF Remaining
    <3>3. Expiry(t) <= Seconds(now) * Rate
      BY <2>1, <2>2, <3>2 DEF Expiry
    <3>4. ~Decodes(t)
      BY <2>1, <2>2, <3>3 DEF Decodes
    <3>5. JobOK("log_out", job[w])
      BY <2>1, <3>4 DEF JobOK, HasToken, Dead
    <3>6. QED BY <1>1, <1>8, <3>1, <3>5 DEF TakeRemaining, PCs
  <2>5. QED BY <2>3, <2>4
<1>9. QED BY <1>2, <1>3, <1>4, <1>5, <1>6, <1>7, <1>8
-----------------------------------------------------------------------------
\* A code is stored under a fresh number; an older one may be replaced, which
\* uses up nothing a worker carries or a session names.
LEMMA IssueCodeInv ==
  ASSUME Inv, NEW w \in Workers, IssueCode(w)
  PROVE  Inv'
<1> USE DEF Inv
<1>0. /\ UNCHANGED <<now, mode, account, mailed, minted, token, held, denied, audit, signedOut>>
      /\ issued' = issued + 1 /\ issued \in Nat /\ issued' \in Challenges /\ issued' \in 0..MaxChallenges
  BY SessionAssumption DEF IssueCode, accounts, sessions, revocation, TypeOK, Challenges
<1>1. PICK c \in Codes : challenge' = Stored(issued + 1, job[w].admin, c)
  BY DEF IssueCode
<1>2. PICK j \in Job : Begin(w, "send", j) /\ j.challenge = issued'
  <2>1. LoginJob(job[w].admin, issued + 1, 0) \in Job
    BY <1>0, JobFields, JobTypes
  <2>2. LoginJob(job[w].admin, issued + 1, 0).challenge = issued'
    BY <1>0 DEF LoginJob
  <2>3. QED BY <2>1, <2>2 DEF IssueCode
<1>3. challenge' \in [Challenges -> Challenge]
  <2>1. now + CodeTTL * Rate \in Nat /\ job[w].admin \in Admins
    BY SessionAssumption, JobFields DEF TypeOK
  <2>2. [state |-> "stored", admin |-> job[w].admin, code |-> c, until |-> now + CodeTTL * Rate]
          \in Challenge
    BY <2>1 DEF Challenge
  <2>3. \A m \in Challenges : [challenge[m] EXCEPT !.state = "gone"] \in Challenge
    BY DEF Challenge, TypeOK
  <2>4. QED BY <1>1, <2>2, <2>3 DEF Stored, TypeOK
<1>4. TypeOK'
  <2>1. pc' \in [Workers -> PCs] /\ job' \in [Workers -> Job]
    BY <1>0, <1>2 DEF Begin, TypeOK, PCs
  <2>2. mailed' \subseteq 1..issued'
    BY <1>0 DEF TypeOK
  <2>3. QED BY <1>0, <1>3, <2>1, <2>2 DEF TypeOK
<1>5. \A n \in Challenges : challenge[n].state = "gone" => challenge'[n].state = "gone"
  <2> SUFFICES ASSUME NEW n \in Challenges, challenge[n].state = "gone"
               PROVE  challenge'[n].state = "gone"
    OBVIOUS
  <2>1. n # issued + 1
    BY <1>0 DEF CodesOK, Challenges
  <2>2. QED BY <1>1, <2>1 DEF Stored
<1>6. Grows
  BY <1>0, SessionAssumption DEF Grows, Dead, Expiry, Decodes, TypeOK
<1>7. JobOK("send", j)'
  BY <1>0, <1>2 DEF JobOK, HasToken, Challenges
<1>8. \A v \in Workers : v # w /\ pc[v] \in {"select", "mint"} => Spent(job[v].challenge)'
  BY <1>0, <1>2, <1>5, SpentKept
<1>9. JobsOK'
  BY <1>2, <1>4, <1>6, <1>7, <1>8, JobsKept
<1>10. OneCarrier'
  BY <1>2, CarrierKept
<1>11. CodesOK'
  <2>1. \A n \in Challenges : n > issued' => challenge'[n].state = "none"
    BY <1>0, <1>1 DEF CodesOK, Stored, Challenges
  <2>2. \A t \in 1..minted : token[t].challenge # 0 => token[t].challenge \in Challenges
    BY MadeTypes DEF TypeOK, Token, Challenges
  <2>3. QED BY <1>0, <1>5, <2>1, <2>2 DEF CodesOK
<1>12. OneSessionPerChallenge' /\ LogoutsOK'
  BY <1>0 DEF OneSessionPerChallenge, LogoutsOK, Dead, Expiry, Decodes
<1>13. QED BY <1>4, <1>9, <1>10, <1>11, <1>12

\* The entry leaves the store in the same step in which the worker reads it, so
\* nobody else can carry it, and no session names it yet.
LEMMA SubmitCodeInv ==
  ASSUME Inv, NEW w \in Workers, SubmitCode(w)
  PROVE  Inv'
<1> USE DEF Inv
<1>0. UNCHANGED <<now, mode, account, issued, mailed, minted, token, held, denied, audit, signedOut>>
  BY DEF SubmitCode, accounts, sessions, revocation
<1>1. PICK n \in Challenges :
        /\ Presentable(n) /\ challenge' = Consumed(n)
        /\ Begin(w, "select", LoginJob(challenge[n].admin, n, 0)) \/ Goto(w, "idle")
  BY DEF SubmitCode
<1>2. /\ n # 0 /\ n \in 0..MaxChallenges /\ 0 \in 0..MaxTokens
      /\ challenge[n].admin \in Admins /\ challenge[n].state = "stored"
  BY <1>1, SessionAssumption DEF Challenges, TypeOK, Challenge, Presentable
<1>3. PICK to \in {"select", "idle"}, j \in Job :
        Begin(w, to, j) /\ (to = "select" => j.challenge = n)
  <2>1. CASE Begin(w, "select", LoginJob(challenge[n].admin, n, 0))
    <3>1. LoginJob(challenge[n].admin, n, 0) \in Job
      BY <1>2, JobTypes
    <3>2. LoginJob(challenge[n].admin, n, 0).challenge = n
      BY DEF LoginJob
    <3>3. QED BY <2>1, <3>1, <3>2
  <2>2. CASE Goto(w, "idle")
    BY <2>2, GotoBegins
  <2>3. QED BY <1>1, <2>1, <2>2
<1>4. /\ challenge' \in [Challenges -> Challenge]
      /\ challenge'[n].state = "gone"
      /\ \A m \in Challenges : challenge[m].state = "gone" => challenge'[m].state = "gone"
      /\ \A m \in Challenges : challenge[m].state = "none" => challenge'[m].state = "none"
  BY <1>1, <1>2 DEF Consumed, Challenge, TypeOK
<1>5. TypeOK'
  <2>1. pc' \in [Workers -> PCs] /\ job' \in [Workers -> Job]
    BY <1>3 DEF Begin, TypeOK, PCs
  <2>2. QED BY <1>0, <1>4, <2>1 DEF TypeOK
<1>6. Grows
  BY <1>0, SessionAssumption DEF Grows, Dead, Expiry, Decodes, TypeOK
<1>7. \A t \in 1..minted : token[t].challenge # n
  BY <1>2 DEF CodesOK
<1>8. JobOK(to, j)'
  BY <1>0, <1>3, <1>4, <1>7 DEF JobOK, HasToken, Spent
<1>9. \A v \in Workers : v # w /\ pc[v] \in {"select", "mint"} => Spent(job[v].challenge)'
  BY <1>0, <1>3, <1>4, SpentKept
<1>10. JobsOK'
  BY <1>3, <1>5, <1>6, <1>8, <1>9, JobsKept
<1>11. OneCarrier'
  <2>1. \A v \in Workers : ~Carries(v, n)
    BY <1>2 DEF JobsOK, JobOK, Carries, Spent
  <2>2. QED BY <1>3, <2>1, CarrierKept
<1>12. CodesOK'
  <2>1. \A t \in 1..minted : token[t].challenge # 0 => token[t].challenge \in Challenges
    BY MadeTypes DEF TypeOK, Token, Challenges
  <2>2. QED BY <1>0, <1>4, <2>1 DEF CodesOK
<1>13. OneSessionPerChallenge' /\ LogoutsOK'
  BY <1>0 DEF OneSessionPerChallenge, LogoutsOK, Dead, Expiry, Decodes
<1>14. QED BY <1>5, <1>10, <1>11, <1>12, <1>13
-----------------------------------------------------------------------------
\* A step that records something (an e-mail, a reply, an audit row, a denylist
\* entry) and makes no challenge or token.
LEMMA Recorded ==
  ASSUME Inv, NEW w \in Workers, NEW to \in PCs \ {"select", "mint"},
         NEW j \in Job, Begin(w, to, j), JobOK(to, j)',
         UNCHANGED <<now, mode, account, issued, challenge, minted, token>>,
         mailed' \subseteq 1..issued, held' \subseteq 1..minted, signedOut' \subseteq 1..minted,
         denied' \in [Tokens -> Nat],
         audit' \in [login: SUBSET (1..minted), logout: SUBSET (1..minted)],
         audit.logout \subseteq audit'.logout,
         \A t \in 1..minted : Dead(t) => Dead(t)',
         LogoutsOK'
  PROVE  Inv'
<1> USE DEF Inv
<1>1. TypeOK'
  <2>1. pc' \in [Workers -> PCs] /\ job' \in [Workers -> Job]
    BY DEF Begin, TypeOK
  <2>2. QED BY <2>1 DEF TypeOK
<1>2. Grows
  BY SessionAssumption DEF Grows, TypeOK
<1>3. \A v \in Workers : v # w /\ pc[v] \in {"select", "mint"} => Spent(job[v].challenge)'
  BY SpentKept
<1>4. JobsOK'
  BY <1>1, <1>2, <1>3, JobsKept
<1>5. OneCarrier'
  BY CarrierKept
<1>6. CodesOK' /\ OneSessionPerChallenge'
  BY DEF CodesOK, OneSessionPerChallenge
<1>7. QED BY <1>1, <1>4, <1>5, <1>6

LEMMA RecordInv ==
  ASSUME Inv, NEW w \in Workers,
         \/ SendCode(w) \/ LogLogin(w) \/ ReplyLogin(w)
         \/ Deny(w) \/ LogLogout(w) \/ ReplyLogout(w)
  PROVE  Inv'
<1> USE DEF Inv
<1>0. /\ UNCHANGED <<now, mode, account, issued, challenge, minted, token>>
      /\ JobOK(pc[w], job[w]) /\ job[w] \in Job /\ 1..minted \subseteq Tokens
      /\ mailed \subseteq 1..issued /\ held \subseteq 1..minted /\ signedOut \subseteq 1..minted
      /\ denied \in [Tokens -> Nat]
      /\ audit \in [login: SUBSET (1..minted), logout: SUBSET (1..minted)]
  BY MadeTypes DEF SendCode, LogLogin, ReplyLogin, Deny, LogLogout, ReplyLogout,
    accounts, codes, sessions, JobsOK, TypeOK
<1>1. CASE SendCode(w)
  <2>1. PICK j \in Job : Begin(w, "idle", j)
    BY <1>1, GotoBegins DEF SendCode
  <2>2. UNCHANGED <<held, denied, audit, signedOut>>
    BY <1>1 DEF SendCode, sessions, revocation
  <2>3. mailed' \subseteq 1..issued
    BY <1>0, <1>1 DEF SendCode, JobOK
  <2>4. LogoutsOK' /\ JobOK("idle", j)' /\ \A t \in 1..minted : Dead(t) => Dead(t)'
    BY <1>0, <2>2 DEF LogoutsOK, JobOK, HasToken, Dead, Expiry, Decodes
  <2>5. QED BY <1>0, <2>1, <2>2, <2>3, <2>4, Recorded DEF PCs
<1>2. CASE ReplyLogin(w)
  <2>1. PICK j \in Job : Begin(w, "idle", j)
    BY <1>2, GotoBegins DEF ReplyLogin
  <2>2. UNCHANGED <<mailed, denied, audit, signedOut>>
    BY <1>2 DEF ReplyLogin, codes, revocation
  <2>3. held' \subseteq 1..minted
    BY <1>0, <1>2 DEF ReplyLogin, JobOK, HasToken
  <2>4. LogoutsOK' /\ JobOK("idle", j)' /\ \A t \in 1..minted : Dead(t) => Dead(t)'
    BY <1>0, <2>2 DEF LogoutsOK, JobOK, HasToken, Dead, Expiry, Decodes
  <2>5. QED BY <1>0, <2>1, <2>2, <2>3, <2>4, Recorded DEF PCs
<1>3. CASE LogLogin(w)
  <2>1. PICK j \in Job : Begin(w, "reply", j) /\ j = job[w]
    BY <1>3, GotoBegins DEF LogLogin
  <2>2. UNCHANGED <<mailed, held, denied, signedOut>>
    BY <1>3 DEF LogLogin, codes, sessions, revocation
  <2>3. j.token \in 1..minted
    BY <1>0, <1>3, <2>1 DEF LogLogin, JobOK, HasToken
  <2>4. /\ audit' \in [login: SUBSET (1..minted), logout: SUBSET (1..minted)]
        /\ audit'.logout = audit.logout
    BY <1>0, <1>3, <2>1, <2>3 DEF LogLogin
  <2>5. LogoutsOK' /\ JobOK("reply", j)' /\ \A t \in 1..minted : Dead(t) => Dead(t)'
    BY <1>0, <2>2, <2>3, <2>4 DEF LogoutsOK, JobOK, HasToken, Dead, Expiry, Decodes
  <2>6. QED BY <1>0, <2>1, <2>2, <2>4, <2>5, Recorded DEF PCs
<1>4. CASE Deny(w)
  <2>1. PICK j \in Job : Begin(w, "log_out", j) /\ j = job[w]
    BY <1>4, GotoBegins DEF Deny
  <2>2. UNCHANGED <<mailed, held, audit, signedOut>>
    BY <1>4 DEF Deny, codes, sessions
  <2>3. j.token \in 1..minted /\ j.token \in Tokens /\ now + j.ttl * Rate >= Expiry(j.token)
    BY <1>0, <1>4, <2>1 DEF Deny, JobOK, HasToken
  <2>4. now + j.ttl * Rate \in Nat
    <3>1. j.ttl \in Nat /\ now \in Nat /\ Rate \in Nat
      BY SessionAssumption DEF Job, TypeOK
    <3>2. QED BY <3>1
  <2>5. denied' = [denied EXCEPT ![j.token] = now + j.ttl * Rate]
    BY <1>4, <2>1 DEF Deny
  <2>6. denied' \in [Tokens -> Nat]
    BY <1>0, <2>4, <2>5
  <2>7. Dead(j.token)'
    BY <1>0, <2>3, <2>5 DEF Dead, Expiry
  <2>8. \A t \in 1..minted : Dead(t) => Dead(t)'
    BY <1>0, <2>5, <2>7 DEF Dead, Expiry, Decodes
  <2>9. LogoutsOK'
    BY <1>0, <2>2, <2>8 DEF LogoutsOK
  <2>10. JobOK("log_out", j)'
    BY <1>0, <2>3, <2>7 DEF JobOK, HasToken
  <2>11. QED BY <1>0, <2>1, <2>2, <2>6, <2>8, <2>9, <2>10, Recorded DEF PCs
<1>5. CASE LogLogout(w)
  <2>1. PICK j \in Job : Begin(w, "bye", j) /\ j = job[w]
    BY <1>5, GotoBegins DEF LogLogout
  <2>2. UNCHANGED <<mailed, held, denied, signedOut>>
    BY <1>5 DEF LogLogout, codes, sessions, revocation
  <2>3. j.token \in 1..minted /\ Dead(j.token)
    BY <1>0, <1>5, <2>1 DEF LogLogout, JobOK, HasToken
  <2>4. /\ audit' \in [login: SUBSET (1..minted), logout: SUBSET (1..minted)]
        /\ audit'.logout = audit.logout \cup {j.token}
    BY <1>0, <1>5, <2>1, <2>3 DEF LogLogout
  <2>5. \A t \in 1..minted : Dead(t) => Dead(t)'
    BY <1>0, <2>2 DEF Dead, Expiry, Decodes
  <2>6. LogoutsOK'
    BY <1>0, <2>2, <2>3, <2>4, <2>5 DEF LogoutsOK
  <2>7. JobOK("bye", j)'
    BY <1>0, <2>3, <2>4, <2>5 DEF JobOK, HasToken
  <2>8. QED BY <1>0, <2>1, <2>2, <2>4, <2>5, <2>6, <2>7, Recorded DEF PCs
<1>6. CASE ReplyLogout(w)
  <2>1. PICK j \in Job : Begin(w, "idle", j)
    BY <1>6, GotoBegins DEF ReplyLogout
  <2>2. UNCHANGED <<mailed, held, denied, audit>>
    BY <1>6 DEF ReplyLogout, codes, sessions
  <2>3. job[w].token \in audit.logout
    BY <1>0, <1>6 DEF ReplyLogout, JobOK
  <2>4. signedOut' = signedOut \cup {job[w].token} /\ signedOut' \subseteq 1..minted
    BY <1>0, <1>6, <2>3 DEF ReplyLogout
  <2>5. \A t \in 1..minted : Dead(t) => Dead(t)'
    BY <1>0, <2>2 DEF Dead, Expiry, Decodes
  <2>6. LogoutsOK'
    BY <1>0, <2>2, <2>3, <2>4, <2>5 DEF LogoutsOK
  <2>7. JobOK("idle", j)'
    BY DEF JobOK, HasToken
  <2>8. QED BY <1>0, <2>1, <2>2, <2>4, <2>5, <2>6, <2>7, Recorded DEF PCs
<1>7. QED BY <1>1, <1>2, <1>3, <1>4, <1>5, <1>6
-----------------------------------------------------------------------------
\* A session is made of a challenge nobody else carries and no session names.
LEMMA MintInv ==
  ASSUME Inv, NEW w \in Workers, Mint(w)
  PROVE  Inv'
<1> USE DEF Inv
<1>0. /\ UNCHANGED <<now, mode, account, issued, challenge, mailed, held, denied, audit, signedOut>>
      /\ pc[w] = "mint" /\ minted \in Nat /\ minted' = minted + 1
      /\ minted' \in 0..MaxTokens /\ minted' \in Tokens
  BY SessionAssumption DEF Mint, accounts, codes, revocation, TypeOK, Tokens
<1>1. PICK j \in Job : Begin(w, "log_in", j) /\ j.token = minted' /\ j.challenge = job[w].challenge
  <2>1. LoginJob(job[w].admin, job[w].challenge, minted + 1) \in Job
    BY <1>0, JobFields, JobTypes
  <2>2. /\ LoginJob(job[w].admin, job[w].challenge, minted + 1).token = minted'
        /\ LoginJob(job[w].admin, job[w].challenge, minted + 1).challenge = job[w].challenge
    BY <1>0 DEF LoginJob
  <2>3. QED BY <2>1, <2>2 DEF Mint
<1>2. /\ token' \in [Tokens -> Token]
      /\ token'[minted'].challenge = job[w].challenge
      /\ \A t \in 1..minted : token'[t] = token[t]
  <2>1. Seconds(now) + TokenTTL \in Nat
    BY SessionAssumption, SecondsFacts DEF TypeOK
  <2>2. [admin |-> job[w].admin, exp |-> Seconds(now) + TokenTTL, challenge |-> job[w].challenge]
          \in Token
    BY <2>1, JobFields DEF Token
  <2>3. token' = [token EXCEPT ![minted'] =
                   [admin |-> job[w].admin, exp |-> Seconds(now) + TokenTTL,
                    challenge |-> job[w].challenge]]
    BY <1>0 DEF Mint
  <2>4. token \in [Tokens -> Token]
    BY DEF TypeOK
  <2>5. QED BY <1>0, <2>2, <2>3, <2>4
<1>3. TypeOK'
  <2>1. pc' \in [Workers -> PCs] /\ job' \in [Workers -> Job]
    BY <1>1 DEF Begin, TypeOK, PCs
  <2>2. 1..minted \subseteq 1..minted'
    BY <1>0
  <2>3. /\ held' \subseteq 1..minted' /\ signedOut' \subseteq 1..minted'
        /\ audit' \in [login: SUBSET (1..minted'), logout: SUBSET (1..minted')]
    BY <1>0, <2>2 DEF TypeOK
  <2>4. QED BY <1>0, <1>2, <2>1, <2>3 DEF TypeOK
<1>4. Grows
  <2>1. \A t \in 1..minted : Dead(t) => Dead(t)'
    BY <1>0, <1>2 DEF Dead, Expiry, Decodes
  <2>2. now \in Nat /\ issued \in Nat
    BY SessionAssumption DEF TypeOK
  <2>3. QED BY <1>0, <1>2, <2>1, <2>2 DEF Grows
<1>5. JobOK("log_in", j)'
  BY <1>0, <1>1 DEF JobOK, HasToken
<1>6. Spent(job[w].challenge)
  BY <1>0 DEF JobsOK, JobOK
<1>7. \A t \in 1..minted' : t \in 1..minted \/ t = minted'
  BY <1>0
<1>8. \A v \in Workers : v # w /\ pc[v] \in {"select", "mint"} => Spent(job[v].challenge)'
  <2> SUFFICES ASSUME NEW v \in Workers, v # w, pc[v] \in {"select", "mint"}
               PROVE  Spent(job[v].challenge)'
    OBVIOUS
  <2>1. job'[v] = job[v] /\ Spent(job[v].challenge)
    BY <1>1 DEF Begin, TypeOK, JobsOK, JobOK
  <2>2. job[v].challenge # 0 => job[v].challenge # job[w].challenge
    <3>1. job[v].challenge # 0 => job[v].challenge \in Challenges
      BY JobFields, SessionAssumption DEF Challenges
    <3>2. QED BY <1>0, <3>1 DEF OneCarrier, Carries
  <2>3. QED BY <1>0, <1>2, <1>7, <2>1, <2>2 DEF Spent
<1>9. JobsOK'
  BY <1>1, <1>3, <1>4, <1>5, <1>8, JobsKept
<1>10. OneCarrier'
  BY <1>1, CarrierKept
<1>11. CodesOK'
  BY <1>0, <1>2, <1>6, <1>7 DEF CodesOK, Spent
<1>12. OneSessionPerChallenge'
  BY <1>0, <1>2, <1>6, <1>7 DEF OneSessionPerChallenge, Spent
<1>13. LogoutsOK'
  <2>1. audit.logout \subseteq 1..minted
    BY DEF TypeOK
  <2>2. QED BY <1>0, <1>4, <2>1 DEF LogoutsOK, Grows
<1>14. QED BY <1>3, <1>9, <1>10, <1>11, <1>12, <1>13

\* The clock revives nothing.
LEMMA TickInv == Inv /\ Tick => Inv'
<1> SUFFICES ASSUME Inv, Tick PROVE Inv'
  OBVIOUS
<1> USE DEF Inv
<1>0. /\ UNCHANGED <<mode, account, issued, challenge, mailed, minted, token, held,
                     denied, audit, signedOut, pc, job>>
      /\ now \in Nat /\ now' = now + 1 /\ now' \in 0..MaxTime
  BY SessionAssumption DEF Tick, accounts, codes, sessions, revocation, TypeOK
<1>1. TypeOK'
  BY <1>0 DEF TypeOK
<1>2. \A t \in 1..minted : Dead(t) => Dead(t)'
  <2> SUFFICES ASSUME NEW t \in 1..minted, Dead(t) PROVE Dead(t)'
    OBVIOUS
  <2>1. Expiry(t) \in Nat /\ Expiry(t)' = Expiry(t) /\ denied'[t] = denied[t]
    BY <1>0, ExpiryType, MadeTypes DEF Expiry
  <2>2. QED BY <1>0, <2>1 DEF Dead, Decodes
<1>3. Grows
  <2>1. issued \in Nat /\ minted \in Nat
    BY MadeTypes
  <2>2. QED BY <1>0, <1>2, <2>1 DEF Grows
<1>4. JobsOK'
  <2>1. ASSUME NEW v \in Workers, NEW at, NEW k, at = pc[v], k = job[v]
        PROVE  JobOK(at, k)'
    <3>1. JobOK(at, k) /\ k \in Job
      BY <2>1 DEF JobsOK, TypeOK
    <3>2. at \in {"select", "mint"} => Spent(k.challenge)'
      BY <1>0, <3>1 DEF JobOK, Spent
    <3>3. QED BY <1>1, <1>3, <3>1, <3>2, JobKept
  <2>2. \A v \in Workers : JobOK(pc[v], job[v])'
    BY <1>0, <2>1 DEF JobOK, Spent, Dead, Expiry, Decodes
  <2>3. QED BY <2>2 DEF JobsOK
<1>5. OneCarrier' /\ CodesOK' /\ OneSessionPerChallenge'
  BY <1>0 DEF OneCarrier, Carries, CodesOK, OneSessionPerChallenge
<1>6. LogoutsOK'
  <2>1. audit.logout \subseteq 1..minted
    BY DEF TypeOK
  <2>2. QED BY <1>0, <1>2, <2>1 DEF LogoutsOK
<1>7. QED BY <1>1, <1>4, <1>5, <1>6
-----------------------------------------------------------------------------
LEMMA NextInv == Inv /\ [Next]_vars => Inv'
<1> SUFFICES ASSUME Inv, [Next]_vars PROVE Inv'
  OBVIOUS
<1>1. CASE \E a \in Admins : CreateAdmin(a) \/ UpdatePassword(a) \/ DeleteAdmin(a)
  BY <1>1, AccountInv
<1>2. ASSUME NEW w \in Workers, Step(w)
      PROVE  Inv'
  BY <1>2, MoveInv, IssueCodeInv, SubmitCodeInv, RecordInv, MintInv DEF Step
<1>3. CASE Tick
  BY <1>3, TickInv
<1>4. CASE UNCHANGED vars
  BY <1>4 DEF vars, Inv, TypeOK, JobsOK, JobOK, Spent, Dead, Expiry, Decodes, OneCarrier,
    Carries, CodesOK, OneSessionPerChallenge, LogoutsOK
<1>5. QED BY <1>1, <1>2, <1>3, <1>4 DEF Next

LEMMA SpecInv == Spec => []Inv
BY InitInv, NextInv, PTL DEF Spec

\* The variables have their types, and no token or challenge is named before it
\* was made.
THEOREM TypeCorrect == Spec => []TypeOK
<1>1. Inv => TypeOK
  BY DEF Inv
<1>2. QED BY SpecInv, <1>1, PTL

\* However many workers receive a code or a link, and however often it was
\* mailed or replaced, it becomes at most one session (verify_otp,
\* verify_magic_link).
THEOREM OneSession == Spec => []OneSessionPerChallenge
<1>1. Inv => OneSessionPerChallenge
  BY DEF Inv
<1>2. QED BY SpecInv, <1>1, PTL

LEMMA LogoutsAreDead == Inv => LoggedOutIsDead
<1> SUFFICES ASSUME Inv, NEW t \in audit.logout, Decodes(t) PROVE Alive(denied[t])
  BY DEF LoggedOutIsDead
<1>1. t \in Tokens /\ TypeOK /\ Dead(t)
  BY MadeTypes DEF Inv, TypeOK, LogoutsOK
<1>2. Expiry(t) \in Nat /\ denied[t] \in Nat /\ now \in Nat
  BY <1>1, ExpiryType
<1>3. QED BY <1>1, <1>2 DEF Dead, Decodes, Alive

\* Whatever the clock rate and the lifetimes, a logged sign-out is covered by
\* the denylist until the token expires, although the entry's lifetime was taken
\* in whole seconds before it was written (revoke_admin_token).
THEOREM LogoutFinal == Spec => []LoggedOutIsDead
BY SpecInv, LogoutsAreDead, PTL

\* No handler gets past the denylist with a token whose sign-out was answered,
\* unless the token expired on the way (verify_admin_token).
THEOREM RevokedOut == Spec => RevokedStaysOut
<1>1. Inv /\ [Next]_vars =>
        [\A w \in Workers :
           pc[w] = "denylist" /\ pc'[w] = "acting" /\ job[w].token \in signedOut =>
             ~Decodes(job[w].token)]_vars
  <2> SUFFICES ASSUME Inv, Next, NEW w \in Workers,
                      pc[w] = "denylist", pc'[w] = "acting", job[w].token \in signedOut,
                      Decodes(job[w].token)
               PROVE  FALSE
    BY DEF vars
  <2>1. TypeOK /\ job[w].token \in audit.logout /\ LoggedOutIsDead
    BY LogoutsAreDead DEF Inv, LogoutsOK
  <2>2. Alive(denied[job[w].token])
    BY <2>1 DEF LoggedOutIsDead
  <2>3. ~CheckDenylist(w)
    BY <2>1, <2>2 DEF CheckDenylist, Goto, Begin, TypeOK
  <2>4. ASSUME NEW v \in Workers, NEW to, NEW j, Begin(v, to, j)
        PROVE  v = w /\ to = "acting"
    BY <2>1, <2>4 DEF Begin, TypeOK
  <2>5. ASSUME NEW v \in Workers, NEW to, Goto(v, to)
        PROVE  v = w /\ to = "acting"
    BY <2>4, <2>5 DEF Goto
  <2>6. ASSUME NEW v \in Workers, Step(v)
        PROVE  FALSE
    <3>1. ~CheckDenylist(v)
      BY <2>3, <2>5 DEF CheckDenylist
    <3>2. ~TakeRemaining(v)
      BY <2>4, <2>5 DEF TakeRemaining
    <3>3. ~SubmitCode(v) /\ ~SelectAdmin(v) /\ ~Mint(v) /\ ~IssueCode(v)
      BY <2>4, <2>5 DEF SubmitCode, SelectAdmin, Mint, IssueCode
    <3>4. ~PasswordLogin(v) /\ ~RequestCode(v) /\ ~StartRequest(v) /\ ~StartLogout(v)
      BY <2>4 DEF PasswordLogin, RequestCode, StartRequest, StartLogout
    <3>5. ~SendCode(v) /\ ~LogLogin(v) /\ ~ReplyLogin(v) /\ ~FinishRequest(v)
      BY <2>5 DEF SendCode, LogLogin, ReplyLogin, FinishRequest
    <3>6. ~Deny(v) /\ ~LogLogout(v) /\ ~ReplyLogout(v) /\ ~Abandon(v)
      BY <2>5 DEF Deny, LogLogout, ReplyLogout, Abandon
    <3>7. QED BY <2>6, <3>1, <3>2, <3>3, <3>4, <3>5, <3>6 DEF Step
  <2>7. ~Tick /\ \A a \in Admins : ~CreateAdmin(a) /\ ~UpdatePassword(a) /\ ~DeleteAdmin(a)
    BY DEF Tick, CreateAdmin, UpdatePassword, DeleteAdmin
  <2>8. QED BY <2>6, <2>7 DEF Next
<1>2. QED BY SpecInv, <1>1, PTL DEF Spec, RevokedStaysOut
=============================================================================
