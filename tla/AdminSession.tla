----------------------------- MODULE AdminSession -----------------------------
(***************************************************************************)
(* Admin sessions: the three ways to log in (auth/login.py over otp.py,    *)
(* magic_link.py and admin_db.py), the JWT a login mints, the check every  *)
(* admin handler makes of it (verify_admin_token) and the sign-out route,  *)
(* which puts the token's jti on a denylist that expires by itself.        *)
(*                                                                         *)
(* A token carries whole seconds, the KV store and PyJWT compare with a    *)
(* clock of finer grain: time is counted in ticks, Rate of them a second.  *)
(* The clock may advance between any two steps of a handler.  All workers  *)
(* share one clock and one KV store.                                       *)
(***************************************************************************)
EXTENDS Integers, FiniteSets

CONSTANTS
  Admins,         \* e-mail addresses
  Passwords,
  NoAccount,      \* no admin_users row for the address
  NoPassword,     \* a row whose password_hash is NULL
  Codes,          \* the one-time codes that can be drawn
  Modes,          \* the auth_modes a deployment may configure
  Workers,
  Rate,           \* clock ticks per second
  TokenTTL,       \* DEFAULT_TOKEN_TTL_SECONDS
  CodeTTL,        \* OTP_TTL_SECONDS, MAGIC_LINK_TTL_SECONDS
  MaxTime,        \* bound: ticks the clock advances
  MaxTokens,      \* bound: tokens minted
  MaxChallenges   \* bound: codes and links issued

ASSUME SessionAssumption ==
  /\ {NoAccount, NoPassword} \cap Passwords = {}
  /\ NoAccount # NoPassword
  /\ Admins # {} /\ Codes # {}
  /\ Modes \subseteq {"password", "otp_email", "magic_link"}
  /\ Rate \in Nat \ {0}
  /\ TokenTTL \in Nat
  /\ CodeTTL \in Nat
  /\ MaxTime \in Nat /\ MaxTokens \in Nat /\ MaxChallenges \in Nat

VARIABLES
  now,          \* the clock, in ticks
  mode,         \* config.admin.auth_mode, fixed when the server starts
  account,      \* account[a]: the password of a's admin_users row
  issued,       \* how many codes and links were issued
  challenge,    \* challenge[n]: the KV entry of the n-th code or link
  mailed,       \* the challenges whose e-mail went out
  minted,       \* how many tokens were minted
  token,        \* token[t]: the claims of the t-th token
  held,         \* the tokens whose login response reached a client
  denied,       \* denied[t]: when the denylist entry of t's jti expires
  audit,        \* the "admin.login.success" and "admin.logout" rows, by token
  signedOut,    \* the tokens whose sign-out was answered {"revoked": true}
  pc, job       \* where each worker is in its handler, and its locals

accounts == <<mode, account>>
codes == <<issued, challenge, mailed>>
sessions == <<minted, token, held>>
revocation == <<denied, signedOut>>
vars == <<now, mode, account, issued, challenge, mailed, minted, token, held,
          denied, audit, signedOut, pc, job>>

-----------------------------------------------------------------------------
Challenges == 1..MaxChallenges
Tokens == 1..MaxTokens

Challenge == [state: {"none", "stored", "gone"}, admin: Admins, code: Codes, until: Nat]
Token == [admin: Admins, exp: Nat, challenge: 0..MaxChallenges]

PCs == {"idle", "issue", "send", "select", "mint", "log_in", "reply",
        "denylist", "acting", "revoke", "deny", "log_out", "bye"}

\* Only the fields the handler at work has set matter.
Job == [admin: Admins, challenge: 0..MaxChallenges, token: 0..MaxTokens, ttl: Nat]
AnyAdmin == CHOOSE a \in Admins : TRUE
LoginJob(a, n, t) == [admin |-> a, challenge |-> n, token |-> t, ttl |-> 0]
TokenJob(t, ttl) == [admin |-> AnyAdmin, challenge |-> 0, token |-> t, ttl |-> ttl]
NoJob == TokenJob(0, 0)
Begin(w, to, j) == pc' = [pc EXCEPT ![w] = to] /\ job' = [job EXCEPT ![w] = j]
Goto(w, to) == Begin(w, to, IF to = "idle" THEN NoJob ELSE job[w])

\* int(time.time())
Seconds(t) == t \div Rate

\* An entry is returned while the clock is before its expiry.
Alive(until) == now < until
\* PyJWT rejects a token once exp <= now, with now as a fraction.
Expiry(t) == token[t].exp * Rate
Decodes(t) == now < Expiry(t)

Init ==
  /\ now = 0
  /\ mode \in Modes
  /\ account \in [Admins -> {NoAccount, NoPassword} \cup Passwords]
  /\ issued = 0
  /\ challenge = [n \in Challenges |->
       [state |-> "none", admin |-> AnyAdmin, code |-> CHOOSE c \in Codes : TRUE, until |-> 0]]
  /\ mailed = {}
  /\ minted = 0
  /\ token = [t \in Tokens |-> [admin |-> AnyAdmin, exp |-> 0, challenge |-> 0]]
  /\ held = {}
  /\ denied = [t \in Tokens |-> 0]
  /\ audit = [login |-> {}, logout |-> {}]
  /\ signedOut = {}
  /\ pc = [w \in Workers |-> "idle"]
  /\ job = [w \in Workers |-> NoJob]

-----------------------------------------------------------------------------
(* admin_users, maintained by an operator. *)

CreateAdmin(a) ==
  /\ account[a] = NoAccount
  /\ \E p \in Passwords \cup {NoPassword} : account' = [account EXCEPT ![a] = p]
  /\ UNCHANGED <<now, mode, codes, sessions, audit, revocation, pc, job>>

UpdatePassword(a) ==
  /\ account[a] # NoAccount
  /\ \E p \in Passwords : account' = [account EXCEPT ![a] = p]
  /\ UNCHANGED <<now, mode, codes, sessions, audit, revocation, pc, job>>

DeleteAdmin(a) ==
  /\ account[a] # NoAccount
  /\ account' = [account EXCEPT ![a] = NoAccount]
  /\ UNCHANGED <<now, mode, codes, sessions, audit, revocation, pc, job>>

-----------------------------------------------------------------------------
(* perform_login.  A failed attempt leaves an "admin.login.failure" row, which
   names no session and is not kept. *)

\* One SELECT fetches the row and its hash.
PasswordLogin(w) ==
  /\ pc[w] = "idle"
  /\ mode = "password"
  /\ \E a \in Admins : account[a] \in Passwords /\ Begin(w, "mint", LoginJob(a, 0, 0))
  /\ UNCHANGED <<now, accounts, codes, sessions, audit, revocation>>

\* An address without an account gets a decoy KV entry nobody reads.
RequestCode(w) ==
  /\ pc[w] = "idle"
  /\ mode # "password"
  /\ \E a \in Admins : account[a] # NoAccount /\ Begin(w, "issue", LoginJob(a, 0, 0))
  /\ UNCHANGED <<now, accounts, codes, sessions, audit, revocation>>

\* An OTP is stored under its address and replaces the one before it; a link
\* has a key of its own.
Stored(n, a, code) ==
  [m \in Challenges |->
    IF m = n
    THEN [state |-> "stored", admin |-> a, code |-> code, until |-> now + CodeTTL * Rate]
    ELSE IF mode = "otp_email" /\ challenge[m].state = "stored" /\ challenge[m].admin = a
         THEN [challenge[m] EXCEPT !.state = "gone"]
         ELSE challenge[m]]

IssueCode(w) ==
  /\ pc[w] = "issue"
  /\ issued < MaxChallenges
  /\ \E c \in Codes : challenge' = Stored(issued + 1, job[w].admin, c)
  /\ issued' = issued + 1
  /\ Begin(w, "send", LoginJob(job[w].admin, issued + 1, 0))
  /\ UNCHANGED <<now, accounts, mailed, sessions, audit, revocation>>

SendCode(w) ==
  /\ pc[w] = "send"
  /\ mailed' = mailed \cup {job[w].challenge}
  /\ Goto(w, "idle")
  /\ UNCHANGED <<now, accounts, issued, challenge, sessions, audit, revocation>>

\* kv.consume: the entry is gone whatever comes of the comparison.
\* Mutant: the entry is read and left to expire.
ConsumedNot(n) == challenge
Consumed(n) == [challenge EXCEPT ![n].state = "gone"]

\* A code is whatever the client typed; a link holds 32 random bytes, so only
\* one that was mailed can be presented.
Presentable(n) ==
  /\ challenge[n].state = "stored"
  /\ mode = "magic_link" => n \in mailed

SubmitCode(w) ==
  /\ pc[w] = "idle"
  /\ mode # "password"
  /\ \E n \in Challenges, c \in Codes :
       /\ Presentable(n)
       /\ challenge' = Consumed(n)
       /\ IF Alive(challenge[n].until) /\ (mode = "otp_email" => c = challenge[n].code)
          THEN Begin(w, "select", LoginJob(challenge[n].admin, n, 0))
          ELSE Goto(w, "idle")
  /\ UNCHANGED <<now, accounts, issued, mailed, sessions, audit, revocation>>

\* The account may have been removed since the code was issued.
SelectAdmin(w) ==
  /\ pc[w] = "select"
  /\ Goto(w, IF account[job[w].admin] # NoAccount THEN "mint" ELSE "idle")
  /\ UNCHANGED <<now, accounts, codes, sessions, audit, revocation>>

Mint(w) ==
  /\ pc[w] = "mint"
  /\ minted < MaxTokens
  /\ token' = [token EXCEPT ![minted + 1] =
                 [admin |-> job[w].admin, exp |-> Seconds(now) + TokenTTL,
                  challenge |-> job[w].challenge]]
  /\ minted' = minted + 1
  /\ Begin(w, "log_in", LoginJob(job[w].admin, job[w].challenge, minted + 1))
  /\ UNCHANGED <<now, accounts, codes, held, audit, revocation>>

LogLogin(w) ==
  /\ pc[w] = "log_in"
  /\ audit' = [audit EXCEPT !.login = @ \cup {job[w].token}]
  /\ Goto(w, "reply")
  /\ UNCHANGED <<now, accounts, codes, sessions, revocation>>

ReplyLogin(w) ==
  /\ pc[w] = "reply"
  /\ held' = held \cup {job[w].token}
  /\ Goto(w, "idle")
  /\ UNCHANGED <<now, accounts, codes, minted, token, audit, revocation>>

-----------------------------------------------------------------------------
(* verify_admin_token with a KV store, as every admin handler calls it: decode
   first, then look the jti up. *)

StartRequest(w) ==
  /\ pc[w] = "idle"
  /\ \E t \in held : Decodes(t) /\ Begin(w, "denylist", TokenJob(t, 0))
  /\ UNCHANGED <<now, accounts, codes, sessions, audit, revocation>>

CheckDenylist(w) ==
  /\ pc[w] = "denylist"
  /\ Goto(w, IF Alive(denied[job[w].token]) THEN "idle" ELSE "acting")
  /\ UNCHANGED <<now, accounts, codes, sessions, audit, revocation>>

\* What the handler does with the verified token is the other modules' matter.
FinishRequest(w) ==
  /\ pc[w] = "acting"
  /\ Goto(w, "idle")
  /\ UNCHANGED <<now, accounts, codes, sessions, audit, revocation>>

-----------------------------------------------------------------------------
(* The sign-out route.  It decodes the token twice with nothing in between,
   which the later decode alone decides. *)

StartLogout(w) ==
  /\ pc[w] = "idle"
  /\ \E t \in held : Decodes(t) /\ Begin(w, "revoke", TokenJob(t, 0))
  /\ UNCHANGED <<now, accounts, codes, sessions, audit, revocation>>

\* Mutant: the fraction of the second is dropped after the subtraction.
RemainingDown(t) == (Expiry(t) - now) \div Rate
Remaining(t) == token[t].exp - Seconds(now)

\* Mutant: the audit row is written before the denylist entry.
TakeRemainingLogged(w) ==
  /\ pc[w] = "revoke"
  /\ LET t == job[w].token
     IN /\ audit' = [audit EXCEPT !.logout = @ \cup {t}]
        /\ IF Remaining(t) > 0
           THEN Begin(w, "deny", TokenJob(t, Remaining(t)))
           ELSE Goto(w, "log_out")
  /\ UNCHANGED <<now, accounts, codes, sessions, revocation>>
TakeRemaining(w) ==
  /\ pc[w] = "revoke"
  /\ LET t == job[w].token
     IN IF Remaining(t) > 0
        THEN Begin(w, "deny", TokenJob(t, Remaining(t)))
        ELSE Goto(w, "log_out")
  /\ UNCHANGED <<now, accounts, codes, sessions, audit, revocation>>

Deny(w) ==
  /\ pc[w] = "deny"
  /\ denied' = [denied EXCEPT ![job[w].token] = now + job[w].ttl * Rate]
  /\ Goto(w, "log_out")
  /\ UNCHANGED <<now, accounts, codes, sessions, audit, signedOut>>

LogLogout(w) ==
  /\ pc[w] = "log_out"
  /\ audit' = [audit EXCEPT !.logout = @ \cup {job[w].token}]
  /\ Goto(w, "bye")
  /\ UNCHANGED <<now, accounts, codes, sessions, revocation>>

ReplyLogout(w) ==
  /\ pc[w] = "bye"
  /\ signedOut' = signedOut \cup {job[w].token}
  /\ Goto(w, "idle")
  /\ UNCHANGED <<now, accounts, codes, sessions, audit, denied>>

-----------------------------------------------------------------------------
\* The worker is killed, a KV call fails, an e-mail provider raises.
Abandon(w) ==
  /\ pc[w] # "idle"
  /\ Goto(w, "idle")
  /\ UNCHANGED <<now, accounts, codes, sessions, audit, revocation>>

Tick ==
  /\ now < MaxTime
  /\ now' = now + 1
  /\ UNCHANGED <<accounts, codes, sessions, audit, revocation, pc, job>>

Step(w) ==
  \/ PasswordLogin(w) \/ RequestCode(w) \/ IssueCode(w) \/ SendCode(w)
  \/ SubmitCode(w) \/ SelectAdmin(w) \/ Mint(w) \/ LogLogin(w) \/ ReplyLogin(w)
  \/ StartRequest(w) \/ CheckDenylist(w) \/ FinishRequest(w)
  \/ StartLogout(w) \/ TakeRemaining(w) \/ Deny(w) \/ LogLogout(w) \/ ReplyLogout(w)
  \/ Abandon(w)

Next ==
  \/ \E a \in Admins : CreateAdmin(a) \/ UpdatePassword(a) \/ DeleteAdmin(a)
  \/ \E w \in Workers : Step(w)
  \/ Tick

Spec == Init /\ [][Next]_vars
-----------------------------------------------------------------------------
\* The variables have their types, and no token or challenge is named before
\* it was made.
TypeOK ==
  /\ now \in 0..MaxTime
  /\ mode \in Modes
  /\ account \in [Admins -> {NoAccount, NoPassword} \cup Passwords]
  /\ issued \in 0..MaxChallenges
  /\ challenge \in [Challenges -> Challenge]
  /\ mailed \subseteq 1..issued
  /\ minted \in 0..MaxTokens
  /\ token \in [Tokens -> Token]
  /\ held \subseteq 1..minted
  /\ denied \in [Tokens -> Nat]
  /\ audit \in [login: SUBSET (1..minted), logout: SUBSET (1..minted)]
  /\ signedOut \subseteq 1..minted
  /\ pc \in [Workers -> PCs]
  /\ job \in [Workers -> Job]

\* A code or link logs in once, however many workers receive it at the same
\* time (verify_otp and verify_magic_link consume their KV entry atomically).
OneSessionPerChallenge ==
  \A t, u \in 1..minted :
    token[t].challenge = token[u].challenge /\ token[t].challenge # 0 => t = u

\* The sign-out of a token that is in the audit trail is final: until the token
\* expires its denylist entry is alive, although the entry's lifetime was taken
\* in whole seconds at an earlier time (revoke_admin_token).
LoggedOutIsDead ==
  \A t \in audit.logout : Decodes(t) => Alive(denied[t])

\* Once a client was told that its token is revoked, no handler gets past the
\* denylist with that token, unless the token expired while the handler was on
\* its way to the KV store (verify_admin_token decodes before it looks up).
RevokedStaysOut ==
  [][\A w \in Workers :
       pc[w] = "denylist" /\ pc'[w] = "acting" /\ job[w].token \in signedOut =>
         ~Decodes(job[w].token)]_vars

=============================================================================
