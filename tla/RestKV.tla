-------------------------------- MODULE RestKV --------------------------------
(***************************************************************************)
(* RestKV (storage/kv/rest.py): every operation is one HTTP command to a   *)
(* Redis server, or several.  A request or its answer may get lost, which  *)
(* the caller sees as a KVError after the timeout in either case; a        *)
(* request that was given up may still reach the server.  Nothing is       *)
(* retried.                                                                *)
(***************************************************************************)
EXTENDS Integers, SequencesExt

CONSTANTS
  Threads,   \* threads, of one process or of several
  Tokens,    \* keys that are set, deleted, consumed
  Counters,  \* keys of rate-limit windows
  TTLs,      \* ttl_seconds; 0 for none
  MaxTime,   \* bound: seconds
  MaxCalls   \* bound: operations called

VARIABLES
  now,
  store,    \* the server's entry under each key
  opened,   \* history: how many entries were written with an expiry of their own
  calls,    \* how many operations were called
  pc, op,   \* where each thread is, and its locals
  late,     \* commands that were given up and are still on their way
  severed,  \* history: counters with an incr that did not come to its end
  steady,   \* history: the keys that were there all through a thread's scan
  given     \* history: what consume and incr answered with

vars == <<now, store, opened, calls, pc, op, late, severed, steady, given>>
-----------------------------------------------------------------------------
Keys == Tokens \cup Counters
Never == 0
Times == 1..(MaxTime + Max(TTLs \cup {0}))
Nothing == [stamp |-> 0, value |-> 0, expires |-> Never]
Entry == [stamp: 0..MaxCalls, value: 0..MaxCalls, expires: {Never} \cup Times]
Alive(e) == e # Nothing /\ (e.expires = Never \/ now < e.expires)
Live == {k \in Keys : Alive(store[k])}
Expiry(ttl) == IF ttl > 0 THEN now + ttl ELSE Never
Opened(ttl) == [stamp |-> opened + 1, value |-> 1, expires |-> Expiry(ttl)]

KindsOf(k) == {"get", "scan"} \cup (IF k \in Tokens THEN {"set", "delete", "consume"} ELSE {"incr"})
Kinds == {"get", "scan", "set", "delete", "consume", "incr"}
Names == {"GET", "SET", "DEL", "GETDEL", "INCR", "EXPIRE", "SCAN"}

\* The commands an operation sends; exists sends EXISTS, for the same answer as GET.
\* Mutant: consume gets the value and deletes it afterwards.
GetThenDelete(kind) ==
  CASE kind = "get" -> <<"GET">> [] kind = "set" -> <<"SET">> [] kind = "delete" -> <<"DEL">>
    [] kind = "consume" -> <<"GET", "DEL">> [] kind = "incr" -> <<"INCR", "EXPIRE">>
    [] kind = "scan" -> <<"SCAN">>
Commands(kind) ==
  CASE kind = "get" -> <<"GET">> [] kind = "set" -> <<"SET">> [] kind = "delete" -> <<"DEL">>
    [] kind = "consume" -> <<"GETDEL">> [] kind = "incr" -> <<"INCR", "EXPIRE">>
    [] kind = "scan" -> <<"SCAN">>

PCs == {"idle", "sent", "served", "return"}
\* step counts the commands, held is what the operation will answer with; a scan has
\* its limit, the keys that the cursor has not passed, the last batch, the result.
Op == [kind: Kinds, key: Keys, ttl: TTLs, step: 1..2, held: Entry, limit: Nat,
       left: SUBSET Keys, batch: SUBSET Keys, collected: Seq(Keys)]
NoOp == [kind |-> "get", key |-> CHOOSE k \in Keys : TRUE, ttl |-> CHOOSE n \in TTLs : TRUE,
         step |-> 1, held |-> Nothing, limit |-> 0, left |-> {}, batch |-> {},
         collected |-> <<>>]
Sent(t) == [name |-> Commands(op[t].kind)[op[t].step], key |-> op[t].key, ttl |-> op[t].ttl]

Goto(t, to) == pc' = [pc EXCEPT ![t] = to]

Init ==
  /\ now = 0
  /\ store = [k \in Keys |-> Nothing]
  /\ opened = 0
  /\ calls = 0
  /\ pc = [t \in Threads |-> "idle"]
  /\ op = [t \in Threads |-> NoOp]
  /\ late = {}
  /\ severed = {}
  /\ steady = [t \in Threads |-> {}]
  /\ given = <<>>

\* The rate limiter, the only caller of incr, always gives a TTL; the limit of a scan
\* is at least 1.
Call(t) ==
  /\ pc[t] = "idle"
  /\ calls < MaxCalls
  /\ calls' = calls + 1
  /\ \/ \E k \in Keys : \E kind \in KindsOf(k) \ {"scan"}, ttl \in TTLs :
          /\ ttl = NoOp.ttl \/ kind \in {"set", "incr"}
          /\ kind = "incr" => ttl > 0
          /\ op' = [op EXCEPT ![t].kind = kind, ![t].key = k, ![t].ttl = ttl]
     \/ \E limit \in 1..Cardinality(Keys) :
          op' = [op EXCEPT ![t].kind = "scan", ![t].limit = limit, ![t].left = Keys]
  /\ Goto(t, "sent")
  /\ UNCHANGED <<now, store, opened, late, severed, given>>
-----------------------------------------------------------------------------
(* The server, on which a command takes effect at once.                     *)

Opens(c) == c.name = "SET" \/ (c.name = "INCR" /\ ~Alive(store[c.key]))
After(c) ==
  LET e == store[c.key]
  IN CASE c.name = "SET" -> Opened(c.ttl)
       [] c.name \in {"DEL", "GETDEL"} -> Nothing
       [] c.name = "INCR" -> IF Alive(e) THEN [e EXCEPT !.value = @ + 1] ELSE Opened(0)
       [] c.name = "EXPIRE" -> IF Alive(e) THEN [e EXCEPT !.expires = Expiry(c.ttl)] ELSE e
       [] OTHER -> e
Answer(c) ==
  IF c.name = "INCR" THEN After(c)
  ELSE IF Alive(store[c.key]) THEN store[c.key] ELSE Nothing

Applies(c) ==
  /\ store' = [store EXCEPT ![c.key] = After(c)]
  /\ opened' = IF Opens(c) THEN opened + 1 ELSE opened

Serve(t) ==
  /\ pc[t] = "sent" /\ op[t].kind # "scan"
  /\ Applies(Sent(t))
  /\ op' = [op EXCEPT ![t].held = IF op[t].step = 1 THEN Answer(Sent(t)) ELSE @]
  /\ Goto(t, "served")
  /\ UNCHANGED <<now, calls, late, severed, given>>

\* SCAN: the cursor passes some keys.  Those that are there come back; others may
\* come back again.
ServePage(t) ==
  /\ pc[t] = "sent" /\ op[t].kind = "scan"
  /\ \E passed \in SUBSET op[t].left \ {{}}, again \in SUBSET (Live \ op[t].left) :
       op' = [op EXCEPT ![t].left = @ \ passed, ![t].batch = (passed \cap Live) \cup again]
  /\ Goto(t, "served")
  /\ UNCHANGED <<now, store, opened, calls, late, severed, given>>

\* A command that was given up arrives.
Arrive ==
  /\ \E c \in late : Applies(c) /\ late' = late \ {c}
  /\ UNCHANGED <<now, calls, pc, op, severed, given>>
-----------------------------------------------------------------------------
\* incr sets the expiry when INCR returned 1.
\* Mutants: at every hit; never, as if the key started from -1.
EveryHit(count) == TRUE
FirstIsZero(count) == count = 0
FirstHit(count) == count = 1

GoesOn(t) ==
  /\ op[t].step < Len(Commands(op[t].kind))
  /\ op[t].kind = "incr" => FirstHit(op[t].held.value)

\* _command returned; the operation sends its next command or is done.
Receive(t) ==
  /\ pc[t] = "served" /\ op[t].kind # "scan"
  /\ op' = IF GoesOn(t) THEN [op EXCEPT ![t].step = 2] ELSE op
  /\ Goto(t, IF GoesOn(t) THEN "sent" ELSE "return")
  /\ UNCHANGED <<now, store, opened, calls, late, severed, given>>

\* Mutant: an empty page is taken for the last.
StopsWhenEmpty(t) == op[t].left = {} \/ op[t].batch = {}
IsLastPage(t) == op[t].left = {}

ReceivePage(t) ==
  LET all == op[t].collected \o SetToSeq(op[t].batch)
      cut == SubSeq(all, 1, Min({Len(all), op[t].limit}))
  IN /\ pc[t] = "served" /\ op[t].kind = "scan"
     /\ op' = [op EXCEPT ![t].collected = cut, ![t].batch = {}]
     /\ Goto(t, IF Len(cut) = op[t].limit \/ IsLastPage(t) THEN "return" ELSE "sent")
     /\ UNCHANGED <<now, store, opened, calls, late, severed, given>>

\* Threads lose their operations.  Commands that were not served may yet be.
Sever(ts) ==
  /\ \E more \in SUBSET {Sent(t) : t \in {u \in ts : pc[u] = "sent"}} : late' = late \cup more
  /\ severed' = severed \cup
       {op[t].key : t \in {u \in ts : pc[u] \in {"sent", "served"} /\ op[u].kind = "incr"}}
  /\ pc' = [t \in Threads |-> IF t \in ts THEN "idle" ELSE pc[t]]
  /\ op' = [t \in Threads |-> IF t \in ts THEN NoOp ELSE op[t]]

\* KVError: a timeout, a broken connection, an error status, a body that is not JSON.
Fail(t) ==
  /\ pc[t] \in {"sent", "served"}
  /\ Sever({t})
  /\ UNCHANGED <<now, store, opened, calls, given>>

Return(t) ==
  /\ pc[t] = "return"
  /\ given' = IF op[t].kind \in {"consume", "incr"} /\ op[t].held # Nothing
              THEN Append(given, [stamp |-> op[t].held.stamp, value |-> op[t].held.value])
              ELSE given
  /\ Goto(t, "idle")
  /\ op' = [op EXCEPT ![t] = NoOp]
  /\ UNCHANGED <<now, store, opened, calls, late, severed>>

\* The process dies.
Crash == Sever(Threads) /\ UNCHANGED <<now, store, opened, calls, given>>

Tick ==
  /\ now < MaxTime
  /\ now' = now + 1
  /\ UNCHANGED <<store, opened, calls, pc, op, late, severed, given>>

Step(t) ==
  \/ Call(t) \/ Serve(t) \/ ServePage(t) \/ Receive(t) \/ ReceivePage(t) \/ Fail(t) \/ Return(t)

\* A scan can rely on the keys that stay there.
Watch ==
  steady' = [t \in Threads |->
               IF op'[t].kind # "scan" THEN {}
               ELSE IF pc[t] = "idle" THEN Live ELSE steady[t] \cap Live']

Next == (Crash \/ Arrive \/ Tick \/ \E t \in Threads : Step(t)) /\ Watch

Spec == Init /\ [][Next]_vars
-----------------------------------------------------------------------------
\* The variables have their types.
TypeOK ==
  /\ now \in 0..MaxTime
  /\ store \in [Keys -> Entry]
  /\ {opened, calls} \subseteq 0..MaxCalls
  /\ pc \in [Threads -> PCs]
  /\ op \in [Threads -> Op]
  /\ late \subseteq [name: Names, key: Keys, ttl: TTLs]
  /\ severed \subseteq Counters
  /\ steady \in [Threads -> SUBSET Keys]
  /\ given \in Seq([stamp: 1..MaxCalls, value: 1..MaxCalls])

\* consume hands a token out at most once and incr a number, although answers get
\* lost, commands arrive after they were given up and processes die.
GivenOnce == \A i, j \in DOMAIN given : given[i] = given[j] => i = j

\* A window ends: a counter has no expiry only while the incr that opened it is
\* under way, or if an incr of it failed (the EXPIRE after INCR in RestKV.incr).
WindowsEnd ==
  \A k \in Counters :
    Alive(store[k]) /\ store[k].expires = Never =>
      \/ k \in severed
      \/ \E t \in Threads :
           op[t].kind = "incr" /\ op[t].key = k /\ op[t].held.value = 1 /\ pc[t] # "return"

\* The hits of a window do not move its end, in whatever order the commands of
\* several processes arrive (RestKV.incr sets EXPIRE on the first hit only).
WindowStands ==
  [][\A k \in Counters :
       store'[k].stamp = store[k].stamp /\ store[k].expires # Never
         => store'[k].expires = store[k].expires]_store

\* A scan that stays below its limit has found every key that was there all the
\* time, over however many pages (RestKV.scan_prefix).
ScanFindsAll ==
  \A t \in Threads :
    pc[t] = "return" /\ op[t].kind = "scan" /\ Len(op[t].collected) < op[t].limit
      => steady[t] \subseteq ToSet(op[t].collected)
=============================================================================
