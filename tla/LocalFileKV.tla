------------------------------ MODULE LocalFileKV ------------------------------
(***************************************************************************)
(* LocalFileKV (storage/kv/local.py): the store as one JSON file that      *)
(* every operation loads, changes and replaces under a lock of the         *)
(* process.  open_kv (storage/kv/factory.py) refuses several workers, so   *)
(* there is one process; its threads interleave, its clock runs on between *)
(* any two steps, writing may fail and the process may be killed.          *)
(***************************************************************************)
EXTENDS Integers, Sequences

CONSTANTS
  Threads,
  Tokens,    \* keys of CAPTCHAs, OTPs, magic links: set, deleted, consumed
  Counters,  \* keys of rate-limit windows: incremented
  TTLs,      \* ttl_seconds; 0 for none
  MaxTime,   \* bound: seconds
  MaxCalls   \* bound: operations called

ASSUME LocalFileAssumption ==
  /\ Tokens \cap Counters = {}
  /\ Tokens \cup Counters # {}
  /\ TTLs \subseteq Nat
  /\ TTLs # {} => \E n \in TTLs : \A m \in TTLs : m <= n
  /\ {MaxTime, MaxCalls} \subseteq Nat
  /\ "free" \notin Threads

VARIABLES
  now,
  file,    \* file[k]: what store.json holds under k
  lock,    \* the thread in the lock, or Free
  calls,   \* how many operations were called
  opened,  \* history: how many entries were written with an expiry of their own
  pc, op,  \* where each thread is, and its locals
  given    \* history: what consume and incr answered with

vars == <<now, file, lock, calls, opened, pc, op, given>>
-----------------------------------------------------------------------------
Keys == Tokens \cup Counters
MaxTTL == IF TTLs = {} THEN 0 ELSE CHOOSE n \in TTLs : \A m \in TTLs : m <= n
Times == 1..(MaxTime + MaxTTL)
Free == "free"

Never == 0
Nothing == [stamp |-> 0, value |-> 0, expires |-> Never]
Entry == [stamp: 0..MaxCalls, value: 0..MaxCalls, expires: {Never} \cup Times]
Empty == [k \in Keys |-> Nothing]

KindsOf(k) == {"get", "scan"} \cup (IF k \in Tokens THEN {"set", "delete", "consume"} ELSE {"incr"})
Kinds == {"get", "scan", "set", "delete", "consume", "incr"}
PCs == {"idle", "lock", "load", "act", "save", "return"}

\* data is the dictionary in memory, held the entry to answer with; history: the
\* time of the call.
Op == [kind: Kinds, key: Keys, expires: {Never} \cup Times, since: 0..MaxTime,
       data: [Keys -> Entry], held: Entry]
NoOp == [kind |-> "get", key |-> CHOOSE k \in Keys : TRUE, expires |-> Never, since |-> 0,
         data |-> Empty, held |-> Nothing]

Alive(e) == e # Nothing /\ (e.expires = Never \/ now < e.expires)

Expiry(ttl) == IF ttl > 0 THEN now + ttl ELSE Never

Goto(t, to) == pc' = [pc EXCEPT ![t] = to]

Init ==
  /\ now = 0
  /\ file = Empty
  /\ lock = Free
  /\ calls = 0
  /\ opened = 0
  /\ pc = [t \in Threads |-> "idle"]
  /\ op = [t \in Threads |-> NoOp]
  /\ given = <<>>

Call(t) ==
  /\ pc[t] = "idle"
  /\ calls < MaxCalls
  /\ calls' = calls + 1
  /\ \E k \in Keys : \E kind \in KindsOf(k) :
       \E x \in IF kind = "set" THEN {Expiry(ttl) : ttl \in TTLs} ELSE {Never} :
         op' = [op EXCEPT ![t] = [NoOp EXCEPT !.kind = kind, !.key = k, !.expires = x,
                                             !.since = now]]
  /\ Goto(t, "lock")
  /\ UNCHANGED <<now, file, lock, opened, given>>

\* Mutant: the lock keeps out only one's own calls.
CanLockOwn(t) == pc[t] = "lock"
CanLock(t) == lock = Free

Lock(t) ==
  /\ pc[t] = "lock"
  /\ CanLock(t)
  /\ lock' = t
  /\ Goto(t, "load")
  /\ UNCHANGED <<now, file, calls, opened, op, given>>

Load(t) ==
  /\ pc[t] = "load"
  /\ op' = [op EXCEPT ![t].data = file]
  /\ Goto(t, "act")
  /\ UNCHANGED <<now, file, lock, calls, opened, given>>

\* What a thread does to its dictionary, and whether it saves it.
Act(t, data, e, saves) ==
  /\ pc[t] = "act"
  /\ op' = [op EXCEPT ![t].data = data, ![t].held = e]
  /\ Goto(t, IF saves THEN "save" ELSE "return")
  /\ UNCHANGED <<now, file, lock, calls, opened, given>>

Without(data, k) == [data EXCEPT ![k] = Nothing]

Get(t) ==
  LET data == op[t].data
      k == op[t].key
  IN /\ op[t].kind = "get"
     /\ IF data[k] = Nothing \/ Alive(data[k]) THEN Act(t, data, data[k], FALSE)
        ELSE Act(t, Without(data, k), Nothing, TRUE)

\* keys are those with the prefix, up to the limit.
Scan(t) ==
  LET data == op[t].data
  IN /\ op[t].kind = "scan"
     /\ \E keys \in SUBSET Keys :
          LET expired == {k \in keys : data[k] # Nothing /\ ~Alive(data[k])}
          IN Act(t, [k \in Keys |-> IF k \in expired THEN Nothing ELSE data[k]], Nothing,
                 expired # {})

Set(t) ==
  LET e == [stamp |-> opened + 1, value |-> 1, expires |-> op[t].expires]
  IN /\ op[t].kind = "set"
     /\ Act(t, [op[t].data EXCEPT ![op[t].key] = e], Nothing, TRUE)

Delete(t) ==
  LET data == op[t].data
      k == op[t].key
  IN /\ op[t].kind = "delete"
     /\ Act(t, Without(data, k), Nothing, data[k] # Nothing)

Consume(t) ==
  LET data == op[t].data
      k == op[t].key
  IN /\ op[t].kind = "consume"
     /\ Act(t, Without(data, k), data[k], data[k] # Nothing)

\* The next number of the window, which keeps its expiry.
\* Mutant: every hit prolongs the window.
CountedAnew(e, x) ==
  IF Alive(e) THEN [e EXCEPT !.value = @ + 1, !.expires = x]
  ELSE [stamp |-> opened + 1, value |-> 1, expires |-> x]
Counted(e, x) ==
  IF Alive(e) THEN [e EXCEPT !.value = @ + 1]
  ELSE [stamp |-> opened + 1, value |-> 1, expires |-> x]

Incr(t) ==
  LET data == op[t].data
      k == op[t].key
  IN /\ op[t].kind = "incr"
     /\ \E ttl \in TTLs :
          LET e == Counted(data[k], Expiry(ttl))
          IN Act(t, [data EXCEPT ![k] = e], e, TRUE)

\* mkstemp, dump and os.replace, which is atomic.
Save(t) ==
  /\ pc[t] = "save"
  /\ file' = op[t].data
  /\ opened' = IF \E k \in Keys : file'[k].stamp = opened + 1 THEN opened + 1 ELSE opened
  /\ Goto(t, "return")
  /\ UNCHANGED <<now, lock, calls, op, given>>

\* The file cannot be written; the temporary file is removed.
SaveFails(t) ==
  /\ pc[t] = "save"
  /\ lock' = Free
  /\ Goto(t, "idle")
  /\ op' = [op EXCEPT ![t] = NoOp]
  /\ UNCHANGED <<now, file, calls, opened, given>>

\* consume looks at the expiry after it has saved.
Answers(t) ==
  \/ op[t].kind = "incr"
  \/ op[t].kind = "consume" /\ Alive(op[t].held)

Return(t) ==
  /\ pc[t] = "return"
  /\ given' = IF Answers(t) THEN Append(given, op[t].held) ELSE given
  /\ lock' = Free
  /\ Goto(t, "idle")
  /\ op' = [op EXCEPT ![t] = NoOp]
  /\ UNCHANGED <<now, file, calls, opened>>

\* The process is killed and started again.
Crash ==
  /\ lock' = Free
  /\ pc' = [t \in Threads |-> "idle"]
  /\ op' = [t \in Threads |-> NoOp]
  /\ UNCHANGED <<now, file, calls, opened, given>>

Tick ==
  /\ now < MaxTime
  /\ now' = now + 1
  /\ UNCHANGED <<file, lock, calls, opened, pc, op, given>>

Step(t) ==
  \/ Call(t) \/ Lock(t) \/ Load(t)
  \/ Get(t) \/ Scan(t) \/ Set(t) \/ Delete(t) \/ Consume(t) \/ Incr(t)
  \/ Save(t) \/ SaveFails(t) \/ Return(t)

Next == Crash \/ Tick \/ \E t \in Threads : Step(t)

Spec == Init /\ [][Next]_vars
-----------------------------------------------------------------------------
\* An operation has taken effect when its thread is about to return.
StageOf(t) ==
  CASE pc[t] = "idle" -> "idle"
    [] pc[t] = "return" -> "done"
    [] OTHER -> "asked"

KV == INSTANCE KVStore WITH
  store <- file,
  asked <- [t \in Threads |-> [stage |-> StageOf(t), kind |-> op[t].kind, key |-> op[t].key,
                               expires |-> op[t].expires, since |-> op[t].since]],
  held <- [t \in Threads |-> IF pc[t] = "return" THEN op[t].held ELSE Nothing]

\* The variables have their types.
TypeOK ==
  /\ now \in 0..MaxTime
  /\ file \in [Keys -> Entry]
  /\ lock \in Threads \cup {Free}
  /\ calls \in 0..MaxCalls
  /\ opened \in 0..MaxCalls
  /\ pc \in [Threads -> PCs]
  /\ op \in [Threads -> Op]
  /\ given \in Seq(Entry)

\* consume hands a token out at most once and incr a number, however threads
\* interleave, saves fail and the process dies between os.replace and return
\* (LocalFileKV.consume, LocalFileKV.incr).
GivenOnce == KV!GivenOnce

\* The file, loaded and replaced as a whole, behaves as a store whose operations
\* are atomic: no operation undoes another on a different key, a count keeps its
\* window, and nothing but an operation or its own expiry removes an entry
\* (LocalFileKV against the KVBackend contract).
ImplementsKV == KV!Spec
=============================================================================
