-------------------------------- MODULE KVStore --------------------------------
(***************************************************************************)
(* What the handlers rely on a key/value store for: the KVBackend contract *)
(* of storage/kv/base.py as its MemoryKV fulfils it.  Each operation takes *)
(* effect in one step between its call and its return; an entry lives      *)
(* until its expiry.                                                       *)
(***************************************************************************)
EXTENDS Integers, Sequences

CONSTANTS
  Threads,
  Keys,
  Times  \* what an expiry can be, other than Never

VARIABLES
  now,
  store,   \* store[k]: the entry under key k
  opened,  \* how many entries were written with an expiry of their own
  asked,   \* asked[t]: the operation thread t has called, when, and whether it took effect
  held,    \* held[t]: the entry t is about to answer with
  given    \* history: the entries that consume and incr answered with, in order

vars == <<now, store, opened, asked, held, given>>
-----------------------------------------------------------------------------
Never == 0
Expiries == Times \cup {Never}

\* An entry is known by the number it was opened under; value is the count of a
\* counter, and 1 for anything else.
Nothing == [stamp |-> 0, value |-> 0, expires |-> Never]
AliveAt(e, time) == e # Nothing /\ (e.expires = Never \/ time < e.expires)
Alive(e) == AliveAt(e, now)
Opened(x) == [stamp |-> opened + 1, value |-> 1, expires |-> x]

NoCall == [stage |-> "idle", kind |-> "get", key |-> CHOOSE k \in Keys : TRUE,
           expires |-> Never, since |-> 0]
Asking(t, kind) == asked[t].stage = "asked" /\ asked[t].kind = kind
Done(t) == asked' = [asked EXCEPT ![t].stage = "done"]
Holds(t, e) == held' = [held EXCEPT ![t] = e]

Init ==
  /\ now = 0
  /\ store \in [Keys -> {Nothing}]
  /\ opened = 0
  /\ asked = [t \in Threads |-> NoCall]
  /\ held = [t \in Threads |-> Nothing]
  /\ given = <<>>

\* set() computes the expiry when it is called.
Call(t) ==
  /\ asked[t].stage = "idle"
  /\ asked'[t].stage = "asked"
  /\ asked'[t].expires \in Expiries
  /\ asked'[t].since = now
  /\ asked' = [asked EXCEPT ![t] = asked'[t]]
  /\ UNCHANGED <<now, store, opened, held, given>>

\* get and scan_prefix forget expired entries they come across.
Get(t) ==
  LET k == asked[t].key
  IN /\ Asking(t, "get")
     /\ Holds(t, IF Alive(store[k]) THEN store[k] ELSE Nothing)
     /\ store' = [store EXCEPT ![k] = IF Alive(@) THEN @ ELSE Nothing]
     /\ Done(t)
     /\ UNCHANGED <<now, opened, given>>

Scan(t) ==
  /\ Asking(t, "scan")
  /\ \A k \in Keys : store'[k] = store[k] \/ (store'[k] = Nothing /\ ~Alive(store[k]))
  /\ DOMAIN store' = Keys
  /\ Done(t)
  /\ UNCHANGED <<now, opened, held, given>>

Set(t) ==
  /\ Asking(t, "set")
  /\ store' = [store EXCEPT ![asked[t].key] = Opened(asked[t].expires)]
  /\ opened' = opened + 1
  /\ Done(t)
  /\ UNCHANGED <<now, held, given>>

Delete(t) ==
  /\ Asking(t, "delete")
  /\ store' = [store EXCEPT ![asked[t].key] = Nothing]
  /\ Done(t)
  /\ UNCHANGED <<now, opened, held, given>>

Consume(t) ==
  LET k == asked[t].key
  IN /\ Asking(t, "consume")
     /\ Holds(t, store[k])
     /\ store' = [store EXCEPT ![k] = Nothing]
     /\ Done(t)
     /\ UNCHANGED <<now, opened, given>>

\* incr counts on and keeps the expiry, or opens a window.  The window it counts
\* in may end while it does.
Incr(t) ==
  LET k == asked[t].key
  IN /\ Asking(t, "incr")
     /\ \/ /\ AliveAt(store[k], asked[t].since)
           /\ store' = [store EXCEPT ![k].value = @ + 1]
           /\ opened' = opened
        \/ /\ ~Alive(store[k])
           /\ \E x \in Expiries : store' = [store EXCEPT ![k] = Opened(x)]
           /\ opened' = opened + 1
     /\ Holds(t, store'[k])
     /\ Done(t)
     /\ UNCHANGED <<now, given>>

\* An expired entry that was consumed is not answered with.
Answers(t) ==
  \/ asked[t].kind = "incr"
  \/ asked[t].kind = "consume" /\ Alive(held[t])

Return(t) ==
  /\ asked[t].stage = "done"
  /\ given' = IF Answers(t) THEN Append(given, held[t]) ELSE given
  /\ asked' = [asked EXCEPT ![t] = NoCall]
  /\ Holds(t, Nothing)
  /\ UNCHANGED <<now, store, opened>>

\* KVError: the operation has no effect.
Fail(t) ==
  /\ asked[t].stage = "asked"
  /\ asked' = [asked EXCEPT ![t] = NoCall]
  /\ UNCHANGED <<now, store, opened, held, given>>

\* The process dies; the store survives it.
Crash ==
  /\ asked' = [t \in Threads |-> NoCall]
  /\ held' = [t \in Threads |-> Nothing]
  /\ UNCHANGED <<now, store, opened, given>>

Tick ==
  /\ now' = now + 1
  /\ UNCHANGED <<store, opened, asked, held, given>>

Next ==
  \/ Crash \/ Tick
  \/ \E t \in Threads :
       \/ Call(t) \/ Get(t) \/ Scan(t) \/ Set(t) \/ Delete(t) \/ Consume(t) \/ Incr(t)
       \/ Return(t) \/ Fail(t)

Spec == Init /\ [][Next]_vars
-----------------------------------------------------------------------------
\* No token is handed out twice by consume and no number twice by incr, however
\* the operations overlap ("Implementations must not return the same value
\* twice", storage/kv/base.py).
GivenOnce == \A i, j \in 1..Len(given) : given[i] = given[j] => i = j
=============================================================================
