--------------------------- MODULE ResponseCache ---------------------------
(***************************************************************************)
(* The Redis cache in front of the hot read endpoints (src/cache.rs):      *)
(* get_or_compute looks a key up, computes the answer from Postgres on a   *)
(* miss, and stores what it computed for TTL.  Nothing locks the key:      *)
(* requests of several API processes miss together, and one may store long *)
(* after it read, even after it was answered or dropped.  The module       *)
(* follows one key; keys do not interact.                                  *)
(*                                                                         *)
(* An answer is represented by the version of the database it was computed *)
(* from: the number of changes the ingester had made to what it shows.     *)
(***************************************************************************)
EXTENDS Integers, Sequences, FiniteSets

CONSTANTS
    Requests,       \* request slots; a slot is used again and again
    Servers,        \* API processes
    ServerOf,       \* the process each slot belongs to
    TTL,            \* CACHE_TTL_SECS, in ticks
    MaxTime,        \* bound on the clock
    MaxChanges,     \* bound on the database's changes
    MaxLate,        \* bound on the writes under way whose request has ended
    NoEntry,        \* the key is not in Redis
    NoAnswer

ASSUME ConstantsAssumption ==
    /\ ServerOf \in [Requests -> Servers]
    /\ TTL \in Nat /\ MaxTime \in Nat /\ MaxChanges \in Nat /\ MaxLate \in Nat
    /\ NoEntry \notin [version : Nat, expires : Nat]
    /\ NoAnswer \notin [version : Nat, at : Nat]

VARIABLES
    clock,
    changes,    \* the database: changes[v] is the time version v came about
    redisUp,
    connected,  \* the processes that reached Redis when they started
    entry,      \* the key in Redis: a version and when it expires
    stage,      \* per request: idle, lookup, compute or store
    computed,   \* per request: what it computed: version and time of the read
    answer,     \* per request: its last answer and when it was settled
    late,       \* what requests that have ended may yet write to Redis
    slowest     \* history: the longest any answer waited between read and store

vars == <<clock, changes, redisUp, connected, entry, stage, computed, answer, late,
          slowest>>

Current == Len(changes)

Corrupt == 0        \* the version of an entry that does not parse

(* Cache::connect: a process that cannot reach Redis runs without a cache  *)
(* for good; one without REDIS_URL does so too.                            *)
Init ==
    /\ clock = 0
    /\ changes = <<0>>
    /\ redisUp \in BOOLEAN
    /\ connected \in IF redisUp THEN SUBSET Servers ELSE {{}}
    /\ entry = NoEntry
    /\ stage = [r \in Requests |-> "idle"]
    /\ computed = [r \in Requests |-> NoAnswer]
    /\ answer = [r \in Requests |-> NoAnswer]
    /\ late = {}
    /\ slowest = 0
----------------------------------------------------------------------------
(* The world around the cache.                                             *)

Tick ==
    /\ clock < MaxTime
    /\ clock' = clock + 1
    /\ UNCHANGED <<changes, redisUp, connected, entry, stage, computed, answer, late, slowest>>

(* The ingester commits something the key's answer shows.                  *)
Change ==
    /\ Len(changes) <= MaxChanges
    /\ changes' = Append(changes, clock)
    /\ UNCHANGED <<clock, redisUp, connected, entry, stage, computed, answer, late, slowest>>

(* Redis goes away and comes back, with or without its data; the           *)
(* connection manager reconnects.                                          *)
RedisFails ==
    /\ redisUp
    /\ redisUp' = FALSE
    /\ entry' \in {entry, NoEntry}
    /\ UNCHANGED <<clock, changes, connected, stage, computed, answer, late, slowest>>

RedisReturns ==
    /\ ~ redisUp
    /\ redisUp' = TRUE
    /\ UNCHANGED <<clock, changes, connected, entry, stage, computed, answer, late, slowest>>

(* Another version of the program left something else under the key.       *)
Corrupted ==
    /\ redisUp
    /\ entry' = [version |-> Corrupt, expires |-> clock + TTL]
    /\ UNCHANGED <<clock, changes, redisUp, connected, stage, computed, answer, late, slowest>>
----------------------------------------------------------------------------
(* get_or_compute.                                                         *)

Cached(r) == ServerOf[r] \in connected

(* A handler is called: with a connection it looks the key up first.       *)
Ask(r) ==
    /\ stage[r] = "idle"
    /\ stage' = [stage EXCEPT ![r] = IF Cached(r) THEN "lookup" ELSE "compute"]
    /\ answer' = [answer EXCEPT ![r] = NoAnswer]
    /\ UNCHANGED <<clock, changes, redisUp, connected, entry, computed, late, slowest>>

Settle(r, version) ==
    /\ answer' = [answer EXCEPT ![r] = [version |-> version, at |-> clock]]
    /\ computed' = [computed EXCEPT ![r] = NoAnswer]
    /\ stage' = [stage EXCEPT ![r] = "idle"]

(* Faulty variant of Hit: an entry that does not parse answers as well.    *)
HitCorrupt(r) ==
    /\ stage[r] = "lookup"
    /\ redisUp /\ entry # NoEntry /\ clock < entry.expires
    /\ Settle(r, entry.version)
    /\ UNCHANGED <<clock, changes, redisUp, connected, entry, late, slowest>>

(* Faulty variant of Hit: a hit renews the entry.                          *)
HitRenews(r) ==
    /\ stage[r] = "lookup"
    /\ redisUp /\ entry # NoEntry
    /\ clock < entry.expires /\ entry.version # Corrupt
    /\ Settle(r, entry.version)
    /\ entry' = [entry EXCEPT !.expires = clock + TTL]
    /\ UNCHANGED <<clock, changes, redisUp, connected, late, slowest>>

(* try_get finds an entry Redis has not expired, and it parses.            *)
Hit(r) ==
    /\ stage[r] = "lookup"
    /\ redisUp /\ entry # NoEntry
    /\ clock < entry.expires /\ entry.version # Corrupt
    /\ Settle(r, entry.version)
    /\ UNCHANGED <<clock, changes, redisUp, connected, entry, late, slowest>>

(* Everything else is a miss: no entry, an expired or a corrupt one, or an *)
(* error of Redis, which may come at any time.                             *)
Miss(r) ==
    /\ stage[r] = "lookup"
    /\ stage' = [stage EXCEPT ![r] = "compute"]
    /\ UNCHANGED <<clock, changes, redisUp, connected, entry, computed, answer, late, slowest>>

(* compute() with a cache: the query sees the database of this moment, and *)
(* its answer is still to be stored.                                       *)
Compute(r) ==
    /\ stage[r] = "compute"
    /\ Cached(r)
    /\ computed' = [computed EXCEPT ![r] = [version |-> Current, at |-> clock]]
    /\ stage' = [stage EXCEPT ![r] = "store"]
    /\ UNCHANGED <<clock, changes, redisUp, connected, entry, answer, late, slowest>>

(* compute() without a cache: its answer goes out.                         *)
ComputeUncached(r) ==
    /\ stage[r] = "compute"
    /\ ~ Cached(r)
    /\ Settle(r, Current)
    /\ UNCHANGED <<clock, changes, redisUp, connected, entry, late, slowest>>

(* compute() fails: the only error get_or_compute returns.                 *)
ComputeFails(r) ==
    /\ stage[r] = "compute"
    /\ stage' = [stage EXCEPT ![r] = "idle"]
    /\ UNCHANGED <<clock, changes, redisUp, connected, entry, computed, answer, late, slowest>>

(* How long ago the query was made whose answer is w, for the history.     *)
NoteWait(w) ==
    slowest' = IF clock - w.at > slowest THEN clock - w.at ELSE slowest

(* SET with an expiry: the entry is overwritten, whatever it holds by now. *)
Overwrite(w) == entry' = [version |-> w.version, expires |-> clock + TTL]

(* Redis takes the answer; the request is told so, or that it failed: the  *)
(* same to it.                                                             *)
Store(r) ==
    /\ stage[r] = "store"
    /\ redisUp
    /\ Overwrite(computed[r])
    /\ NoteWait(computed[r])
    /\ Settle(r, computed[r].version)
    /\ UNCHANGED <<clock, changes, redisUp, connected, late>>

(* A write given up by its request is undone, or is still under way.       *)
GiveUp(r) ==
    \/ late' = late
    \/ Cardinality(late) < MaxLate /\ late' = late \cup {computed[r]}

(* Faulty variant of StoreFails: the write is tried again until it works.  *)
StoreRetries(r) ==
    /\ stage[r] = "store"
    /\ UNCHANGED vars

(* The write fails or times out: the answer goes out all the same.         *)
StoreFails(r) ==
    /\ stage[r] = "store"
    /\ NoteWait(computed[r])
    /\ GiveUp(r)
    /\ Settle(r, computed[r].version)
    /\ UNCHANGED <<clock, changes, redisUp, connected, entry>>

(* The client disconnects and the handler is dropped where it stands.      *)
Dropped(r) ==
    /\ stage[r] # "idle"
    /\ stage' = [stage EXCEPT ![r] = "idle"]
    /\ computed' = [computed EXCEPT ![r] = NoAnswer]
    /\ IF stage[r] = "store" THEN GiveUp(r) ELSE late' = late
    /\ UNCHANGED <<clock, changes, redisUp, connected, entry, answer, slowest>>

(* A write under way reaches Redis after its request has ended.            *)
LateWrite ==
    /\ redisUp
    /\ \E w \in late : Overwrite(w) /\ NoteWait(w) /\ late' = late \ {w}
    /\ UNCHANGED <<clock, changes, redisUp, connected, stage, computed, answer>>
----------------------------------------------------------------------------
Proceed(r) ==
    \/ Hit(r) \/ Miss(r)
    \/ Compute(r) \/ ComputeUncached(r) \/ ComputeFails(r)
    \/ Store(r) \/ StoreFails(r)

Next ==
    \/ Tick \/ Change \/ RedisFails \/ RedisReturns \/ Corrupted \/ LateWrite
    \/ \E r \in Requests : Ask(r) \/ Proceed(r) \/ Dropped(r)

Spec == Init /\ [][Next]_vars

(* A handler is run to its end: its queries and commands answer or fail,   *)
(* by the client's time limit at the latest.                               *)
FairSpec == Spec /\ \A r \in Requests : WF_vars(Proceed(r))
----------------------------------------------------------------------------
(* Properties.                                                             *)

Entry  == [version : 0..Current, expires : 0..(MaxTime + TTL)]
Answer == [version : 1..Current, at : 0..MaxTime]

(* The shape of the state; no answer is of a version yet to come.          *)
TypeOK ==
    /\ clock \in 0..MaxTime
    /\ changes \in Seq(0..MaxTime) /\ Current >= 1
    /\ redisUp \in BOOLEAN /\ connected \subseteq Servers
    /\ entry \in Entry \cup {NoEntry}
    /\ stage \in [Requests -> {"idle", "lookup", "compute", "store"}]
    /\ computed \in [Requests -> Answer \cup {NoAnswer}]
    /\ \A r \in Requests : stage[r] = "store" <=> computed[r] # NoAnswer
    /\ answer \in [Requests -> Answer \cup {NoAnswer}]
    /\ late \subseteq Answer
    /\ slowest \in 0..MaxTime

(* An answer shows nothing that was replaced more than TTL and the longest *)
(* wait between a read and its store ago: however many slow requests of    *)
(* however many processes overwrite newer entries, the staleness does not  *)
(* add up (get_or_compute, cache.rs:66-78; CACHE_TTL_SECS).                *)
AnswersFresh ==
    \A r \in Requests :
       answer[r] # NoAnswer =>
          \A v \in DOMAIN changes :
             v > answer[r].version => answer[r].at <= changes[v] + TTL + slowest

(* Every request is answered or fails with the database, with Redis down,  *)
(* restarting, out of reach from the start, or corrupted: the cache is not *)
(* "a new way for the API to go down" (cache.rs:1-5).                      *)
EveryRequestEnds ==
    \A r \in Requests : stage[r] # "idle" ~> stage[r] = "idle"
============================================================================
