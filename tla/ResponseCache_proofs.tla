------------------------ MODULE ResponseCache_proofs ------------------------
(***************************************************************************)
(* Proofs about ResponseCache for any number of requests and processes,    *)
(* every TTL and every behaviour of Redis: the state keeps its types, and  *)
(* no answer is staler than TTL and the longest wait before a store.       *)
(***************************************************************************)
EXTENDS ResponseCache, TLAPS

(* No change lies in the future.                                           *)
TimesOK == \A v \in DOMAIN changes : changes[v] <= clock

(* What a request computed was current when it read it.                    *)
ComputedFresh ==
    \A r \in Requests :
       computed[r] # NoAnswer =>
          /\ computed[r].at <= clock
          /\ \A v \in DOMAIN changes :
                v > computed[r].version => computed[r].at <= changes[v]

(* What an entry shows was replaced, if it was, no earlier than TTL and    *)
(* the longest wait before it expires.                                     *)
EntryFresh ==
    entry # NoEntry =>
       /\ entry.expires <= clock + TTL
       /\ entry.version # Corrupt =>
             \A v \in DOMAIN changes :
                v > entry.version => entry.expires <= changes[v] + TTL + slowest

(* So was what is still to be written of requests that have ended.         *)
LateFresh ==
    \A w \in late :
       /\ w.at <= clock
       /\ \A v \in DOMAIN changes : v > w.version => w.at <= changes[v]

AnswersInPast ==
    \A r \in Requests : answer[r] # NoAnswer => answer[r].at <= clock

TypeInv  == TypeOK /\ TimesOK
FreshInv == TypeInv /\ ComputedFresh /\ LateFresh /\ EntryFresh /\ AnswersInPast /\ AnswersFresh
----------------------------------------------------------------------------
(* Type correctness.                                                       *)

LEMMA TypeInit == Init => TypeInv
  BY ConstantsAssumption DEF Init, TypeInv, TypeOK, TimesOK, Current, Entry, Answer

(* What a step that makes no change to the database must see to.           *)
LEMMA TypesKept ==
    ASSUME TypeInv, changes' = changes,
           clock' \in 0..MaxTime, clock <= clock'
    PROVE  TimesOK' /\ changes' \in Seq(0..MaxTime) /\ Current' >= 1
           /\ Entry' = Entry /\ Answer' = Answer
  BY ConstantsAssumption DEF TypeInv, TypeOK, TimesOK, Current, Entry, Answer

(* An answer that goes out now.                                            *)
LEMMA SettleTypes ==
    ASSUME TypeInv, NEW r \in Requests, NEW version \in 1..Current,
           Settle(r, version)
    PROVE  /\ stage' \in [Requests -> {"idle", "lookup", "compute", "store"}]
           /\ computed' \in [Requests -> Answer \cup {NoAnswer}]
           /\ \A q \in Requests : stage'[q] = "store" <=> computed'[q] # NoAnswer
           /\ answer' \in [Requests -> Answer \cup {NoAnswer}]
<1>1. [version |-> version, at |-> clock] \in Answer
  BY DEF TypeInv, TypeOK, Answer
<1>. QED
  BY <1>1 DEF TypeInv, TypeOK, Settle

(* The history of the longest wait.                                        *)
LEMMA WaitTypes ==
    ASSUME TypeInv, NEW w \in Answer, NoteWait(w)
    PROVE  slowest' \in 0..MaxTime
  BY ConstantsAssumption DEF TypeInv, TypeOK, NoteWait, Answer

LEMMA TypeStep == TypeInv /\ [Next]_vars => TypeInv'
<1>. SUFFICES ASSUME TypeInv, [Next]_vars PROVE TypeInv'
  OBVIOUS
<1>. USE ConstantsAssumption
<1>0. /\ clock \in Nat /\ clock \in 0..MaxTime /\ MaxTime \in Nat /\ TTL \in Nat
      /\ Current \in Nat /\ Current >= 1
      /\ changes \in Seq(0..MaxTime)
      /\ NoAnswer \notin Answer
  BY DEF TypeInv, TypeOK, Current, Answer
<1>1. CASE UNCHANGED vars
  BY <1>1 DEF vars, TypeInv, TypeOK, TimesOK, Current, Entry, Answer
<1>2. CASE Tick
  <2>1. changes' = changes /\ clock' \in 0..MaxTime /\ clock <= clock'
    BY <1>0, <1>2 DEF Tick
  <2>. QED
    BY <1>2, <2>1, TypesKept DEF Tick, TypeInv, TypeOK
<1>3. CASE Change
  <2>1. changes' = Append(changes, clock) /\ changes' \in Seq(0..MaxTime)
    BY <1>0, <1>3 DEF Change
  <2>2. Current' = Current + 1
    BY <1>0, <2>1 DEF Current
  <2>3. TimesOK'
    BY <1>0, <1>3, <2>1 DEF Change, TypeInv, TimesOK
  <2>4. Entry \subseteq Entry' /\ Answer \subseteq Answer'
    BY <1>0, <2>2 DEF Entry, Answer
  <2>. QED
    BY <1>0, <1>3, <2>1, <2>2, <2>3, <2>4 DEF Change, TypeInv, TypeOK
<1>4. CASE RedisFails \/ RedisReturns
  <2>1. changes' = changes /\ clock' = clock
    BY <1>4 DEF RedisFails, RedisReturns
  <2>2. redisUp' \in BOOLEAN
    BY <1>4, Zenon DEF RedisFails, RedisReturns
  <2>3. entry' \in {entry, NoEntry}
    BY <1>4 DEF RedisFails, RedisReturns
  <2>4. UNCHANGED <<connected, stage, computed, answer, late, slowest>>
    BY <1>4, Zenon DEF RedisFails, RedisReturns
  <2>. QED
    BY <1>0, <2>1, <2>2, <2>3, <2>4, TypesKept DEF TypeInv, TypeOK
<1>5. CASE Corrupted
  <2>1. [version |-> Corrupt, expires |-> clock + TTL] \in Entry
    BY <1>0 DEF Entry, Corrupt
  <2>. QED
    BY <1>0, <1>5, <2>1, TypesKept DEF Corrupted, TypeInv, TypeOK
<1>6. ASSUME NEW r \in Requests, Ask(r) PROVE TypeInv'
  BY <1>0, <1>6, TypesKept DEF Ask, TypeInv, TypeOK
<1>7. ASSUME NEW r \in Requests, Hit(r) PROVE TypeInv'
  <2>1. entry.version \in 1..Current
    BY <1>0, <1>7 DEF Hit, TypeInv, TypeOK, Entry, Corrupt
  <2>. QED
    BY <1>0, <1>7, <2>1, TypesKept, SettleTypes DEF Hit, TypeInv, TypeOK
<1>8. ASSUME NEW r \in Requests, Miss(r) PROVE TypeInv'
  BY <1>0, <1>8, TypesKept DEF Miss, TypeInv, TypeOK
<1>9. ASSUME NEW r \in Requests, Compute(r) PROVE TypeInv'
  <2>1. [version |-> Current, at |-> clock] \in Answer
    BY <1>0 DEF Answer
  <2>. QED
    BY <1>0, <1>9, <2>1, TypesKept DEF Compute, TypeInv, TypeOK
<1>10. ASSUME NEW r \in Requests, ComputeUncached(r) PROVE TypeInv'
  <2>1. Current \in 1..Current
    BY <1>0
  <2>. QED
    BY <1>0, <1>10, <2>1, TypesKept, SettleTypes DEF ComputeUncached, TypeInv, TypeOK
<1>11. ASSUME NEW r \in Requests, ComputeFails(r) PROVE TypeInv'
  BY <1>0, <1>11, TypesKept DEF ComputeFails, TypeInv, TypeOK
<1>12. ASSUME NEW r \in Requests, Store(r) \/ StoreFails(r) PROVE TypeInv'
  <2>1. computed[r] \in Answer /\ computed[r].version \in 1..Current
    BY <1>12 DEF Store, StoreFails, TypeInv, TypeOK, Answer
  <2>2. Settle(r, computed[r].version) /\ changes' = changes /\ clock' = clock
    BY <1>12 DEF Store, StoreFails
  <2>3. entry' \in Entry \cup {NoEntry}
    BY <1>0, <1>12, <2>1 DEF Store, StoreFails, Overwrite, Entry, TypeInv, TypeOK
  <2>4. slowest' \in 0..MaxTime
    BY <1>0, <1>12, <2>1, WaitTypes DEF Store, StoreFails
  <2>5. late' \subseteq Answer
    BY <1>12, <2>1 DEF Store, StoreFails, GiveUp, TypeInv, TypeOK
  <2>. QED
    BY <1>0, <1>12, <2>1, <2>2, <2>3, <2>4, <2>5, TypesKept, SettleTypes
       DEF Store, StoreFails, TypeInv, TypeOK
<1>13. ASSUME NEW r \in Requests, Dropped(r) PROVE TypeInv'
  <2>1. late' \subseteq Answer
    BY <1>13 DEF Dropped, GiveUp, TypeInv, TypeOK
  <2>. QED
    BY <1>0, <1>13, <2>1, TypesKept DEF Dropped, TypeInv, TypeOK
<1>14. CASE LateWrite
  <2>1. PICK w \in late : Overwrite(w) /\ NoteWait(w) /\ late' = late \ {w}
    BY <1>14 DEF LateWrite
  <2>2. w \in Answer
    BY <2>1 DEF TypeInv, TypeOK
  <2>3. entry' \in Entry /\ slowest' \in 0..MaxTime
    BY <1>0, <2>1, <2>2, WaitTypes DEF Overwrite, Entry, Answer
  <2>. QED
    BY <1>0, <1>14, <2>1, <2>3, TypesKept DEF LateWrite, TypeInv, TypeOK
<1>. QED
  BY <1>1, <1>2, <1>3, <1>4, <1>5, <1>6, <1>7, <1>8, <1>9, <1>10, <1>11, <1>12,
     <1>13, <1>14 DEF Next, Proceed

(* Every reachable state has its types, and no answer is of a version yet  *)
(* to come (cache.rs, the whole of get_or_compute).                        *)
THEOREM CacheTypes == Spec => []TypeOK
<1>1. TypeInv => TypeOK
  BY DEF TypeInv
<1>. QED
  BY TypeInit, TypeStep, <1>1, PTL DEF Spec
----------------------------------------------------------------------------
(* Staleness.                                                              *)

FreshParts == ComputedFresh /\ LateFresh /\ EntryFresh /\ AnswersInPast /\ AnswersFresh

LEMMA FreshInit == Init => FreshInv
<1>1. Init => TypeInv
  BY TypeInit
<1>2. Init => FreshParts
  BY DEF Init, FreshParts, ComputedFresh, LateFresh, EntryFresh, AnswersInPast, AnswersFresh
<1>. QED
  BY <1>1, <1>2 DEF FreshInv, FreshParts

(* The facts about numbers that every step uses.                           *)
LEMMA Numbers ==
    ASSUME TypeInv
    PROVE  /\ clock \in Nat /\ slowest \in Nat /\ TTL \in Nat
           /\ Current \in Nat /\ DOMAIN changes = 1..Current
           /\ \A v \in DOMAIN changes : changes[v] \in Nat /\ changes[v] <= clock
           /\ entry # NoEntry => entry.version \in Nat /\ entry.expires \in Nat
           /\ \A r \in Requests :
                 /\ computed[r] # NoAnswer =>
                       computed[r].version \in 1..Current /\ computed[r].at \in Nat
                 /\ answer[r] # NoAnswer =>
                       answer[r].version \in 1..Current /\ answer[r].at \in Nat
           /\ \A w \in late : w.version \in 1..Current /\ w.at \in Nat
  BY ConstantsAssumption DEF TypeInv, TypeOK, TimesOK, Current, Entry, Answer

(* Time may pass and the history may note a longer wait.                   *)
LEMMA AnswersKept ==
    ASSUME FreshInv, answer' = answer, changes' = changes,
           clock' \in Nat, clock <= clock', slowest' \in Nat, slowest <= slowest'
    PROVE  AnswersInPast' /\ AnswersFresh'
  BY Numbers DEF FreshInv, AnswersInPast, AnswersFresh

LEMMA EntryKept ==
    ASSUME FreshInv, entry' = entry, changes' = changes,
           clock' \in Nat, clock <= clock',
           slowest' \in Nat, slowest <= slowest'
    PROVE  EntryFresh'
  BY Numbers, SMTT(30) DEF FreshInv, EntryFresh

LEMMA LateKept ==
    ASSUME FreshInv, changes' = changes, clock' \in Nat, clock <= clock',
           late' \subseteq late
    PROVE  LateFresh'
  BY Numbers DEF FreshInv, LateFresh

(* What is written was current when it was read: the entry it makes.       *)
LEMMA WrittenFresh ==
    ASSUME FreshInv, NEW w, w.version \in 1..Current, w.at \in Nat, w.at <= clock,
           \A v \in DOMAIN changes : v > w.version => w.at <= changes[v],
           Overwrite(w), NoteWait(w), UNCHANGED <<clock, changes>>
    PROVE  EntryFresh'
<1>1. TypeInv
  BY DEF FreshInv
<1>2. slowest' \in Nat /\ clock <= w.at + slowest'
  BY <1>1, Numbers DEF NoteWait
<1>. QED
  BY <1>1, <1>2, Numbers, SMTT(30) DEF Overwrite, EntryFresh

LEMMA ComputedKept ==
    ASSUME FreshInv, changes' = changes, clock' \in Nat, clock <= clock',
           \A r \in Requests : computed'[r] = computed[r] \/ computed'[r] = NoAnswer
    PROVE  ComputedFresh'
  BY Numbers DEF FreshInv, ComputedFresh

(* One request is answered with a fresh version.                           *)
LEMMA SettleFresh ==
    ASSUME FreshInv, NEW r \in Requests, NEW version \in 1..Current,
           Settle(r, version), changes' = changes, clock' = clock,
           slowest' \in Nat, slowest <= slowest',
           \A v \in DOMAIN changes :
              v > version => clock <= changes[v] + TTL + slowest'
    PROVE  AnswersInPast' /\ AnswersFresh' /\ ComputedFresh'
<1>1. \A q \in Requests :
         /\ answer'[q] = IF q = r THEN [version |-> version, at |-> clock] ELSE answer[q]
         /\ computed'[q] = computed[q] \/ computed'[q] = NoAnswer
  BY DEF Settle, FreshInv, TypeInv, TypeOK
<1>2. TypeInv
  BY DEF FreshInv
<1>3. ComputedFresh'
  BY <1>1, <1>2, ComputedKept, Numbers
<1>4. AnswersInPast'
  BY <1>1, <1>2, Numbers DEF FreshInv, AnswersInPast
<1>5. AnswersFresh'
  <2>. SUFFICES ASSUME NEW q \in Requests, answer'[q] # NoAnswer,
                       NEW v \in DOMAIN changes, v > answer'[q].version
                PROVE  answer'[q].at <= changes[v] + TTL + slowest'
    BY DEF AnswersFresh
  <2>1. CASE q = r
    BY <1>1, <1>2, <2>1, Numbers
  <2>2. CASE q # r
    <3>1. answer'[q] = answer[q]
      BY <1>1, <2>2
    <3>2. answer[q].at <= changes[v] + TTL + slowest
      BY <3>1 DEF FreshInv, AnswersFresh
    <3>. QED
      BY <1>2, <3>1, <3>2, Numbers
  <2>. QED
    BY <2>1, <2>2
<1>. QED
  BY <1>3, <1>4, <1>5

LEMMA FreshStep == FreshInv /\ [Next]_vars => FreshInv'
<1>. SUFFICES ASSUME FreshInv, [Next]_vars PROVE FreshInv'
  OBVIOUS
<1>0. TypeInv /\ TypeInv'
  BY TypeStep DEF FreshInv
<1>. SUFFICES FreshParts'
  BY <1>0 DEF FreshInv, FreshParts
<1>. USE DEF FreshParts
<1>1. CASE UNCHANGED vars
  <2>1. UNCHANGED <<clock, changes, entry, computed, answer, late, slowest>>
    BY <1>1 DEF vars
  <2>. QED
    BY <1>0, <2>1, Numbers, AnswersKept, EntryKept, ComputedKept, LateKept
<1>2. CASE Tick
  <2>1. clock' \in Nat /\ clock <= clock'
    BY <1>0, <1>2, Numbers DEF Tick
  <2>. QED
    BY <1>0, <1>2, <2>1, Numbers, AnswersKept, EntryKept, ComputedKept, LateKept DEF Tick
<1>3. CASE Change
  <2>1. /\ DOMAIN changes' = 1..(Current + 1)
        /\ \A v \in DOMAIN changes' : IF v = Current + 1
              THEN changes'[v] = clock
              ELSE v \in DOMAIN changes /\ changes'[v] = changes[v]
    BY <1>0, <1>3, Numbers DEF Change, TypeInv, TypeOK, Current
  <2>2. UNCHANGED <<clock, redisUp, connected, entry, stage, computed, answer, late, slowest>>
    BY <1>3 DEF Change
  <2>3. ComputedFresh' /\ LateFresh' /\ AnswersInPast'
    BY <1>0, <2>1, <2>2, Numbers DEF FreshInv, ComputedFresh, LateFresh, AnswersInPast
  <2>4. EntryFresh'
    BY <1>0, <2>1, <2>2, Numbers, SMTT(30) DEF FreshInv, EntryFresh
  <2>5. AnswersFresh'
    BY <1>0, <2>1, <2>2, Numbers, SMTT(30) DEF FreshInv, AnswersFresh, AnswersInPast
  <2>. QED
    BY <2>3, <2>4, <2>5
<1>4. CASE RedisFails \/ RedisReturns
  <2>1. /\ entry' \in {entry, NoEntry}
        /\ UNCHANGED <<clock, changes, computed, answer, late, slowest>>
    BY <1>4 DEF RedisFails, RedisReturns
  <2>2. ASSUME entry' = entry PROVE EntryFresh'
    BY <1>0, <2>1, <2>2, Numbers, EntryKept
  <2>3. ASSUME entry' = NoEntry PROVE EntryFresh'
    BY <2>3 DEF EntryFresh
  <2>4. EntryFresh'
    BY <2>1, <2>2, <2>3
  <2>. QED
    BY <1>0, <2>1, <2>4, Numbers, AnswersKept, ComputedKept, LateKept
<1>5. CASE Corrupted
  <2>1. EntryFresh'
    BY <1>0, <1>5, Numbers DEF Corrupted, EntryFresh
  <2>. QED
    BY <1>0, <1>5, <2>1, Numbers, AnswersKept, ComputedKept, LateKept DEF Corrupted
<1>6. ASSUME NEW r \in Requests, Ask(r) PROVE FreshParts'
  <2>1. \A q \in Requests : answer'[q] = answer[q] \/ answer'[q] = NoAnswer
    BY <1>0, <1>6 DEF Ask, TypeInv, TypeOK
  <2>2. AnswersInPast' /\ AnswersFresh'
    BY <1>6, <2>1 DEF Ask, FreshInv, AnswersInPast, AnswersFresh
  <2>. QED
    BY <1>0, <1>6, <2>2, Numbers, EntryKept, ComputedKept, LateKept DEF Ask
<1>7. ASSUME NEW r \in Requests, Hit(r) PROVE FreshParts'
  <2>1. /\ entry # NoEntry /\ entry.version # Corrupt /\ clock < entry.expires
        /\ Settle(r, entry.version)
        /\ UNCHANGED <<clock, changes, entry, late, slowest>>
    BY <1>7 DEF Hit
  <2>2. entry.version \in 1..Current
    BY <1>0, <2>1 DEF TypeInv, TypeOK, Entry, Corrupt
  <2>3. \A v \in DOMAIN changes :
           v > entry.version => clock <= changes[v] + TTL + slowest'
    BY <1>0, <2>1, Numbers DEF FreshInv, EntryFresh
  <2>4. slowest' \in Nat /\ slowest <= slowest'
    BY <1>0, <2>1, Numbers
  <2>. QED
    BY <1>0, <2>1, <2>2, <2>3, <2>4, Numbers, SettleFresh, EntryKept, LateKept
<1>8. ASSUME NEW r \in Requests, Miss(r) \/ ComputeFails(r) PROVE FreshParts'
  <2>1. UNCHANGED <<clock, changes, entry, computed, answer, late, slowest>>
    BY <1>8 DEF Miss, ComputeFails
  <2>. QED
    BY <1>0, <2>1, Numbers, AnswersKept, EntryKept, ComputedKept, LateKept
<1>9. ASSUME NEW r \in Requests, Compute(r) PROVE FreshParts'
  <2>1. /\ UNCHANGED <<clock, changes, entry, answer, late, slowest>>
        /\ \A q \in Requests : computed'[q] =
              IF q = r THEN [version |-> Current, at |-> clock] ELSE computed[q]
    BY <1>0, <1>9 DEF Compute, TypeInv, TypeOK
  <2>2. ComputedFresh'
    BY <1>0, <2>1, Numbers DEF FreshInv, ComputedFresh
  <2>. QED
    BY <1>0, <2>1, <2>2, Numbers, AnswersKept, EntryKept, LateKept
<1>10. ASSUME NEW r \in Requests, ComputeUncached(r) PROVE FreshParts'
  <2>1. Settle(r, Current) /\ UNCHANGED <<clock, changes, entry, late, slowest>>
    BY <1>10 DEF ComputeUncached
  <2>2. Current \in 1..Current
    BY <1>0, Numbers DEF TypeInv, TypeOK
  <2>3. \A v \in DOMAIN changes : ~ (v > Current)
    BY <1>0, Numbers
  <2>4. slowest' \in Nat /\ slowest <= slowest'
    BY <1>0, <2>1, Numbers
  <2>. QED
    BY <1>0, <2>1, <2>2, <2>3, <2>4, Numbers, SettleFresh, EntryKept, LateKept
<1>11. ASSUME NEW r \in Requests, Store(r) \/ StoreFails(r) PROVE FreshParts'
  <2>1. /\ computed[r] # NoAnswer
        /\ Settle(r, computed[r].version) /\ NoteWait(computed[r])
        /\ UNCHANGED <<clock, changes>>
        /\ entry' = entry \/ Overwrite(computed[r])
        /\ late' \subseteq late \cup {computed[r]}
    BY <1>0, <1>11 DEF Store, StoreFails, GiveUp, TypeInv, TypeOK
  <2>2. /\ computed[r].version \in 1..Current
        /\ computed[r].at \in Nat /\ computed[r].at <= clock
        /\ \A v \in DOMAIN changes :
              v > computed[r].version => computed[r].at <= changes[v]
    BY <1>0, <2>1, Numbers DEF FreshInv, ComputedFresh
  <2>3. /\ slowest' \in Nat /\ slowest <= slowest'
        /\ clock <= computed[r].at + slowest'
    BY <1>0, <2>1, <2>2, Numbers DEF NoteWait
  <2>4. \A v \in DOMAIN changes :
           v > computed[r].version => clock <= changes[v] + TTL + slowest'
    BY <1>0, <2>2, <2>3, Numbers
  <2>5. AnswersInPast' /\ AnswersFresh' /\ ComputedFresh'
    BY <2>1, <2>2, <2>3, <2>4, SettleFresh
  <2>6. LateFresh'
    BY <1>0, <2>1, <2>2 DEF FreshInv, LateFresh
  <2>7. EntryFresh'
    <3>1. CASE entry' = entry
      BY <1>0, <2>1, <2>3, <3>1, Numbers, EntryKept
    <3>2. CASE Overwrite(computed[r])
      BY <2>1, <2>2, <3>2, WrittenFresh
    <3>. QED
      BY <2>1, <3>1, <3>2
  <2>. QED
    BY <2>5, <2>6, <2>7
<1>12. ASSUME NEW r \in Requests, Dropped(r) PROVE FreshParts'
  <2>1. /\ UNCHANGED <<clock, changes, entry, answer, slowest>>
        /\ \A q \in Requests : computed'[q] = computed[q] \/ computed'[q] = NoAnswer
    BY <1>0, <1>12 DEF Dropped, TypeInv, TypeOK
  <2>2. LateFresh'
    <3>1. CASE stage[r] = "store"
      <4>1. /\ computed[r] # NoAnswer
            /\ late' \subseteq late \cup {computed[r]}
        BY <1>0, <1>12, <3>1 DEF Dropped, GiveUp, TypeInv, TypeOK
      <4>. QED
        BY <2>1, <4>1 DEF FreshInv, ComputedFresh, LateFresh
    <3>2. CASE stage[r] # "store"
      BY <1>0, <1>12, <2>1, <3>2, Numbers, LateKept DEF Dropped
    <3>. QED
      BY <3>1, <3>2
  <2>. QED
    BY <1>0, <2>1, <2>2, Numbers, AnswersKept, EntryKept, ComputedKept
<1>13. CASE LateWrite
  <2>1. PICK w \in late : Overwrite(w) /\ NoteWait(w) /\ late' = late \ {w}
    BY <1>13 DEF LateWrite
  <2>2. /\ w.version \in 1..Current /\ w.at \in Nat /\ w.at <= clock
        /\ \A v \in DOMAIN changes : v > w.version => w.at <= changes[v]
    BY <1>0, <2>1, Numbers DEF FreshInv, LateFresh
  <2>3. UNCHANGED <<clock, changes, computed, answer>>
    BY <1>13 DEF LateWrite
  <2>4. slowest' \in Nat /\ slowest <= slowest'
    BY <1>0, <2>1, <2>2, Numbers DEF NoteWait
  <2>5. EntryFresh'
    BY <2>1, <2>2, <2>3, WrittenFresh
  <2>. QED
    BY <1>0, <2>1, <2>3, <2>4, <2>5, Numbers, AnswersKept, ComputedKept, LateKept
<1>. QED
  BY <1>1, <1>2, <1>3, <1>4, <1>5, <1>6, <1>7, <1>8, <1>9, <1>10, <1>11, <1>12,
     <1>13 DEF Next, Proceed

(* For every TTL and any number of requests and processes, an answer shows *)
(* nothing replaced more than TTL and the longest wait before a store ago  *)
(* (get_or_compute, cache.rs:66-78).                                       *)
THEOREM CacheFresh == Spec => []AnswersFresh
<1>1. FreshInv => AnswersFresh
  BY DEF FreshInv
<1>. QED
  BY FreshInit, FreshStep, <1>1, PTL DEF Spec
============================================================================
