----------------------------- MODULE CostCache -----------------------------
(***************************************************************************)
(* One tier of the cost cache: HashOnlyMap, a table of slots with linear   *)
(* probing, under the calls CostCache::evaluate makes from the search      *)
(* threads.  A slot goes from Empty to Writing to Ready; every load, CAS   *)
(* and store of a slot is a step of its own, and so is every access to the *)
(* size counter.                                                           *)
(*                                                                         *)
(* A key is a 64-bit hash (two op sets with one hash share a slot, as in   *)
(* the code).  clear() is not called while threads run and is left out.    *)
(* Both tiers work alike; only the base tier looks at max_entries.         *)
(***************************************************************************)
EXTENDS Integers, FiniteSets

CONSTANTS
  Threads,
  Hashes,
  Home,         \* hash & mask_: the slot where the probe for a hash starts
  Price,        \* the CostResult of a hash
  Capacity,     \* slots
  ProbeLimit,   \* slots a probe looks at (32)
  MaxEntries,   \* max_entries_; 0: no limit
  Unlimited,    \* do some calls come through the overload of
                \* evaluate_with_context that does not look at max_entries_?
  NoKey,        \* what a fresh slot holds
  NoPrice

Slots == 0..(Capacity - 1)

ASSUME ThreadsAssumption == IsFiniteSet(Threads)
ASSUME CapacityAssumption == Capacity \in Nat \ {0}
ASSUME ProbeAssumption == ProbeLimit \in 1..Capacity
ASSUME HomeAssumption == Home \in [Hashes -> Slots]
ASSUME MaxEntriesAssumption == MaxEntries \in Nat
ASSUME UnlimitedAssumption == Unlimited \in BOOLEAN
ASSUME FreshAssumption == /\ NoKey \notin Hashes
                          /\ \A h \in Hashes : Price[h] # NoPrice

VARIABLES
  state,    \* slot -> "Empty", "Writing" or "Ready"
  hash,     \* slot -> key
  value,    \* slot -> price
  size,     \* size_
  pc,       \* thread -> where it is
  want,     \* thread -> key of its call
  probe,    \* thread -> i of the probe loop
  answer    \* thread -> the result it returns (or is about to)

cacheVars == <<state, hash, value, size, pc, want, probe, answer>>
table == <<state, hash, value, size>>

(* idle    - between calls                                                 *)
(* find    - about to load the state of the probed slot in find()          *)
(* admit   - missed, price computed, about to compare size_ and the limit  *)
(* insert  - about to load the state of the probed slot in insert()        *)
(* claim   - saw Empty, about to compare-and-swap                          *)
(* beaten  - lost the compare-and-swap                                     *)
(* hash, value, publish, count - the four stores after winning it          *)
Places == {"idle", "find", "admit", "insert", "claim", "beaten",
           "hash", "value", "publish", "count"}

SlotAt(h, i) == (Home[h] + i) % Capacity

Here(t) == SlotAt(want[t], probe[t])

GoTo(t, place) == pc' = [pc EXCEPT ![t] = place]

(* Mutant of Onward: the probe goes round until it finds something.        *)
OnwardForever(t, again, after) ==
  GoTo(t, again) /\ probe' = [probe EXCEPT ![t] = (@ + 1) % ProbeLimit]

(* The next slot of the probe, or `after` when the limit is reached.       *)
Onward(t, again, after) ==
  IF probe[t] + 1 < ProbeLimit
  THEN GoTo(t, again) /\ probe' = [probe EXCEPT ![t] = @ + 1]
  ELSE GoTo(t, after) /\ probe' = [probe EXCEPT ![t] = 0]

-----------------------------------------------------------------------------
Call(t) ==
  /\ pc[t] = "idle"
  /\ \E h \in Hashes : want' = [want EXCEPT ![t] = h]
  /\ probe' = [probe EXCEPT ![t] = 0]
  /\ GoTo(t, "find")
  /\ UNCHANGED <<table, answer>>

(* find.  A thread that loads Writing yields and loads again: no step.     *)
FindHit(t) ==
  /\ pc[t] = "find"
  /\ state[Here(t)] = "Ready"
  /\ hash[Here(t)] = want[t]
  /\ answer' = [answer EXCEPT ![t] = value[Here(t)]]
  /\ GoTo(t, "idle")
  /\ UNCHANGED <<table, want, probe>>

(* The price is worked out after a miss, with nothing shared touched.      *)
Priced(t) == answer' = [answer EXCEPT ![t] = Price[want[t]]]

FindEmpty(t) ==
  /\ pc[t] = "find"
  /\ state[Here(t)] = "Empty"
  /\ Priced(t)
  /\ GoTo(t, "admit")
  /\ probe' = [probe EXCEPT ![t] = 0]
  /\ UNCHANGED <<table, want>>

(* Mutant of FindOther: a slot in Writing is passed over.                  *)
FindOtherHurries(t) ==
  /\ pc[t] = "find"
  /\ \/ state[Here(t)] = "Writing"
     \/ state[Here(t)] = "Ready" /\ hash[Here(t)] # want[t]
  /\ Onward(t, "find", "admit")
  /\ IF probe[t] + 1 < ProbeLimit THEN answer' = answer ELSE Priced(t)
  /\ UNCHANGED <<table, want>>

FindOther(t) ==
  /\ pc[t] = "find"
  /\ state[Here(t)] = "Ready"
  /\ hash[Here(t)] # want[t]
  /\ Onward(t, "find", "admit")
  /\ IF probe[t] + 1 < ProbeLimit THEN answer' = answer ELSE Priced(t)
  /\ UNCHANGED <<table, want>>

(* Mutant of OverLimit.                                                    *)
PastLimit == MaxEntries > 0 /\ size > MaxEntries

OverLimit == MaxEntries > 0 /\ size >= MaxEntries

Admit(t) ==
  /\ pc[t] = "admit"
  /\ \/ ~OverLimit /\ GoTo(t, "insert")
     \/ OverLimit  /\ GoTo(t, "idle")
     \/ Unlimited  /\ GoTo(t, "insert")
  /\ UNCHANGED <<table, want, probe, answer>>

-----------------------------------------------------------------------------
(* insert.  Again a load of Writing is repeated.                           *)
InsertLoad(t) ==
  /\ pc[t] = "insert"
  /\ \/ /\ state[Here(t)] = "Empty"
        /\ GoTo(t, "claim")
        /\ UNCHANGED probe
     \/ /\ state[Here(t)] = "Ready"
        /\ IF hash[Here(t)] = want[t]
           THEN GoTo(t, "idle") /\ UNCHANGED probe
           ELSE Onward(t, "insert", "idle")
  /\ UNCHANGED <<table, want, answer>>

Claim(t) ==
  /\ pc[t] = "claim"
  /\ IF state[Here(t)] = "Empty"
     THEN state' = [state EXCEPT ![Here(t)] = "Writing"] /\ GoTo(t, "hash")
     ELSE state' = state /\ GoTo(t, "beaten")
  /\ UNCHANGED <<hash, value, size, want, probe, answer>>

(* Mutant of Beaten: the slot is passed over while it is being written.    *)
BeatenMovesOn(t) ==
  /\ pc[t] = "beaten"
  /\ IF state[Here(t)] = "Ready" /\ hash[Here(t)] = want[t]
     THEN GoTo(t, "idle") /\ UNCHANGED probe
     ELSE Onward(t, "insert", "idle")
  /\ UNCHANGED <<table, want, answer>>

Beaten(t) ==
  /\ pc[t] = "beaten"
  /\ state[Here(t)] = "Ready"
  /\ IF hash[Here(t)] = want[t]
     THEN GoTo(t, "idle") /\ UNCHANGED probe
     ELSE Onward(t, "insert", "idle")
  /\ UNCHANGED <<table, want, answer>>

WriteHash(t) ==
  /\ pc[t] = "hash"
  /\ hash' = [hash EXCEPT ![Here(t)] = want[t]]
  /\ GoTo(t, "value")
  /\ UNCHANGED <<state, value, size, want, probe, answer>>

WriteValue(t) ==
  /\ pc[t] = "value"
  /\ value' = [value EXCEPT ![Here(t)] = answer[t]]
  /\ GoTo(t, "publish")
  /\ UNCHANGED <<state, hash, size, want, probe, answer>>

Publish(t) ==
  /\ pc[t] = "publish"
  /\ state' = [state EXCEPT ![Here(t)] = "Ready"]
  /\ GoTo(t, "count")
  /\ UNCHANGED <<hash, value, size, want, probe, answer>>

Count(t) ==
  /\ pc[t] = "count"
  /\ size' = size + 1
  /\ GoTo(t, "idle")
  /\ UNCHANGED <<state, hash, value, want, probe, answer>>

-----------------------------------------------------------------------------
(* The steps of a call under way.                                          *)
Step(t) ==
  \/ FindHit(t) \/ FindEmpty(t) \/ FindOther(t) \/ Admit(t)
  \/ InsertLoad(t) \/ Claim(t) \/ Beaten(t)
  \/ WriteHash(t) \/ WriteValue(t) \/ Publish(t) \/ Count(t)

CacheNext == \E t \in Threads : Call(t) \/ Step(t)

CacheInit ==
  /\ state = [s \in Slots |-> "Empty"]
  /\ hash = [s \in Slots |-> NoKey]
  /\ value = [s \in Slots |-> NoPrice]
  /\ size = 0
  /\ pc = [t \in Threads |-> "idle"]
  /\ want = [t \in Threads |-> NoKey]
  /\ probe = [t \in Threads |-> 0]
  /\ answer = [t \in Threads |-> NoPrice]

CacheSpec == CacheInit /\ [][CacheNext]_cacheVars

(* A thread in a call keeps running; none has to make a call.              *)
FairSpec == CacheSpec /\ \A t \in Threads : WF_cacheVars(Step(t))

-----------------------------------------------------------------------------
Prices == {NoPrice} \cup {Price[h] : h \in Hashes}

CacheTypeOK ==
  /\ state \in [Slots -> {"Empty", "Writing", "Ready"}]
  /\ hash \in [Slots -> Hashes \cup {NoKey}]
  /\ value \in [Slots -> Prices]
  /\ size \in Nat
  /\ pc \in [Threads -> Places]
  /\ want \in [Threads -> Hashes \cup {NoKey}]
  /\ probe \in [Threads -> 0..(ProbeLimit - 1)]
  /\ answer \in [Threads -> Prices]
  /\ \A t \in Threads : pc[t] # "idle" => want[t] \in Hashes

Ready(s) == state[s] = "Ready"

(* Racing writers of one key do not both get a slot for it.                *)
OneSlotPerKey ==
  \A s, r \in Slots : Ready(s) /\ Ready(r) /\ hash[s] = hash[r] => s = r

(* A ready key is found: no slot before its own is still empty, and the    *)
(* probe reaches it.                                                       *)
Found ==
  \A s \in Slots : Ready(s) =>
    \E i \in 0..(ProbeLimit - 1) :
      /\ SlotAt(hash[s], i) = s
      /\ \A j \in 0..(i - 1) : state[SlotAt(hash[s], j)] # "Empty"

(* Whatever a thread does with the table, what a call hands to the search  *)
(* is the price of the op set it asked about.                              *)
RightAnswer ==
  \A t \in Threads : want[t] \in Hashes /\ pc[t] # "find" => answer[t] = Price[want[t]]

(* Threads that passed the size check together may overshoot the limit,    *)
(* by at most one entry each.                                              *)
Taken == {s \in Slots : state[s] # "Empty"}

LimitNearlyKept ==
  MaxEntries > 0 /\ ~Unlimited =>
    Cardinality(Taken) < MaxEntries + Cardinality(Threads)

(* A ready slot never changes: readers keep pointers into it.              *)
ReadyIsFinal ==
  [][\A s \in Slots : Ready(s) => /\ state'[s] = "Ready"
                                  /\ hash'[s] = hash[s]
                                  /\ value'[s] = value[s]]_cacheVars

(* The table behaves like MemoTable: a publication is the instant at which *)
(* a price becomes known.                                                  *)
Known == {hash[s] : s \in {s \in Slots : Ready(s)}}

Does(t) == CASE pc[t] \in {"idle", "count"} -> "idle"
             [] pc[t] = "find"              -> "asking"
             [] OTHER                       -> "pricing"

Doing == [t \in Threads |-> Does(t)]

Memo == INSTANCE MemoTable WITH known <- Known, doing <- Doing, about <- want

ImplementsMemo == Memo!MemoSpec

(* Every call returns: nobody waits forever behind a slot in Writing.      *)
CallsReturn == \A t \in Threads : (pc[t] # "idle") ~> (pc[t] = "idle")
=============================================================================
