-------------------------- MODULE RefinementProofs --------------------------
(***************************************************************************)
(* The two data structures that implement an abstract one: the cost cache  *)
(* a table that computes a value once, the pairing heap a queue of moves.  *)
(* They share no state, and every proof is about one of them.              *)
(*                                                                         *)
(* The cache, for every number of threads, keys and slots: a ready slot    *)
(* never changes, so what a thread has seen on its probe path stays true.  *)
(* Every thread that probes for h has only ready slots of other keys       *)
(* behind it, hence every ready slot has only such slots before it on the  *)
(* path of its own key, and two slots of one key would have to lie before  *)
(* each other.                                                             *)
(*                                                                         *)
(* The heap: child and next pointers make a binary tree whose upward       *)
(* pointer is prev.  The proofs carry a ghost along: par, the parent of    *)
(* each node in the tree the heap stands for, which is the node one        *)
(* arrives at by following prev to the left end of a row of siblings and   *)
(* up.                                                                     *)
(***************************************************************************)
EXTENDS CostCache, PairingHeap, DataInduction

-----------------------------------------------------------------------------
(* The cost cache                                                          *)
Other(s, h) == state[s] = "Ready" /\ hash[s] # h

(* The first n slots on the path of h belong to other keys.                *)
Behind(h, n) == \A j \in 0..(n - 1) : Other(SlotAt(h, j), h)

Probing == {"find", "admit", "insert", "claim", "beaten", "hash", "value", "publish"}
Filling == {"hash", "value", "publish"}

PathInv == \A t \in Threads : pc[t] \in Probing => Behind(want[t], probe[t])

FillInv ==
  \A t \in Threads : pc[t] \in Filling =>
    /\ state[Here(t)] = "Writing"
    /\ pc[t] # "hash" => hash[Here(t)] = want[t]
    /\ pc[t] = "publish" => value[Here(t)] = Price[want[t]]

AloneInv ==
  \A t, u \in Threads :
    pc[t] \in Filling /\ pc[u] \in Filling /\ Here(t) = Here(u) => t = u

PlacedInv ==
  \A s \in Slots : Ready(s) =>
    /\ hash[s] \in Hashes
    /\ value[s] = Price[hash[s]]
    /\ \E i \in 0..(ProbeLimit - 1) : SlotAt(hash[s], i) = s /\ Behind(hash[s], i)

CacheInv == /\ CacheTypeOK
            /\ PathInv
            /\ FillInv
            /\ AloneInv
            /\ PlacedInv
            /\ RightAnswer

(* What no step does to a ready slot.                                      *)
Final == \A s \in Slots : Ready(s) => /\ state'[s] = "Ready"
                                      /\ hash'[s] = hash[s]
                                      /\ value'[s] = value[s]

-----------------------------------------------------------------------------
LEMMA SlotAtType ==
  ASSUME NEW h \in Hashes, NEW i \in Nat
  PROVE  SlotAt(h, i) \in Slots
<1>1. Home[h] \in Nat
  BY HomeAssumption, CapacityAssumption DEF Slots
<1> DEFINE n == Home[h] + i
<1>2. n \in Nat
  BY <1>1
<1>3. n % Capacity \in 0..(Capacity - 1)
  <2> HIDE DEF n
  <2> QED BY <1>2, CapacityAssumption
<1> QED BY <1>3 DEF SlotAt, Slots

LEMMA HereType ==
  ASSUME CacheTypeOK, NEW t \in Threads, pc[t] # "idle"
  PROVE  /\ want[t] \in Hashes
         /\ probe[t] \in 0..(ProbeLimit - 1)
         /\ Here(t) \in Slots
<1>1. want[t] \in Hashes /\ probe[t] \in 0..(ProbeLimit - 1)
  BY DEF CacheTypeOK
<1> QED BY <1>1, SlotAtType, ProbeAssumption, CapacityAssumption DEF Here

(* A path behind a thread stays behind it.                                 *)
LEMMA BehindStays ==
  ASSUME Final, NEW h \in Hashes, NEW n \in Nat, Behind(h, n)
  PROVE  Behind(h, n)'
<1> SUFFICES ASSUME NEW j \in 0..(n - 1) PROVE Other(SlotAt(h, j), h)'
  BY DEF Behind, SlotAt
<1>1. SlotAt(h, j) \in Slots
  BY SlotAtType
<1>2. Other(SlotAt(h, j), h)
  BY DEF Behind
<1> QED BY <1>1, <1>2 DEF Final, Other, Ready, SlotAt

(* One slot further.                                                       *)
LEMMA BehindGrows ==
  ASSUME NEW h \in Hashes, NEW n \in Nat, Behind(h, n), Other(SlotAt(h, n), h)
  PROVE  Behind(h, n + 1)
<1> SUFFICES ASSUME NEW j \in 0..n PROVE Other(SlotAt(h, j), h)
  BY DEF Behind
<1>1. CASE j = n
  BY <1>1
<1>2. CASE j # n
  <2>1. j \in 0..(n - 1)
    BY <1>2
  <2> QED BY <2>1 DEF Behind
<1> QED BY <1>1, <1>2

LEMMA BehindStart ==
  ASSUME NEW h PROVE Behind(h, 0)
BY DEF Behind

-----------------------------------------------------------------------------
(* Types.                                                                  *)
LEMMA TypeStep ==
  ASSUME CacheTypeOK, [CacheNext]_cacheVars
  PROVE  CacheTypeOK'
<1> USE DEF CacheTypeOK
<1>1. CASE UNCHANGED cacheVars
  BY <1>1 DEF cacheVars
<1>2. ASSUME NEW t \in Threads, Call(t) PROVE CacheTypeOK'
  <2>1. 0 \in 0..(ProbeLimit - 1)
    BY ProbeAssumption
  <2> QED BY <1>2, <2>1 DEF Call, GoTo, Places, table
<1>3. ASSUME NEW t \in Threads, Step(t) PROVE CacheTypeOK'
  <2>1. /\ ProbeLimit \in Nat /\ 0 \in 0..(ProbeLimit - 1)
        /\ probe[t] + 1 < ProbeLimit => probe[t] + 1 \in 0..(ProbeLimit - 1)
    BY ProbeAssumption, CapacityAssumption
  <2>2. pc[t] # "idle" => Here(t) \in Slots /\ want[t] \in Hashes
    BY HereType
  <2>3. pc[t] # "idle" => Price[want[t]] \in Prices
    BY <2>2 DEF Prices
  <2>4. CASE FindHit(t)
    BY <2>2, <2>4 DEF FindHit, GoTo, Places, table
  <2>5. CASE FindEmpty(t)
    BY <2>1, <2>3, <2>5 DEF FindEmpty, Priced, GoTo, Places, table
  <2>6. CASE FindOther(t)
    BY <2>1, <2>3, <2>6 DEF FindOther, Onward, Priced, GoTo, Places, table
  <2>7. CASE Admit(t)
    BY <2>7 DEF Admit, GoTo, Places, table
  <2>8. CASE InsertLoad(t)
    BY <2>1, <2>8 DEF InsertLoad, Onward, GoTo, Places, table
  <2>9. CASE Claim(t)
    BY <2>2, <2>9 DEF Claim, GoTo, Places
  <2>10. CASE Beaten(t)
    BY <2>1, <2>10 DEF Beaten, Onward, GoTo, Places, table
  <2>11. CASE WriteHash(t)
    BY <2>2, <2>11 DEF WriteHash, GoTo, Places
  <2>12. CASE WriteValue(t)
    BY <2>2, <2>12 DEF WriteValue, GoTo, Places
  <2>13. CASE Publish(t)
    BY <2>2, <2>13 DEF Publish, GoTo, Places
  <2>14. CASE Count(t)
    BY <2>14 DEF Count, GoTo, Places
  <2> QED BY <1>3, <2>4, <2>5, <2>6, <2>7, <2>8, <2>9, <2>10, <2>11, <2>12, <2>13, <2>14 DEF Step
<1> QED BY <1>1, <1>2, <1>3 DEF CacheNext

-----------------------------------------------------------------------------
(* Ready slots are final.                                                  *)
LEMMA FinalStep ==
  ASSUME CacheInv, [CacheNext]_cacheVars
  PROVE  Final
<1> SUFFICES ASSUME NEW s \in Slots, Ready(s)
             PROVE  /\ state'[s] = "Ready"
                    /\ hash'[s] = hash[s]
                    /\ value'[s] = value[s]
  BY DEF Final
<1>0. CacheTypeOK /\ FillInv
  BY DEF CacheInv
<1>1. CASE UNCHANGED table
  BY <1>1 DEF table, Ready
<1>2. ASSUME NEW t \in Threads, Claim(t)
      PROVE  /\ state'[s] = "Ready" /\ hash'[s] = hash[s] /\ value'[s] = value[s]
  BY <1>0, <1>2 DEF Claim, Ready, CacheTypeOK
<1>3. ASSUME NEW t \in Threads, WriteHash(t) \/ WriteValue(t) \/ Publish(t)
      PROVE  /\ state'[s] = "Ready" /\ hash'[s] = hash[s] /\ value'[s] = value[s]
  <2>1. Here(t) # s
    BY <1>0, <1>3 DEF FillInv, Filling, WriteHash, WriteValue, Publish, Ready
  <2> QED BY <1>0, <1>3, <2>1 DEF WriteHash, WriteValue, Publish, Ready, CacheTypeOK
<1>4. ASSUME NEW t \in Threads, Count(t)
      PROVE  /\ state'[s] = "Ready" /\ hash'[s] = hash[s] /\ value'[s] = value[s]
  BY <1>4 DEF Count, Ready
<1>5. ASSUME NEW t \in Threads,
             Call(t) \/ FindHit(t) \/ FindEmpty(t) \/ FindOther(t) \/ Admit(t)
               \/ InsertLoad(t) \/ Beaten(t)
      PROVE  UNCHANGED table
  BY <1>5 DEF Call, FindHit, FindEmpty, FindOther, Admit, InsertLoad, Beaten
<1>6. CASE UNCHANGED cacheVars
  BY <1>1, <1>6 DEF cacheVars, table
<1> QED BY <1>1, <1>2, <1>3, <1>4, <1>5, <1>6 DEF CacheNext, Step

-----------------------------------------------------------------------------
(* A step of one thread leaves the local state of the others alone.        *)
LEMMA OthersStay ==
  ASSUME CacheTypeOK, NEW t \in Threads, Call(t) \/ Step(t),
         NEW u \in Threads, u # t
  PROVE  /\ pc'[u] = pc[u] /\ want'[u] = want[u]
         /\ probe'[u] = probe[u] /\ answer'[u] = answer[u]
<1> USE DEF CacheTypeOK, GoTo
<1>1. CASE Call(t) \/ FindHit(t) \/ FindEmpty(t) \/ Admit(t)
  BY <1>1 DEF Call, FindHit, FindEmpty, Priced, Admit
<1>2. CASE FindOther(t) \/ InsertLoad(t) \/ Beaten(t)
  BY <1>2 DEF FindOther, Priced, InsertLoad, Beaten, Onward
<1>3. CASE Claim(t) \/ WriteHash(t) \/ WriteValue(t) \/ Publish(t) \/ Count(t)
  BY <1>3 DEF Claim, WriteHash, WriteValue, Publish, Count
<1> QED BY <1>1, <1>2, <1>3 DEF Step

(* How a step moves a thread along its path.                               *)
LEMMA PathMoves ==
  ASSUME CacheTypeOK, NEW t \in Threads, Call(t) \/ Step(t), pc'[t] \in Probing
  PROVE  \/ probe'[t] = 0
         \/ /\ pc[t] \in Probing /\ want'[t] = want[t]
            /\ \/ probe'[t] = probe[t]
               \/ probe'[t] = probe[t] + 1 /\ Other(Here(t), want[t])
<1> USE DEF CacheTypeOK, GoTo, Probing
<1>1. CASE Call(t) \/ FindEmpty(t)
  BY <1>1 DEF Call, FindEmpty
<1>2. CASE FindHit(t) \/ Count(t)
  BY <1>2 DEF FindHit, Count
<1>3. CASE FindOther(t) \/ InsertLoad(t) \/ Beaten(t)
  BY <1>3 DEF FindOther, InsertLoad, Beaten, Onward, Other
<1>4. CASE Claim(t) \/ WriteHash(t) \/ WriteValue(t) \/ Publish(t)
  BY <1>4 DEF Claim, WriteHash, WriteValue, Publish
<1>5. CASE Admit(t)
  BY <1>5 DEF Admit
<1> QED BY <1>1, <1>2, <1>3, <1>4, <1>5 DEF Step
LEMMA PathStep ==
  ASSUME CacheInv, [CacheNext]_cacheVars
  PROVE  PathInv'
<1>0. CacheTypeOK /\ PathInv /\ CacheTypeOK' /\ Final
  BY TypeStep, FinalStep DEF CacheInv
<1> SUFFICES ASSUME NEW u \in Threads, (pc[u] \in Probing)'
             PROVE  Behind(want[u], probe[u])'
  BY DEF PathInv
<1>1. want'[u] \in Hashes /\ probe'[u] \in Nat
  <2>1. pc'[u] # "idle"
    BY DEF Probing
  <2> QED BY <1>0, <2>1 DEF CacheTypeOK
<1>2. CASE pc[u] \in Probing /\ want'[u] = want[u] /\ probe'[u] = probe[u]
  <2>1. Behind(want[u], probe[u])
    BY <1>0, <1>2 DEF PathInv
  <2>2. \A h \in Hashes, n \in Nat : Behind(h, n) => Behind(h, n)'
    BY <1>0, BehindStays
  <2> QED BY <1>1, <1>2, <2>1, <2>2 DEF Behind, SlotAt, Other
<1>3. CASE UNCHANGED cacheVars
  BY <1>2, <1>3 DEF cacheVars
<1>4. ASSUME NEW t \in Threads, Call(t) \/ Step(t)
      PROVE  Behind(want[u], probe[u])'
  <2>1. CASE u # t
    <3>1. pc'[u] = pc[u] /\ want'[u] = want[u] /\ probe'[u] = probe[u]
      BY <1>0, <1>4, <2>1, OthersStay
    <3> QED BY <1>2, <3>1
  <2>2. CASE u = t
    <3>1. \/ probe'[t] = 0
          \/ /\ pc[t] \in Probing /\ want'[t] = want[t]
             /\ \/ probe'[t] = probe[t]
                \/ probe'[t] = probe[t] + 1 /\ Other(Here(t), want[t])
      BY <1>0, <1>4, <2>2, PathMoves
    <3>2. CASE probe'[t] = 0
      BY <2>2, <3>2 DEF Behind
    <3>3. CASE /\ pc[t] \in Probing /\ want'[t] = want[t]
               /\ probe'[t] = probe[t] + 1 /\ Other(Here(t), want[t])
      <4>1. want[t] \in Hashes /\ probe[t] \in Nat
        BY <1>0, <3>3 DEF CacheTypeOK, Probing
      <4>2. Behind(want[t], probe[t])
        BY <1>0, <3>3 DEF PathInv
      <4>3. Behind(want[t], probe[t] + 1)
        BY <3>3, <4>1, <4>2, BehindGrows DEF Here
      <4>4. \A h \in Hashes, n \in Nat : Behind(h, n) => Behind(h, n)'
        BY <1>0, BehindStays
      <4> QED BY <2>2, <3>3, <4>1, <4>3, <4>4 DEF Behind, SlotAt, Other
    <3> QED BY <1>2, <2>2, <3>1, <3>2, <3>3
  <2> QED BY <2>1, <2>2
<1> QED BY <1>3, <1>4 DEF CacheNext

-----------------------------------------------------------------------------
(* Between winning a slot and publishing it a thread is alone with it.     *)
LEMMA FillMoves ==
  ASSUME CacheTypeOK, NEW t \in Threads, Call(t) \/ Step(t), pc'[t] \in Filling
  PROVE  /\ pc[t] \in {"claim", "hash", "value"}
         /\ want'[t] = want[t] /\ probe'[t] = probe[t] /\ answer'[t] = answer[t]
         /\ pc[t] = "claim" => Claim(t) /\ state[Here(t)] = "Empty" /\ pc'[t] = "hash"
         /\ pc[t] = "hash" => WriteHash(t) /\ pc'[t] = "value"
         /\ pc[t] = "value" => WriteValue(t) /\ pc'[t] = "publish"
<1> USE DEF CacheTypeOK, GoTo, Filling
<1>1. CASE Call(t) \/ FindEmpty(t) \/ FindHit(t) \/ Count(t) \/ Admit(t)
  BY <1>1 DEF Call, FindEmpty, FindHit, Count, Admit
<1>2. CASE FindOther(t) \/ InsertLoad(t) \/ Beaten(t)
  BY <1>2 DEF FindOther, InsertLoad, Beaten, Onward
<1>3. CASE Claim(t)
  BY <1>3 DEF Claim
<1>4. CASE WriteHash(t)
  BY <1>4 DEF WriteHash
<1>5. CASE WriteValue(t) \/ Publish(t)
  BY <1>5 DEF WriteValue, Publish
<1> QED BY <1>1, <1>2, <1>3, <1>4, <1>5 DEF Step

(* What a step does to a slot in Writing that another thread holds.        *)
LEMMA WritingStays ==
  ASSUME CacheInv, NEW t \in Threads, Call(t) \/ Step(t),
         NEW u \in Threads, u # t, pc[u] \in Filling
  PROVE  LET s == Here(u)
         IN  state'[s] = "Writing" /\ hash'[s] = hash[s] /\ value'[s] = value[s]
<1>0. CacheTypeOK /\ FillInv /\ AloneInv
  BY DEF CacheInv
<1>1. state[Here(u)] = "Writing" /\ Here(u) \in Slots
  BY <1>0, HereType DEF FillInv, Filling
<1>2. CASE Claim(t)
  BY <1>0, <1>1, <1>2 DEF Claim, CacheTypeOK
<1>3. CASE WriteHash(t) \/ WriteValue(t) \/ Publish(t)
  <2>1. Here(t) # Here(u)
    BY <1>0, <1>3 DEF AloneInv, Filling, WriteHash, WriteValue, Publish
  <2> QED BY <1>0, <1>1, <1>3, <2>1 DEF WriteHash, WriteValue, Publish, CacheTypeOK
<1>4. CASE Count(t)
  BY <1>1, <1>4 DEF Count
<1>5. CASE Call(t) \/ FindHit(t) \/ FindEmpty(t) \/ FindOther(t) \/ Admit(t)
             \/ InsertLoad(t) \/ Beaten(t)
  BY <1>1, <1>5 DEF Call, FindHit, FindEmpty, FindOther, Admit, InsertLoad, Beaten, table
<1> QED BY <1>2, <1>3, <1>4, <1>5 DEF Step
LEMMA AloneStep ==
  ASSUME CacheInv, [CacheNext]_cacheVars
  PROVE  AloneInv'
<1>0. CacheTypeOK /\ FillInv /\ AloneInv
  BY DEF CacheInv
<1>1. CASE UNCHANGED cacheVars
  BY <1>0, <1>1 DEF cacheVars, AloneInv, Here, SlotAt
<1>2. ASSUME NEW t \in Threads, Call(t) \/ Step(t) PROVE AloneInv'
  <2>1. ASSUME NEW u \in Threads, u # t
        PROVE  pc'[u] = pc[u] /\ Here(u)' = Here(u)
    BY <1>0, <1>2, <2>1, OthersStay DEF Here, SlotAt
  <2>2. ASSUME NEW u \in Threads, u # t, (pc[u] \in Filling)', (pc[t] \in Filling)'
        PROVE  Here(u)' # Here(t)'
    <3>1. pc[u] \in Filling /\ Here(u)' = Here(u)
      BY <2>1, <2>2
    <3>2. /\ pc[t] \in {"claim", "hash", "value"}
          /\ Here(t)' = Here(t)
          /\ pc[t] = "claim" => state[Here(t)] = "Empty"
      BY <1>0, <1>2, <2>2, FillMoves DEF Here, SlotAt
    <3>3. state[Here(u)] = "Writing"
      BY <1>0, <3>1 DEF FillInv
    <3>4. pc[t] # "claim" => Here(u) # Here(t)
      BY <1>0, <2>2, <3>1, <3>2 DEF AloneInv, Filling
    <3> QED BY <3>1, <3>2, <3>3, <3>4
  <2>3. ASSUME NEW u \in Threads, NEW w \in Threads, u # t, w # t,
               (pc[u] \in Filling /\ pc[w] \in Filling /\ Here(u) = Here(w))'
        PROVE  u = w
    <3>1. pc[u] \in Filling /\ pc[w] \in Filling /\ Here(u) = Here(w)
      BY <2>1, <2>3
    <3> QED BY <1>0, <3>1 DEF AloneInv
  <2> QED BY <2>2, <2>3 DEF AloneInv
<1> QED BY <1>1, <1>2 DEF CacheNext

LEMMA FillStep ==
  ASSUME CacheInv, [CacheNext]_cacheVars
  PROVE  FillInv'
<1>0. CacheTypeOK /\ FillInv /\ AloneInv /\ RightAnswer
  BY DEF CacheInv
<1>1. CASE UNCHANGED cacheVars
  BY <1>0, <1>1 DEF cacheVars, FillInv, Here, SlotAt
<1>2. ASSUME NEW t \in Threads, Call(t) \/ Step(t) PROVE FillInv'
  <2> SUFFICES ASSUME NEW u \in Threads, (pc[u] \in Filling)'
               PROVE  (/\ state[Here(u)] = "Writing"
                       /\ pc[u] # "hash" => hash[Here(u)] = want[u]
                       /\ pc[u] = "publish" => value[Here(u)] = Price[want[u]])'
    BY DEF FillInv
  <2>1. CASE u # t
    <3>1. pc'[u] = pc[u] /\ want'[u] = want[u] /\ Here(u)' = Here(u)
      BY <1>0, <1>2, <2>1, OthersStay DEF Here, SlotAt
    <3>2. LET s == Here(u)
          IN  state'[s] = "Writing" /\ hash'[s] = hash[s] /\ value'[s] = value[s]
      BY <1>2, <2>1, <3>1, WritingStays
    <3>3. /\ pc[u] # "hash" => hash[Here(u)] = want[u]
          /\ pc[u] = "publish" => value[Here(u)] = Price[want[u]]
      BY <1>0, <3>1 DEF FillInv
    <3> QED BY <3>1, <3>2, <3>3
  <2>2. CASE u = t
    <3>1. /\ pc[t] \in {"claim", "hash", "value"}
          /\ want'[t] = want[t] /\ Here(t)' = Here(t)
          /\ pc[t] = "claim" => Claim(t) /\ state[Here(t)] = "Empty" /\ pc'[t] = "hash"
          /\ pc[t] = "hash" => WriteHash(t) /\ pc'[t] = "value"
          /\ pc[t] = "value" => WriteValue(t) /\ pc'[t] = "publish"
      BY <1>0, <1>2, <2>2, FillMoves DEF Here, SlotAt
    <3>2. Here(t) \in Slots /\ want[t] \in Hashes
      BY <1>0, <3>1, HereType
    <3>3. CASE pc[t] = "claim"
      BY <1>0, <2>2, <3>1, <3>2, <3>3 DEF Claim, CacheTypeOK
    <3>4. CASE pc[t] = "hash"
      <4>1. state[Here(t)] = "Writing"
        BY <1>0, <3>4 DEF FillInv, Filling
      <4> QED BY <1>0, <2>2, <3>1, <3>2, <3>4, <4>1 DEF WriteHash, CacheTypeOK
    <3>5. CASE pc[t] = "value"
      <4>1. state[Here(t)] = "Writing" /\ hash[Here(t)] = want[t]
        BY <1>0, <3>5 DEF FillInv, Filling
      <4>2. answer[t] = Price[want[t]]
        BY <1>0, <3>2, <3>5 DEF RightAnswer
      <4> QED BY <1>0, <2>2, <3>1, <3>2, <3>5, <4>1, <4>2 DEF WriteValue, CacheTypeOK
    <3> QED BY <3>1, <3>3, <3>4, <3>5
  <2> QED BY <2>1, <2>2
<1> QED BY <1>1, <1>2 DEF CacheNext

-----------------------------------------------------------------------------
(* A slot that becomes ready has just been filled.                         *)
LEMMA PlacedStep ==
  ASSUME CacheInv, [CacheNext]_cacheVars
  PROVE  PlacedInv'
<1>0. CacheTypeOK /\ PathInv /\ FillInv /\ PlacedInv /\ Final
  BY FinalStep DEF CacheInv
<1>1. \A h \in Hashes, n \in Nat : Behind(h, n) => Behind(h, n)'
  BY <1>0, BehindStays
<1> SUFFICES ASSUME NEW s \in Slots, Ready(s)'
             PROVE  (/\ hash[s] \in Hashes
                     /\ value[s] = Price[hash[s]]
                     /\ \E i \in 0..(ProbeLimit - 1) : SlotAt(hash[s], i) = s /\ Behind(hash[s], i))'
  BY DEF PlacedInv, Ready
<1>2. CASE Ready(s)
  <2>1. /\ hash[s] \in Hashes
        /\ value[s] = Price[hash[s]]
        /\ hash'[s] = hash[s] /\ value'[s] = value[s]
    BY <1>0, <1>2 DEF PlacedInv, Final
  <2>2. PICK i \in 0..(ProbeLimit - 1) : SlotAt(hash[s], i) = s /\ Behind(hash[s], i)
    BY <1>0, <1>2 DEF PlacedInv
  <2>3. i \in Nat
    BY <2>2, ProbeAssumption
  <2>4. Behind(hash[s], i)'
    BY <1>1, <2>1, <2>2, <2>3 DEF Behind, SlotAt, Other
  <2>5. SlotAt(hash[s], i)' = s
    BY <2>1, <2>2 DEF SlotAt
  <2> QED BY <2>1, <2>4, <2>5
<1>3. CASE ~Ready(s)
  <2>1. PICK t \in Threads : Publish(t) /\ Here(t) = s
    <3>1. state'[s] = "Ready" /\ state[s] # "Ready"
      BY <1>3 DEF Ready
    <3>2. PICK t \in Threads : Call(t) \/ Step(t)
      BY <3>1 DEF CacheNext, cacheVars
    <3>3. ASSUME NEW u \in Threads, Claim(u) PROVE FALSE
      BY <1>0, <3>1, <3>3 DEF Claim, CacheTypeOK
    <3>4. Publish(t)
      BY <3>1, <3>2, <3>3 DEF Step, Call, FindHit, FindEmpty, FindOther, Admit, InsertLoad,
        Beaten, WriteHash, WriteValue, Count, table
    <3>5. Here(t) = s
      BY <1>0, <3>1, <3>4 DEF Publish, CacheTypeOK
    <3> QED BY <3>4, <3>5
  <2>2. /\ want[t] \in Hashes /\ probe[t] \in 0..(ProbeLimit - 1)
        /\ hash' = hash /\ value' = value
    BY <1>0, <2>1, HereType DEF Publish
  <2>3. hash[s] = want[t] /\ value[s] = Price[want[t]]
    BY <1>0, <2>1 DEF FillInv, Filling, Publish
  <2>4. PICK i \in 0..(ProbeLimit - 1) : SlotAt(hash[s], i) = s /\ Behind(hash[s], i)
    BY <1>0, <2>1, <2>2, <2>3 DEF PathInv, Probing, Publish, Here
  <2>5. i \in Nat
    BY <2>4, ProbeAssumption
  <2>6. Behind(hash[s], i)'
    BY <1>1, <2>2, <2>3, <2>4, <2>5 DEF Behind, SlotAt, Other
  <2>7. SlotAt(hash[s], i)' = s
    BY <2>2, <2>4 DEF SlotAt
  <2> QED BY <2>2, <2>3, <2>6, <2>7
<1> QED BY <1>2, <1>3

LEMMA AnswerStep ==
  ASSUME CacheInv, [CacheNext]_cacheVars
  PROVE  RightAnswer'
<1>0. CacheTypeOK /\ PlacedInv /\ RightAnswer
  BY DEF CacheInv
<1>1. CASE UNCHANGED cacheVars
  BY <1>0, <1>1 DEF cacheVars, RightAnswer
<1>2. ASSUME NEW t \in Threads, Call(t) \/ Step(t) PROVE RightAnswer'
  <2> SUFFICES ASSUME NEW u \in Threads, (want[u] \in Hashes /\ pc[u] # "find")'
               PROVE  (answer[u] = Price[want[u]])'
    BY DEF RightAnswer
  <2>1. CASE u # t
    BY <1>0, <1>2, <2>1, OthersStay DEF RightAnswer
  <2>2. CASE u = t
    <3> USE <1>0, <2>2 DEF CacheTypeOK, GoTo
    <3>1. CASE Call(t)
      BY <3>1 DEF Call
    <3>2. CASE FindHit(t)
      <4>1. Here(t) \in Slots
        BY <3>2, HereType DEF FindHit
      <4>2. value[Here(t)] = Price[want[t]]
        BY <3>2, <4>1 DEF FindHit, PlacedInv, Ready
      <4> QED BY <3>2, <4>2 DEF FindHit
    <3>3. CASE FindEmpty(t)
      BY <3>3 DEF FindEmpty, Priced
    <3>4. CASE FindOther(t)
      BY <3>4 DEF FindOther, Onward, Priced
    <3>5. CASE InsertLoad(t) \/ Beaten(t)
      BY <3>5 DEF InsertLoad, Beaten, RightAnswer
    <3>6. CASE Admit(t) \/ Claim(t) \/ WriteHash(t) \/ WriteValue(t) \/ Publish(t) \/ Count(t)
      BY <3>6 DEF Admit, Claim, WriteHash, WriteValue, Publish, Count, RightAnswer
    <3> QED BY <1>2, <3>1, <3>2, <3>3, <3>4, <3>5, <3>6 DEF Step
  <2> QED BY <2>1, <2>2
<1> QED BY <1>1, <1>2 DEF CacheNext

-----------------------------------------------------------------------------
(* The invariant holds in every reachable state: HashOnlyMap under any     *)
(* interleaving of any number of calls.                                    *)
THEOREM CacheInvariance == CacheSpec => []CacheInv
<1>1. CacheInit => CacheInv
  <2> SUFFICES ASSUME CacheInit PROVE CacheInv
    OBVIOUS
  <2>1. CacheTypeOK
    BY ProbeAssumption DEF CacheInit, CacheTypeOK, Places, Prices
  <2>2. PathInv /\ FillInv /\ AloneInv /\ PlacedInv
    BY DEF CacheInit, PathInv, FillInv, AloneInv, PlacedInv, Probing, Filling, Ready
  <2>3. RightAnswer
    BY FreshAssumption DEF CacheInit, RightAnswer
  <2> QED BY <2>1, <2>2, <2>3 DEF CacheInv
<1>2. CacheInv /\ [CacheNext]_cacheVars => CacheInv'
  <2> SUFFICES ASSUME CacheInv, [CacheNext]_cacheVars PROVE CacheInv'
    OBVIOUS
  <2>1. CacheTypeOK'
    BY TypeStep DEF CacheInv
  <2> QED BY <2>1, PathStep, FillStep, AloneStep, PlacedStep, AnswerStep DEF CacheInv
<1> QED BY <1>1, <1>2, PTL DEF CacheSpec

(* Types of table and threads.                                             *)
THEOREM CacheTypeCorrect == CacheSpec => []CacheTypeOK
<1>1. CacheInv => CacheTypeOK
  BY DEF CacheInv
<1> QED BY <1>1, CacheInvariance, PTL

(* What a call hands back is the price of its own op set (evaluate).       *)
THEOREM AnswersAreRight == CacheSpec => []RightAnswer
<1>1. CacheInv => RightAnswer
  BY DEF CacheInv
<1> QED BY <1>1, CacheInvariance, PTL

(* No two slots hold one key (insert's compare-and-swap and its waiting).  *)
THEOREM KeysAreUnique == CacheSpec => []OneSlotPerKey
<1>1. CacheInv => OneSlotPerKey
  <2> SUFFICES ASSUME CacheInv, NEW s \in Slots, NEW r \in Slots,
                      Ready(s), Ready(r), hash[s] = hash[r]
               PROVE  s = r
    BY DEF OneSlotPerKey
  <2>0. PlacedInv
    BY DEF CacheInv
  <2>1. PICK i \in 0..(ProbeLimit - 1) : SlotAt(hash[s], i) = s /\ Behind(hash[s], i)
    BY <2>0 DEF PlacedInv
  <2>2. PICK j \in 0..(ProbeLimit - 1) : SlotAt(hash[s], j) = r /\ Behind(hash[s], j)
    BY <2>0 DEF PlacedInv
  <2>3. ~(i < j) /\ ~(j < i)
    BY <2>1, <2>2, ProbeAssumption DEF Behind, Other
  <2> QED BY <2>1, <2>2, <2>3, ProbeAssumption
<1> QED BY <1>1, CacheInvariance, PTL

(* A recorded key is on its own probe path with no empty slot before it,   *)
(* so find() reaches it.                                                   *)
THEOREM KeysAreFound == CacheSpec => []Found
<1>1. CacheInv => Found
  <2> SUFFICES ASSUME CacheInv, NEW s \in Slots, Ready(s)
               PROVE  \E i \in 0..(ProbeLimit - 1) :
                        /\ SlotAt(hash[s], i) = s
                        /\ \A j \in 0..(i - 1) : state[SlotAt(hash[s], j)] # "Empty"
    BY DEF Found
  <2>1. PICK i \in 0..(ProbeLimit - 1) : SlotAt(hash[s], i) = s /\ Behind(hash[s], i)
    BY DEF CacheInv, PlacedInv
  <2>2. \A j \in 0..(i - 1) : state[SlotAt(hash[s], j)] # "Empty"
    BY <2>1 DEF Behind, Other
  <2> QED BY <2>1, <2>2
<1> QED BY <1>1, CacheInvariance, PTL

(* find() hands out pointers into slots: what they point to stays.         *)
THEOREM ReadySlotsAreFinal == CacheSpec => ReadyIsFinal
<1>1. CacheInv /\ [CacheNext]_cacheVars
        => [\A s \in Slots : Ready(s) => /\ state'[s] = "Ready"
                                         /\ hash'[s] = hash[s]
                                         /\ value'[s] = value[s]]_cacheVars
  BY FinalStep DEF Final
<1> QED BY <1>1, CacheInvariance, PTL DEF CacheSpec, ReadyIsFinal

-----------------------------------------------------------------------------
(* The size limit.  A slot is taken before it is counted, by a thread that *)
(* stands between the two (CountInv); a thread is let in while there is    *)
(* room, and then stands between the check and its count (LimitInv).       *)
Writers == {t \in Threads : pc[t] \in {"hash", "value", "publish", "count"}}

Admitted == {t \in Threads : pc[t] \in {"insert", "claim", "beaten",
                                       "hash", "value", "publish", "count"}}

CountInv == Cardinality(Taken) <= size + Cardinality(Writers)

LimitInv ==
  MaxEntries > 0 /\ ~Unlimited =>
    size + Cardinality(Admitted) < MaxEntries + Cardinality(Threads)

(* Threads and slots that are counted are finitely many.                   *)
LEMMA Counted ==
  /\ IsFiniteSet(Taken) /\ IsFiniteSet(Writers) /\ IsFiniteSet(Admitted)
  /\ Cardinality(Taken) \in Nat /\ Cardinality(Writers) \in Nat
  /\ Cardinality(Admitted) \in Nat /\ Cardinality(Threads) \in Nat
  /\ Cardinality(Writers) <= Cardinality(Admitted)
  /\ Cardinality(Admitted) <= Cardinality(Threads)
<1>1. IsFiniteSet(Slots)
  BY FS_Interval, CapacityAssumption DEF Slots
<1>2. Taken \subseteq Slots /\ Writers \subseteq Admitted /\ Admitted \subseteq Threads
  BY DEF Taken, Writers, Admitted
<1>3. IsFiniteSet(Taken)
  BY <1>1, <1>2, FS_Subset
<1>4. IsFiniteSet(Admitted) /\ Cardinality(Admitted) <= Cardinality(Threads)
  BY <1>2, ThreadsAssumption, FS_Subset
<1>5. IsFiniteSet(Writers) /\ Cardinality(Writers) <= Cardinality(Admitted)
  BY <1>2, <1>4, FS_Subset
<1> QED BY <1>3, <1>4, <1>5, ThreadsAssumption, FS_CardinalityType

(* What a step of one thread does to the two sets of threads.              *)
LEMMA PlacesMove ==
  ASSUME CacheTypeOK, NEW t \in Threads, Call(t) \/ Step(t)
  PROVE  LET writes == {"hash", "value", "publish", "count"}
             goes == {"insert", "claim", "beaten"} \cup writes
         IN  /\ Writers' = IF pc'[t] \in writes THEN Writers \cup {t} ELSE Writers \ {t}
             /\ Admitted' = IF pc'[t] \in goes THEN Admitted \cup {t} ELSE Admitted \ {t}
<1>1. \A u \in Threads : u # t => pc'[u] = pc[u]
  BY OthersStay
<1> QED BY <1>1 DEF Writers, Admitted

(* Only a won compare-and-swap takes a slot, and only one slot.            *)
LEMMA TakenMoves ==
  ASSUME CacheTypeOK, FillInv, NEW t \in Threads, Call(t) \/ Step(t)
  PROVE  \/ Taken' = Taken
         \/ Claim(t) /\ pc'[t] = "hash" /\ pc[t] = "claim" /\ Taken' = Taken \cup {Here(t)}
<1>1. CASE UNCHANGED state
  BY <1>1 DEF Taken
<1>2. CASE Claim(t)
  <2>1. Here(t) \in Slots
    BY <1>2, HereType DEF Claim
  <2>2. CASE state[Here(t)] = "Empty"
    <3>1. Taken' = Taken \cup {Here(t)}
      BY <1>2, <2>1, <2>2 DEF Claim, Taken, CacheTypeOK
    <3> QED BY <1>2, <2>2, <3>1 DEF Claim, GoTo, CacheTypeOK
  <2>3. CASE state[Here(t)] # "Empty"
    BY <1>1, <1>2, <2>3 DEF Claim
  <2> QED BY <2>2, <2>3
<1>3. CASE Publish(t)
  <2>1. state[Here(t)] = "Writing" /\ Here(t) \in Slots
    BY <1>3, HereType DEF Publish, FillInv, Filling
  <2> QED BY <1>3, <2>1 DEF Publish, Taken, CacheTypeOK
<1> QED BY <1>1, <1>2, <1>3 DEF Call, Step, FindHit, FindEmpty, FindOther, Admit, InsertLoad,
      Beaten, WriteHash, WriteValue, Count, table

LEMMA LimitStep ==
  ASSUME CacheTypeOK, FillInv, CountInv, LimitInv, [CacheNext]_cacheVars
  PROVE  CountInv' /\ LimitInv'
<1>0. CASE UNCHANGED cacheVars
  BY <1>0 DEF cacheVars, CountInv, LimitInv, Taken, Writers, Admitted
<1> DEFINE writes == {"hash", "value", "publish", "count"}
           goes == {"insert", "claim", "beaten"} \cup writes
<1>1. ASSUME NEW t \in Threads, Call(t) \/ Step(t) PROVE CountInv' /\ LimitInv'
  <2>1. /\ Writers' = IF pc'[t] \in writes THEN Writers \cup {t} ELSE Writers \ {t}
        /\ Admitted' = IF pc'[t] \in goes THEN Admitted \cup {t} ELSE Admitted \ {t}
        /\ t \in Writers <=> pc[t] \in writes
        /\ t \in Admitted <=> pc[t] \in goes
    BY <1>1, PlacesMove DEF Writers, Admitted
  <2>2. size \in Nat /\ MaxEntries \in Nat
    BY MaxEntriesAssumption DEF CacheTypeOK
  <2>3. CASE Taken' # Taken
    <3>1. /\ Claim(t) /\ pc[t] = "claim" /\ pc'[t] = "hash"
          /\ Taken' = Taken \cup {Here(t)} /\ Here(t) \notin Taken /\ size' = size
      BY <1>1, <2>3, TakenMoves DEF Claim
    <3>2. /\ Writers' = Writers \cup {t} /\ t \notin Writers
          /\ Admitted' = Admitted
      BY <2>1, <3>1
    <3>3. Cardinality(Taken') = Cardinality(Taken) + 1
      BY <3>1, Counted, FS_AddElement
    <3>4. Cardinality(Writers') = Cardinality(Writers) + 1
      BY <3>2, Counted, FS_AddElement
    <3>5. CountInv'
      BY <2>2, <3>1, <3>3, <3>4, Counted DEF CountInv
    <3>6. LimitInv'
      BY <3>1, <3>2 DEF LimitInv
    <3> QED BY <3>5, <3>6
  <2>4. CASE Count(t)
    <3>1. Taken' = Taken /\ size' = size + 1 /\ pc[t] = "count" /\ pc'[t] = "idle"
      BY <2>4 DEF Count, GoTo, Taken, CacheTypeOK
    <3>2. /\ t \in Writers /\ Writers' = Writers \ {t}
          /\ t \in Admitted /\ Admitted' = Admitted \ {t}
      BY <2>1, <3>1
    <3>3. Cardinality(Writers') = Cardinality(Writers) - 1
      BY <3>2, Counted, FS_RemoveElement
    <3>4. Cardinality(Admitted') = Cardinality(Admitted) - 1
      BY <3>2, Counted, FS_RemoveElement
    <3>5. CountInv'
      BY <2>2, <3>1, <3>3, Counted DEF CountInv
    <3>6. LimitInv'
      BY <2>2, <3>1, <3>4, Counted DEF LimitInv
    <3> QED BY <3>5, <3>6
  <2>5. CASE Taken' = Taken /\ ~Count(t)
    <3>1. size' = size
      BY <1>1, <2>5 DEF Call, Step, FindHit, FindEmpty, FindOther, Admit, InsertLoad,
         Claim, Beaten, WriteHash, WriteValue, Publish, table
    <3>2. Writers' = Writers /\ CountInv'
      <4>1. Writers' = Writers
        <5>1. pc'[t] \in writes <=> pc[t] \in writes
          <6>1. CASE Claim(t)
            <7>1. state[Here(t)] # "Empty"
              <8>1. Here(t) \in Slots
                BY <6>1, HereType DEF Claim
              <8> QED BY <2>5, <6>1, <8>1 DEF Claim, Taken, CacheTypeOK
            <7> QED BY <6>1, <7>1 DEF Claim, GoTo, CacheTypeOK
          <6>2. CASE Call(t) \/ FindHit(t) \/ FindEmpty(t) \/ FindOther(t) \/ Admit(t)
            BY <6>2 DEF Call, FindHit, FindEmpty, FindOther, Admit, Onward, GoTo, CacheTypeOK
          <6>3. CASE InsertLoad(t) \/ Beaten(t)
            BY <6>3 DEF InsertLoad, Beaten, Onward, GoTo, CacheTypeOK
          <6>4. CASE WriteHash(t) \/ WriteValue(t) \/ Publish(t)
            BY <6>4 DEF WriteHash, WriteValue, Publish, GoTo, CacheTypeOK
          <6> QED BY <1>1, <2>5, <6>1, <6>2, <6>3, <6>4 DEF Step
        <5> QED BY <2>1, <5>1
      <4> QED BY <2>5, <3>1, <4>1 DEF CountInv
    <3>3. LimitInv'
      <4>1. CASE Admit(t)
        <5>1. /\ MaxEntries > 0 /\ ~Unlimited => size < MaxEntries \/ pc'[t] = "idle"
              /\ pc[t] = "admit"
          BY <2>2, <4>1 DEF Admit, OverLimit, GoTo, CacheTypeOK
        <5>2. CASE pc'[t] = "idle"
          <6>1. Admitted' = Admitted
            BY <2>1, <5>1, <5>2
          <6> QED BY <3>1, <6>1 DEF LimitInv
        <5>3. Cardinality(Admitted') <= Cardinality(Threads) /\ Cardinality(Admitted') \in Nat
          <6>1. Admitted' \subseteq Threads
            BY DEF Admitted
          <6> QED BY <6>1, ThreadsAssumption, FS_Subset, FS_CardinalityType
        <5> QED BY <2>2, <3>1, <5>1, <5>2, <5>3, Counted DEF LimitInv
      <4>2. CASE ~Admit(t)
        <5>1. pc'[t] \in goes => pc[t] \in goes
          <6>1. CASE Call(t) \/ FindHit(t) \/ FindEmpty(t) \/ FindOther(t)
            BY <6>1 DEF Call, FindHit, FindEmpty, FindOther, Onward, GoTo, CacheTypeOK
          <6>2. CASE InsertLoad(t) \/ Beaten(t) \/ Claim(t) \/ WriteHash(t) \/ WriteValue(t)
                      \/ Publish(t)
            BY <6>2 DEF InsertLoad, Beaten, Claim, WriteHash, WriteValue, Publish
          <6> QED BY <1>1, <2>5, <4>2, <6>1, <6>2 DEF Step
        <5>2. Admitted' \subseteq Admitted
          BY <2>1, <5>1
        <5>3. Cardinality(Admitted') <= Cardinality(Admitted) /\ Cardinality(Admitted') \in Nat
          BY <5>2, Counted, FS_Subset, FS_CardinalityType
        <5> QED BY <2>2, <3>1, <5>3, Counted DEF LimitInv
      <4> QED BY <4>1, <4>2
    <3> QED BY <3>2, <3>3
  <2> QED BY <2>3, <2>4, <2>5
<1> QED BY <1>0, <1>1 DEF CacheNext

(* evaluate() compares the size with max_entries before it inserts, and    *)
(* size_ grows after the slot is taken: the limit is overshot all the same *)
(* by fewer entries than there are threads.                                *)
THEOREM LimitIsNearlyKept == CacheSpec => []LimitNearlyKept
<1>1. CacheInit => CountInv /\ LimitInv
  <2> SUFFICES ASSUME CacheInit PROVE CountInv /\ LimitInv
    OBVIOUS
  <2>1. Taken = {} /\ Writers = {} /\ Admitted = {} /\ size = 0
    BY DEF CacheInit, Taken, Writers, Admitted
  <2> QED BY <2>1, FS_EmptySet, MaxEntriesAssumption, Counted DEF CountInv, LimitInv
<1>2. CacheInv /\ CountInv /\ LimitInv /\ [CacheNext]_cacheVars => CountInv' /\ LimitInv'
  BY LimitStep DEF CacheInv
<1>3. CacheInv /\ CountInv /\ LimitInv => LimitNearlyKept
  BY Counted, MaxEntriesAssumption DEF CacheInv, CacheTypeOK, CountInv, LimitInv, LimitNearlyKept
<1> QED BY <1>1, <1>2, <1>3, CacheInvariance, PTL DEF CacheSpec

-----------------------------------------------------------------------------
(* The table of slots implements the table of prices.                      *)
(* A probe that meets a slot not ready, or its end, has not missed the key. *)
LEMMA NotKnown ==
  ASSUME PlacedInv, NEW h \in Hashes, NEW n \in 0..ProbeLimit, Behind(h, n),
         n = ProbeLimit \/ ~Ready(SlotAt(h, n))
  PROVE  h \notin Known
<1> SUFFICES ASSUME NEW s \in Slots, Ready(s), hash[s] = h PROVE FALSE
  BY DEF Known
<1>1. PICK i \in 0..(ProbeLimit - 1) : SlotAt(h, i) = s /\ Behind(h, i)
  BY DEF PlacedInv
<1>2. CASE i < n
  <2>1. i \in 0..(n - 1)
    BY <1>2, ProbeAssumption
  <2> QED BY <1>1, <2>1 DEF Behind, Other
<1>3. CASE i = n
  BY <1>1, <1>3, ProbeAssumption
<1>4. CASE n < i
  <2>1. n \in 0..(i - 1)
    BY <1>4, ProbeAssumption
  <2>2. n # ProbeLimit
    BY <1>4, ProbeAssumption
  <2> QED BY <1>1, <2>1, <2>2 DEF Behind, Other, Ready
<1> QED BY <1>2, <1>3, <1>4, ProbeAssumption

(* A step that publishes nothing leaves the known keys as they are.        *)
LEMMA KnownStays ==
  ASSUME state' = state, hash' = hash
  PROVE  Known' = Known
BY DEF Known, Ready

(* Only the thread that moves does something new.                          *)
LEMMA DoingMoves ==
  ASSUME CacheTypeOK, NEW t \in Threads, NEW place, GoTo(t, place)
  PROVE  Doing' = [Doing EXCEPT ![t] = CASE place \in {"idle", "count"} -> "idle"
                                         [] place = "find" -> "asking"
                                         [] OTHER -> "pricing"]
<1>1. \A u \in Threads : pc'[u] = IF u = t THEN place ELSE pc[u]
  BY DEF GoTo, CacheTypeOK
<1> QED BY <1>1 DEF Doing, Does

LEMMA KnownKept ==
  ASSUME NEW s \in Slots, ~Ready(s), ~Ready(s)',
         \A r \in Slots : r # s => state'[r] = state[r] /\ hash'[r] = hash[r]
  PROVE  Known' = Known
BY DEF Known, Ready

LEMMA KnownGrows ==
  ASSUME NEW s \in Slots, Ready(s)', ~Ready(s), hash' = hash,
         \A r \in Slots : r # s => state'[r] = state[r]
  PROVE  Known' = Known \cup {hash[s]}
BY DEF Known, Ready

LEMMA RefinementStep ==
  ASSUME CacheInv, CacheTypeOK', [CacheNext]_cacheVars
  PROVE  [Memo!MemoNext]_<<Known, Doing, want, answer>>
<1>0. CacheTypeOK /\ PathInv /\ FillInv /\ PlacedInv
  BY DEF CacheInv
<1>1. CASE UNCHANGED cacheVars
  <2>1. Doing' = Doing
    BY <1>1 DEF cacheVars, Doing, Does
  <2> QED BY <1>1, <2>1, KnownStays DEF cacheVars
<1>2. ASSUME NEW t \in Threads, Call(t) PROVE Memo!Ask(t)
  <2>1. Doing' = [Doing EXCEPT ![t] = "asking"] /\ Doing[t] = "idle"
    BY <1>0, <1>2, DoingMoves DEF Call, Doing, Does
  <2> QED BY <1>2, <2>1, KnownStays DEF Call, table, Memo!Ask
<1>3. ASSUME NEW t \in Threads, Step(t)
      PROVE  [Memo!MemoNext]_<<Known, Doing, want, answer>>
  <2>0. /\ want[t] \in Hashes /\ Here(t) \in Slots /\ probe[t] \in 0..(ProbeLimit - 1)
        /\ pc[t] \in Places
    BY <1>0, <1>3, HereType DEF Step, FindHit, FindEmpty, FindOther, Admit, InsertLoad, Claim,
       Beaten, WriteHash, WriteValue, Publish, Count, CacheTypeOK
  <2>1. CASE FindHit(t)
    <3>1. Known' = Known
      BY <2>1, KnownStays DEF FindHit, table
    <3>2. want[t] \in Known /\ value[Here(t)] = Price[want[t]]
      BY <1>0, <2>0, <2>1 DEF FindHit, Known, Ready, PlacedInv
    <3>3. Doing' = [Doing EXCEPT ![t] = "idle"] /\ Doing[t] = "asking"
      BY <1>0, <2>1, DoingMoves DEF FindHit, Doing, Does
    <3> QED BY <2>1, <3>1, <3>2, <3>3 DEF FindHit, Memo!Hit, Memo!MemoNext
  <2>2. CASE FindEmpty(t)
    <3>1. Known' = Known
      BY <2>2, KnownStays DEF FindEmpty, table
    <3>2. want[t] \notin Known
      <4>1. Behind(want[t], probe[t]) /\ ~Ready(SlotAt(want[t], probe[t]))
        BY <1>0, <2>2 DEF FindEmpty, PathInv, Probing, Here, Ready
      <4> QED BY <1>0, <2>0, <4>1, NotKnown, ProbeAssumption
    <3>3. Doing' = [Doing EXCEPT ![t] = "pricing"] /\ Doing[t] = "asking"
      BY <1>0, <2>2, DoingMoves DEF FindEmpty, Doing, Does
    <3> QED BY <2>2, <3>1, <3>2, <3>3 DEF FindEmpty, Priced, Memo!Miss, Memo!MemoNext
  <2>3. CASE FindOther(t) /\ probe[t] + 1 < ProbeLimit
    <3>1. Known' = Known
      BY <2>3, KnownStays DEF FindOther, table
    <3>2. GoTo(t, "find")
      BY <2>3 DEF FindOther, Onward
    <3>3. Doing' = [Doing EXCEPT ![t] = "asking"] /\ Doing[t] = "asking"
      BY <1>0, <2>3, <3>2, DoingMoves DEF FindOther, Doing, Does
    <3>4. Doing' = Doing
      BY <3>3 DEF Doing
    <3> QED BY <2>3, <3>1, <3>4 DEF FindOther
  <2>4. CASE FindOther(t) /\ ~(probe[t] + 1 < ProbeLimit)
    <3>1. Known' = Known
      BY <2>4, KnownStays DEF FindOther, table
    <3>2. want[t] \notin Known
      <4>1. probe[t] + 1 = ProbeLimit /\ probe[t] \in Nat
        BY <2>0, <2>4, ProbeAssumption
      <4>2. Behind(want[t], probe[t]) /\ Other(SlotAt(want[t], probe[t]), want[t])
        BY <1>0, <2>4 DEF FindOther, PathInv, Probing, Here, Other
      <4>3. Behind(want[t], ProbeLimit)
        BY <2>0, <4>1, <4>2, BehindGrows
      <4> QED BY <1>0, <2>0, <4>3, NotKnown, ProbeAssumption
    <3>3. GoTo(t, "admit")
      BY <2>4 DEF FindOther, Onward
    <3>4. Doing' = [Doing EXCEPT ![t] = "pricing"] /\ Doing[t] = "asking"
      BY <1>0, <2>4, <3>3, DoingMoves DEF FindOther, Doing, Does
    <3> QED BY <2>4, <3>1, <3>2, <3>4 DEF FindOther, Priced, Memo!Miss, Memo!MemoNext
  <2>5. CASE Admit(t) \/ InsertLoad(t) \/ Beaten(t)
    <3>1. UNCHANGED <<table, want, answer>> /\ Known' = Known
      BY <2>5, KnownStays DEF Admit, InsertLoad, Beaten, table
    <3>2. Doing[t] = "pricing"
      BY <2>5 DEF Admit, InsertLoad, Beaten, Doing, Does
    <3>3. PICK place \in {"idle", "insert", "claim"} : GoTo(t, place)
      BY <2>5 DEF Admit, InsertLoad, Beaten, Onward
    <3>4. CASE place = "idle"
      <4>1. Doing' = [Doing EXCEPT ![t] = "idle"]
        BY <1>0, <3>3, <3>4, DoingMoves
      <4> QED BY <3>1, <3>2, <4>1 DEF Memo!LeaveIt, Memo!MemoNext
    <3>5. CASE place # "idle"
      <4>1. Doing' = [Doing EXCEPT ![t] = "pricing"]
        BY <1>0, <3>3, <3>5, DoingMoves
      <4>2. Doing' = Doing
        BY <3>2, <4>1 DEF Doing
      <4> QED BY <3>1, <4>2
    <3> QED BY <3>4, <3>5
  <2>6. CASE Claim(t) \/ WriteHash(t) \/ WriteValue(t)
    <3>1. Known' = Known
      <4>1. CASE WriteValue(t) \/ (Claim(t) /\ state' = state)
        BY <4>1, KnownStays DEF WriteValue, Claim
      <4>2. CASE Claim(t) /\ state[Here(t)] = "Empty"
        <5>1. PICK s \in Slots : s = Here(t)
          BY <2>0
        <5>2. ~Ready(s) /\ ~Ready(s)'
          BY <1>0, <4>2, <5>1 DEF Claim, Ready, CacheTypeOK
        <5> QED BY <1>0, <4>2, <5>1, <5>2, KnownKept DEF Claim, CacheTypeOK
      <4>3. CASE WriteHash(t)
        <5>1. PICK s \in Slots : s = Here(t)
          BY <2>0
        <5>2. ~Ready(s) /\ ~Ready(s)'
          BY <1>0, <4>3, <5>1 DEF WriteHash, Ready, FillInv, Filling
        <5> QED BY <1>0, <4>3, <5>1, <5>2, KnownKept DEF WriteHash, CacheTypeOK
      <4> QED BY <2>6, <4>1, <4>2, <4>3 DEF Claim
    <3>2. Doing[t] = "pricing"
      BY <2>6 DEF Claim, WriteHash, WriteValue, Doing, Does
    <3>3. PICK place \in {"hash", "beaten", "value", "publish"} : GoTo(t, place)
      BY <2>6 DEF Claim, WriteHash, WriteValue
    <3>4. Doing' = [Doing EXCEPT ![t] = "pricing"]
      BY <1>0, <3>3, DoingMoves
    <3>5. Doing' = Doing
      BY <3>2, <3>4 DEF Doing
    <3> QED BY <2>6, <3>1, <3>5 DEF Claim, WriteHash, WriteValue
  <2>7. CASE Publish(t)
    <3>1. PICK s \in Slots : s = Here(t)
      BY <2>0
    <3>2. hash[s] = want[t] /\ ~Ready(s) /\ Ready(s)'
      BY <1>0, <2>7, <3>1 DEF Publish, FillInv, Filling, Ready, CacheTypeOK
    <3>3. Known' = Known \cup {want[t]}
      BY <1>0, <2>7, <3>1, <3>2, KnownGrows DEF Publish, CacheTypeOK
    <3>4. want[t] \notin Known
      <4>1. Behind(want[t], probe[t]) /\ ~Ready(SlotAt(want[t], probe[t]))
        BY <1>0, <2>7, <3>1, <3>2 DEF Publish, PathInv, Probing, Here
      <4> QED BY <1>0, <2>0, <4>1, NotKnown, ProbeAssumption
    <3>5. Doing' = [Doing EXCEPT ![t] = "idle"] /\ Doing[t] = "pricing"
      BY <1>0, <2>7, DoingMoves DEF Publish, Doing, Does
    <3> QED BY <2>7, <3>3, <3>4, <3>5 DEF Publish, Memo!Record, Memo!MemoNext
  <2>8. CASE Count(t)
    <3>1. Known' = Known
      BY <2>8, KnownStays DEF Count
    <3>2. Doing' = [Doing EXCEPT ![t] = "idle"] /\ Doing[t] = "idle"
      BY <1>0, <2>8, DoingMoves DEF Count, Doing, Does
    <3>3. Doing' = Doing
      BY <3>2 DEF Doing
    <3> QED BY <2>8, <3>1, <3>3 DEF Count
  <2> QED BY <1>3, <2>1, <2>2, <2>3, <2>4, <2>5, <2>6, <2>7, <2>8 DEF Step
<1> QED BY <1>1, <1>2, <1>3 DEF CacheNext, Memo!MemoNext

(* Whatever the interleaving, the threads see a table of prices in which a *)
(* price is recorded once, at one instant, and answered from then on.      *)
THEOREM Implements == CacheSpec => ImplementsMemo
<1>1. CacheInit => Memo!MemoInit
  BY DEF CacheInit, Memo!MemoInit, Known, Doing, Does, Ready
<1>2. CacheInv /\ CacheTypeOK' /\ [CacheNext]_cacheVars => [Memo!MemoNext]_(Memo!memoVars)
  BY RefinementStep DEF Memo!memoVars
<1>3. CacheInv => CacheTypeOK
  BY DEF CacheInv
<1> QED BY <1>1, <1>2, <1>3, CacheInvariance, PTL DEF CacheSpec, ImplementsMemo, Memo!MemoSpec

-----------------------------------------------------------------------------
(* The pairing heap                                                        *)
Links == [Keys -> Keys \cup {Nil}]

HeapType(h) ==
  /\ h = [root |-> h.root, saving |-> h.saving, child |-> h.child,
          next |-> h.next, prev |-> h.prev]
  /\ h.root \in Keys \cup {Nil}
  /\ h.saving \in [Keys -> Savings]
  /\ h.child \in Links /\ h.next \in Links /\ h.prev \in Links

(* Pointers down and to the right are answered by prev, and par knows      *)
(* which is which.                                                         *)
Downward(h, M, par) ==
  \A k \in M :
    /\ h.child[k] # Nil => /\ h.child[k] \in M
                           /\ h.prev[h.child[k]] = k
                           /\ par[h.child[k]] = k
                           /\ h.child[k] # h.next[k]
    /\ h.next[k] # Nil => /\ h.next[k] \in M
                          /\ h.prev[h.next[k]] = k
                          /\ par[h.next[k]] = par[k]

Upward(h, M, par) ==
  \A k \in M :
    /\ h.prev[k] = Nil => h.next[k] = Nil /\ par[k] = Nil
    /\ h.prev[k] # Nil => /\ h.prev[k] \in M /\ par[k] \in M
                          /\ h.child[h.prev[k]] = k \/ h.next[h.prev[k]] = k

(* Nobody is his own ancestor.                                             *)
Rooted(h, M) == \A S \in SUBSET M : S # {} => \E k \in S : h.prev[k] \notin S

Shape(h, M, par) ==
  /\ HeapType(h) /\ M \subseteq Keys /\ par \in Links
  /\ Downward(h, M, par) /\ Upward(h, M, par) /\ Rooted(h, M)

(* Heap order, except below x.                                             *)
Sorted(h, M, par, x) ==
  \A k \in M : par[k] # Nil /\ par[k] # x => h.saving[k] <= h.saving[par[k]]

Tops(h, M) == {k \in M : h.prev[k] = Nil}

Forest(h, M, par) == Shape(h, M, par) /\ Sorted(h, M, par, Nil)

(* One tree, under root.                                                   *)
Tree(h, M) == (\E par : Forest(h, M, par)) /\ Tops(h, M) = {h.root} \ {Nil}

HeapInv ==
  /\ Tree(heap, inHeap)
  /\ popped \in Keys \cup {Nil}

-----------------------------------------------------------------------------
(* Shapes.                                                                 *)

(* What is left of the children of x when none is the first.               *)
LEMMA ChildlessNode ==
  ASSUME NEW h, NEW M, NEW par, Shape(h, M, par), NEW x \in M, h.child[x] = Nil
  PROVE  \A k \in M : par[k] # x
<1> DEFINE S == {k \in M : par[k] = x}
<1>1. ASSUME NEW k \in S PROVE h.prev[k] \in S
  <2>1. x # Nil /\ h.prev[k] # Nil
    BY NilAssumption DEF Shape, Upward
  <2>2. CASE h.child[h.prev[k]] = k
    BY <2>1, <2>2, NilAssumption DEF Shape, Downward, Upward
  <2>3. CASE h.next[h.prev[k]] = k
    BY <2>1, <2>3, NilAssumption DEF Shape, Downward, Upward
  <2> QED BY <2>1, <2>2, <2>3 DEF Shape, Upward
<1>2. S \in SUBSET M
  OBVIOUS
<1>3. S = {}
  <2> HIDE DEF S
  <2> QED BY <1>1, <1>2 DEF Shape, Rooted
<1> QED BY <1>3

(* A lone node joins, and one without children leaves.                     *)
LEMMA LoneNodeJoins ==
  ASSUME NEW h, NEW M, NEW par, Forest(h, M, par), NEW x \in Keys \ M,
         h.child[x] = Nil, h.next[x] = Nil, h.prev[x] = Nil
  PROVE  /\ \E up : Forest(h, M \cup {x}, up)
         /\ Tops(h, M \cup {x}) = Tops(h, M) \cup {x}
<1>1. PICK up : up = [par EXCEPT ![x] = Nil]
  OBVIOUS
<1>2. /\ Shape(h, M, par) /\ Sorted(h, M, par, Nil)
      /\ up \in Links /\ up[x] = Nil /\ \A k \in M : up[k] = par[k]
  BY <1>1 DEF Forest, Shape, Links
<1>3. Downward(h, M \cup {x}, up)
  BY <1>2 DEF Shape, Downward
<1>4. Upward(h, M \cup {x}, up)
  BY <1>2 DEF Shape, Upward
<1>5. Rooted(h, M \cup {x})
  <2> SUFFICES ASSUME NEW S \in SUBSET (M \cup {x}), S # {}, \A k \in S : h.prev[k] \in S
               PROVE  FALSE
    BY DEF Rooted
  <2>1. x \notin S
    BY NilAssumption DEF Forest, Shape
  <2> QED BY <1>2, <2>1 DEF Shape, Rooted
<1>6. Sorted(h, M \cup {x}, up, Nil)
  BY <1>2 DEF Sorted
<1>7. Forest(h, M \cup {x}, up)
  BY <1>2, <1>3, <1>4, <1>5, <1>6 DEF Forest, Shape
<1> QED BY <1>7 DEF Tops

LEMMA LoneNodeLeaves ==
  ASSUME NEW h, NEW M, NEW par, Shape(h, M, par), NEW x \in Tops(h, M), h.child[x] = Nil,
         Sorted(h, M, par, x)
  PROVE  /\ Forest(h, M, par)
         /\ Forest(h, M \ {x}, par)
         /\ Tops(h, M \ {x}) = Tops(h, M) \ {x}
<1>1. x \in M /\ h.prev[x] = Nil /\ x # Nil
  BY NilAssumption DEF Tops, Shape
<1>2. \A k \in M : par[k] # x
  BY <1>1, ChildlessNode
<1>3. Sorted(h, M, par, Nil)
  BY <1>2 DEF Sorted
<1>4. \A k \in M : h.prev[k] # x
  <2> SUFFICES ASSUME NEW k \in M, h.prev[k] = x PROVE FALSE
    OBVIOUS
  <2>1. h.child[x] = k \/ h.next[x] = k
    BY <1>1 DEF Shape, Upward
  <2> QED BY <1>1, <2>1, NilAssumption DEF Shape, Upward
<1>9. \A k \in M : k # Nil /\ h.child[k] # x /\ h.next[k] # x
  BY <1>1, NilAssumption DEF Shape, Downward
<1>5. Downward(h, M \ {x}, par)
  BY <1>1, <1>9 DEF Shape, Downward
<1>6. Upward(h, M \ {x}, par)
  BY <1>1, <1>2, <1>4 DEF Shape, Upward
<1>7. Rooted(h, M \ {x})
  BY DEF Shape, Rooted
<1>8. Forest(h, M \ {x}, par)
  BY <1>3, <1>5, <1>6, <1>7 DEF Forest, Shape, Sorted
<1> QED BY <1>3, <1>8 DEF Forest, Tops

(* The heap is empty when it has no top.                                   *)
LEMMA NoTopNoNode ==
  ASSUME NEW h, NEW M, NEW par, Shape(h, M, par), Tops(h, M) = {}
  PROVE  M = {}
<1>1. \A k \in M : h.prev[k] \in M
  BY DEF Tops, Shape, Upward
<1> QED BY <1>1 DEF Shape, Rooted

-----------------------------------------------------------------------------
(* Linking.                                                                *)
Below(h, top, under) ==
  [h EXCEPT !.root = top,
            !.child[top] = under,
            !.next[under] = h.child[top],
            !.prev = [k \in Keys |-> IF k = under THEN top
                                     ELSE IF k = h.child[top] THEN under
                                     ELSE h.prev[k]]]

Relinked(h, g, top, under) ==
  /\ HeapType(g)
  /\ g.root = top /\ g.saving = h.saving
  /\ \A k \in Keys :
       /\ g.child[k] = IF k = top THEN under ELSE h.child[k]
       /\ g.next[k] = IF k = under THEN h.child[top] ELSE h.next[k]
       /\ g.prev[k] = IF k = under THEN top
                      ELSE IF k = h.child[top] THEN under ELSE h.prev[k]

LEMMA BelowPointers ==
  ASSUME NEW h, HeapType(h), NEW top \in Keys, NEW under \in Keys
  PROVE  Relinked(h, Below(h, top, under), top, under)
<1>0. PICK g : g = Below(h, top, under)
  OBVIOUS
<1> DEFINE c == [h.child EXCEPT ![top] = under]
           n == [h.next EXCEPT ![under] = h.child[top]]
           p == [k \in Keys |-> IF k = under THEN top
                                ELSE IF k = h.child[top] THEN under ELSE h.prev[k]]
<1>1. c \in Links /\ n \in Links /\ p \in Links
  BY DEF HeapType, Links
<1>2. g = [root |-> top, saving |-> h.saving, child |-> c, next |-> n, prev |-> p]
  <2>1. h = [root |-> h.root, saving |-> h.saving, child |-> h.child,
             next |-> h.next, prev |-> h.prev]
    BY DEF HeapType
  <2> QED BY <1>0, <2>1 DEF Below
<1>3. \A k \in Keys :
        /\ c[k] = IF k = top THEN under ELSE h.child[k]
        /\ n[k] = IF k = under THEN h.child[top] ELSE h.next[k]
        /\ p[k] = IF k = under THEN top
                  ELSE IF k = h.child[top] THEN under ELSE h.prev[k]
  BY DEF HeapType, Links
<1> HIDE DEF c, n, p
<1>4. Relinked(h, g, top, under)
  BY <1>1, <1>2, <1>3 DEF HeapType, Relinked
<1> QED BY <1>0, <1>4

LEMMA BelowJoins ==
  ASSUME NEW h, NEW M, NEW par, Forest(h, M, par),
         NEW top \in Tops(h, M), NEW under \in Tops(h, M), top # under,
         h.saving[under] <= h.saving[top]
  PROVE  LET g == Below(h, top, under)
         IN  /\ \E up : Forest(g, M, up)
             /\ Tops(g, M) = Tops(h, M) \ {under}
<1> DEFINE first == h.child[top]
<1>1. PICK g : g = Below(h, top, under)
  OBVIOUS
<1>2. PICK up : up = [par EXCEPT ![under] = top]
  OBVIOUS
<1>3. /\ HeapType(h) /\ M \subseteq Keys /\ par \in Links
      /\ Downward(h, M, par) /\ Upward(h, M, par) /\ Rooted(h, M)
      /\ Sorted(h, M, par, Nil)
      /\ top \in M /\ under \in M /\ top \in Keys /\ under \in Keys
      /\ top # Nil /\ under # Nil /\ h.prev[top] = Nil /\ h.prev[under] = Nil
  BY NilAssumption DEF Forest, Shape, Tops
<1>4. h.next[top] = Nil /\ h.next[under] = Nil /\ par[top] = Nil
  BY <1>3 DEF Upward
<1>5. first # Nil => /\ first \in M /\ h.prev[first] = top /\ par[first] = top
                     /\ first # top /\ first # under
  BY <1>3 DEF Downward
<1>14. Relinked(h, g, top, under)
  BY <1>1, <1>3, BelowPointers
<1>6. /\ HeapType(g) /\ g.saving = h.saving
      /\ \A k \in Keys :
           /\ g.child[k] = IF k = top THEN under ELSE h.child[k]
           /\ g.next[k] = IF k = under THEN first ELSE h.next[k]
           /\ g.prev[k] = IF k = under THEN top
                          ELSE IF k = first THEN under ELSE h.prev[k]
  BY <1>14 DEF Relinked
<1>7. up \in Links /\ \A k \in Keys : up[k] = IF k = under THEN top ELSE par[k]
  BY <1>2, <1>3 DEF Links
<1> HIDE DEF first
<1>8. Downward(g, M, up)
  <2> SUFFICES ASSUME NEW k \in M
               PROVE  /\ g.child[k] # Nil => /\ g.child[k] \in M
                                             /\ g.prev[g.child[k]] = k
                                             /\ up[g.child[k]] = k
                                             /\ g.child[k] # g.next[k]
                      /\ g.next[k] # Nil => /\ g.next[k] \in M
                                            /\ g.prev[g.next[k]] = k
                                            /\ up[g.next[k]] = up[k]
    BY DEF Downward
  <2>1. k \in Keys /\ k # Nil
    BY <1>3, NilAssumption
  <2>2. /\ h.child[k] # Nil => /\ h.child[k] \in M
                               /\ h.prev[h.child[k]] = k
                               /\ par[h.child[k]] = k
                               /\ h.child[k] # h.next[k]
        /\ h.next[k] # Nil => /\ h.next[k] \in M
                              /\ h.prev[h.next[k]] = k
                              /\ par[h.next[k]] = par[k]
    BY <1>3 DEF Downward
  <2>3. CASE k = top
    BY <1>3, <1>4, <1>5, <1>6, <1>7, <2>1, <2>2, <2>3
  <2>4. CASE k = under
    BY <1>3, <1>4, <1>5, <1>6, <1>7, <2>1, <2>2, <2>4
  <2>5. CASE k # top /\ k # under
    BY <1>3, <1>4, <1>5, <1>6, <1>7, <2>1, <2>2, <2>5
  <2> QED BY <2>3, <2>4, <2>5
<1>9. Upward(g, M, up)
  <2> SUFFICES ASSUME NEW k \in M
               PROVE  /\ g.prev[k] = Nil => g.next[k] = Nil /\ up[k] = Nil
                      /\ g.prev[k] # Nil => /\ g.prev[k] \in M /\ up[k] \in M
                                            /\ g.child[g.prev[k]] = k \/ g.next[g.prev[k]] = k
    BY DEF Upward
  <2>1. k \in Keys /\ k # Nil
    BY <1>3, NilAssumption
  <2>2. /\ h.prev[k] = Nil => h.next[k] = Nil /\ par[k] = Nil
        /\ h.prev[k] # Nil => /\ h.prev[k] \in M /\ par[k] \in M
                              /\ h.child[h.prev[k]] = k \/ h.next[h.prev[k]] = k
    BY <1>3 DEF Upward
  <2>3. CASE k = under
    BY <1>3, <1>6, <1>7, <2>1, <2>3
  <2>4. CASE k = first
    BY <1>3, <1>5, <1>6, <1>7, <2>1, <2>4
  <2>5. CASE k # first /\ k # under
    <3>1. g.prev[k] = h.prev[k] /\ up[k] = par[k] /\ g.next[k] = h.next[k]
      BY <1>6, <1>7, <2>1, <2>5
    <3>2. CASE h.prev[k] = Nil
      BY <2>2, <3>1, <3>2
    <3>3. CASE h.prev[k] # Nil
      <4>1. h.prev[k] \in M /\ h.prev[k] \in Keys
        BY <1>3, <2>2, <3>3
      <4>2. CASE h.child[h.prev[k]] = k
        BY <1>6, <2>2, <2>5, <3>1, <3>3, <4>1, <4>2 DEF first
      <4>3. CASE h.next[h.prev[k]] = k
        BY <1>4, <1>6, <2>1, <2>2, <3>1, <3>3, <4>1, <4>3
      <4> QED BY <2>2, <3>3, <4>2, <4>3
    <3> QED BY <3>2, <3>3
  <2> QED BY <2>3, <2>4, <2>5
<1>10. Rooted(g, M)
  <2> SUFFICES ASSUME NEW S \in SUBSET M, S # {}, \A k \in S : g.prev[k] \in S
               PROVE  FALSE
    BY DEF Rooted
  <2>1. S \subseteq Keys /\ Nil \notin S
    BY <1>3, NilAssumption
  <2>2. top \notin S
    BY <1>3, <1>5, <1>6, <2>1
  <2>3. under \notin S
    BY <1>3, <1>6, <2>2
  <2>4. first \notin S
    BY <1>6, <2>1, <2>3
  <2>5. \A k \in S : h.prev[k] \in S
    BY <1>6, <2>1, <2>3, <2>4
  <2> QED BY <1>3, <2>5 DEF Rooted
<1>11. Sorted(g, M, up, Nil)
  BY <1>3, <1>6, <1>7 DEF Sorted
<1>12. Forest(g, M, up)
  BY <1>3, <1>6, <1>7, <1>8, <1>9, <1>10, <1>11 DEF Forest, Shape
<1>13. Tops(g, M) = Tops(h, M) \ {under}
  BY <1>3, <1>5, <1>6, NilAssumption DEF Tops
<1> QED BY <1>1, <1>12, <1>13

(* What Link makes of two tops: one of them, a best one, is the root.      *)
LEMMA LinkJoins ==
  ASSUME NEW h, NEW M, NEW par, Forest(h, M, par),
         NEW a \in Tops(h, M), NEW b \in Tops(h, M), a # b
  PROVE  LET g == Link(h, a, b)
         IN  /\ \E up : Forest(g, M, up)
             /\ g.root \in {a, b}
             /\ Tops(g, M) = (Tops(h, M) \ {a, b}) \cup {g.root}
             /\ g.saving = h.saving
             /\ \A k \in Keys \ {a, b} : g.child[k] = h.child[k] /\ g.next[k] = h.next[k]
             /\ \A k \in Keys \ M : g.prev[k] = h.prev[k]
<1>1. /\ HeapType(h) /\ M \subseteq Keys /\ a \in M /\ b \in M /\ a \in Keys /\ b \in Keys
      /\ a # Nil /\ b # Nil /\ Downward(h, M, par)
  BY NilAssumption DEF Forest, Shape, Tops
<1>2. \A k \in Keys : h.saving[k] \in Int
  BY <1>1, SavingsAssumption DEF HeapType
<1> DEFINE Joined(g) == /\ \E up : Forest(g, M, up)
                        /\ g.root \in {a, b}
                        /\ Tops(g, M) = (Tops(h, M) \ {a, b}) \cup {g.root}
                        /\ g.saving = h.saving
                        /\ \A k \in Keys \ {a, b} : g.child[k] = h.child[k] /\ g.next[k] = h.next[k]
                        /\ \A k \in Keys \ M : g.prev[k] = h.prev[k]
<1>3. ASSUME NEW top \in {a, b}, NEW under \in {a, b} \ {top}, h.saving[under] <= h.saving[top]
      PROVE  Joined(Below(h, top, under))
  <2>1. PICK g : g = Below(h, top, under)
    OBVIOUS
  <2>2. (\E up : Forest(g, M, up)) /\ Tops(g, M) = Tops(h, M) \ {under}
    BY <1>3, <2>1, BelowJoins
  <2>8. Relinked(h, g, top, under)
    <3>1. top \in Keys /\ under \in Keys /\ HeapType(h)
      BY <1>1
    <3> QED BY <2>1, <3>1, BelowPointers
  <2>3. /\ g.root = top /\ g.saving = h.saving
        /\ \A k \in Keys :
             /\ g.child[k] = IF k = top THEN under ELSE h.child[k]
             /\ g.next[k] = IF k = under THEN h.child[top] ELSE h.next[k]
             /\ g.prev[k] = IF k = under THEN top
                            ELSE IF k = h.child[top] THEN under ELSE h.prev[k]
    BY <2>8 DEF Relinked
  <2>4. h.child[top] \in M \cup {Nil}
    BY <1>1 DEF Downward
  <2>5. Tops(g, M) = (Tops(h, M) \ {a, b}) \cup {g.root}
    BY <2>2, <2>3
  <2>6. \A k \in Keys \ M : g.prev[k] = h.prev[k]
    BY <1>1, <2>3, <2>4, NilAssumption
  <2>7. \A k \in Keys \ {a, b} : g.child[k] = h.child[k] /\ g.next[k] = h.next[k]
    BY <2>3
  <2> QED BY <2>1, <2>2, <2>3, <2>5, <2>6, <2>7
<1>4. CASE h.saving[b] > h.saving[a]
  <2>1. Link(h, a, b) = Below(h, b, a)
    BY <1>1, <1>4 DEF Link, Below, HeapType
  <2>2. h.saving[a] <= h.saving[b]
    BY <1>1, <1>2, <1>4
  <2>3. Joined(Below(h, b, a))
    <3> HIDE DEF Joined
    <3> QED BY <1>3, <2>2
  <2> QED BY <2>1, <2>3
<1>5. CASE ~(h.saving[b] > h.saving[a])
  <2>1. Link(h, a, b) = Below(h, a, b)
    BY <1>1, <1>5 DEF Link, Below, HeapType
  <2>2. h.saving[b] <= h.saving[a]
    BY <1>1, <1>2, <1>5
  <2>3. Joined(Below(h, a, b))
    <3> HIDE DEF Joined
    <3> QED BY <1>3, <2>2
  <2> QED BY <2>1, <2>3
<1> QED BY <1>4, <1>5
-----------------------------------------------------------------------------
(* Cutting.                                                                *)
Trimmed(h, g, a) ==
  LET p == h.prev[a]
      n == h.next[a]
  IN  /\ HeapType(g)
      /\ g.root = h.root /\ g.saving = h.saving
      /\ \A k \in Keys :
           /\ g.child[k] = IF k = p /\ h.child[k] = a THEN n ELSE h.child[k]
           /\ g.next[k] = IF k = a THEN Nil
                          ELSE IF k = p /\ h.child[k] # a THEN n ELSE h.next[k]
           /\ g.prev[k] = IF k = a THEN Nil ELSE IF k = n THEN p ELSE h.prev[k]

LEMMA CutPointers ==
  ASSUME NEW h, HeapType(h), NEW a \in Keys
  PROVE  Trimmed(h, Cut(h, a), a)
<1> DEFINE q == h.prev[a]
           m == h.next[a]
           c == [k \in Keys |-> IF k = q /\ h.child[k] = a THEN m ELSE h.child[k]]
           n == [k \in Keys |-> IF k = a THEN Nil
                                ELSE IF k = q /\ h.child[k] # a THEN m ELSE h.next[k]]
           p == [k \in Keys |-> IF k = a THEN Nil ELSE IF k = m THEN q ELSE h.prev[k]]
<1>1. c \in Links /\ n \in Links /\ p \in Links
  BY DEF HeapType, Links
<1>2. Cut(h, a) = [root |-> h.root, saving |-> h.saving, child |-> c, next |-> n, prev |-> p]
  <2>1. h = [root |-> h.root, saving |-> h.saving, child |-> h.child,
             next |-> h.next, prev |-> h.prev]
    BY DEF HeapType
  <2>2. Cut(h, a) = [h EXCEPT !.child = c, !.next = n, !.prev = p]
    BY DEF Cut
  <2> HIDE DEF c, n, p
  <2> QED BY <2>1, <2>2
<1>3. \A k \in Keys :
        /\ c[k] = IF k = q /\ h.child[k] = a THEN m ELSE h.child[k]
        /\ n[k] = IF k = a THEN Nil ELSE IF k = q /\ h.child[k] # a THEN m ELSE h.next[k]
        /\ p[k] = IF k = a THEN Nil ELSE IF k = m THEN q ELSE h.prev[k]
  OBVIOUS
<1> HIDE DEF c, n, p
<1>4. PICK g : g = Cut(h, a)
  OBVIOUS
<1>5. Trimmed(h, g, a)
  BY <1>1, <1>2, <1>3, <1>4 DEF HeapType, Trimmed
<1> QED BY <1>4, <1>5

(* The subtree of a comes off and is a tree of its own.                    *)
LEMMA CutFrees ==
  ASSUME NEW h, NEW M, NEW par, Shape(h, M, par),
         NEW a \in M, a \notin Tops(h, M), NEW g, Trimmed(h, g, a)
  PROVE  /\ Shape(g, M, [par EXCEPT ![a] = Nil])
         /\ Tops(g, M) = Tops(h, M) \cup {a}
<1>1. PICK up : up = [par EXCEPT ![a] = Nil]
  OBVIOUS
<1>2. PICK p, n : p = h.prev[a] /\ n = h.next[a]
  OBVIOUS
<1>3. /\ HeapType(h) /\ M \subseteq Keys /\ par \in Links
      /\ Downward(h, M, par) /\ Upward(h, M, par) /\ Rooted(h, M)
      /\ a \in Keys /\ a # Nil /\ Nil \notin Keys
  BY NilAssumption DEF Shape
<1>4. /\ p \in M /\ p \in Keys /\ p # Nil /\ p # a /\ par[a] \in M
      /\ h.child[p] = a \/ h.next[p] = a
      /\ h.child[p] = a => h.next[p] # a /\ par[a] = p
      /\ h.next[p] = a => par[a] = par[p]
  <2>1. p # Nil
    BY <1>2 DEF Tops
  <2>2. p # a
    <3>1. {a} \in SUBSET M /\ {a} # {}
      OBVIOUS
    <3>2. h.prev[a] \notin {a}
      BY <1>3, <3>1 DEF Rooted
    <3> QED BY <1>2, <3>2
  <2> QED BY <1>2, <1>3, <2>1, <2>2 DEF Upward, Downward
<1>5. n # Nil => /\ n \in M /\ n \in Keys /\ h.prev[n] = a /\ n # a
                 /\ par[n] = par[a] /\ h.child[a] # n
  BY <1>2, <1>3, <1>4 DEF Downward
<1>6. /\ HeapType(g)
      /\ \A k \in Keys :
           /\ g.child[k] = IF k = p /\ h.child[k] = a THEN n ELSE h.child[k]
           /\ g.next[k] = IF k = a THEN Nil
                          ELSE IF k = p /\ h.child[k] # a THEN n ELSE h.next[k]
           /\ g.prev[k] = IF k = a THEN Nil ELSE IF k = n THEN p ELSE h.prev[k]
  BY <1>2 DEF Trimmed
<1>7. up \in Links /\ \A k \in Keys : up[k] = IF k = a THEN Nil ELSE par[k]
  BY <1>1, <1>3 DEF Links
<1>8. Downward(g, M, up)
  <2> SUFFICES ASSUME NEW k \in M
               PROVE  /\ g.child[k] # Nil => /\ g.child[k] \in M
                                             /\ g.prev[g.child[k]] = k
                                             /\ up[g.child[k]] = k
                                             /\ g.child[k] # g.next[k]
                      /\ g.next[k] # Nil => /\ g.next[k] \in M
                                            /\ g.prev[g.next[k]] = k
                                            /\ up[g.next[k]] = up[k]
    BY DEF Downward
  <2>1. k \in Keys /\ k # Nil
    BY <1>3
  <2>2. /\ h.child[k] # Nil => /\ h.child[k] \in M
                               /\ h.prev[h.child[k]] = k
                               /\ par[h.child[k]] = k
                               /\ h.child[k] # h.next[k]
        /\ h.next[k] # Nil => /\ h.next[k] \in M
                              /\ h.prev[h.next[k]] = k
                              /\ par[h.next[k]] = par[k]
    BY <1>3 DEF Downward
  <2>3. CASE k = a
    BY <1>2, <1>3, <1>4, <1>5, <1>6, <1>7, <2>1, <2>2, <2>3
  <2>4. CASE k = p /\ h.child[k] = a
    BY <1>2, <1>3, <1>4, <1>5, <1>6, <1>7, <2>1, <2>2, <2>4
  <2>5. CASE k = p /\ h.child[k] # a
    BY <1>2, <1>3, <1>4, <1>5, <1>6, <1>7, <2>1, <2>2, <2>5
  <2>6. CASE k # p /\ k # a
    BY <1>2, <1>3, <1>4, <1>5, <1>6, <1>7, <2>1, <2>2, <2>6
  <2> QED BY <2>3, <2>4, <2>5, <2>6
<1>9. Upward(g, M, up)
  <2> SUFFICES ASSUME NEW k \in M
               PROVE  /\ g.prev[k] = Nil => g.next[k] = Nil /\ up[k] = Nil
                      /\ g.prev[k] # Nil => /\ g.prev[k] \in M /\ up[k] \in M
                                            /\ g.child[g.prev[k]] = k \/ g.next[g.prev[k]] = k
    BY DEF Upward
  <2>1. k \in Keys /\ k # Nil
    BY <1>3
  <2>2. /\ h.prev[k] = Nil => h.next[k] = Nil /\ par[k] = Nil
        /\ h.prev[k] # Nil => /\ h.prev[k] \in M /\ par[k] \in M
                              /\ h.child[h.prev[k]] = k \/ h.next[h.prev[k]] = k
    BY <1>3 DEF Upward
  <2>3. CASE k = a
    BY <1>6, <1>7, <2>1, <2>3
  <2>4. CASE k = n
    BY <1>4, <1>5, <1>6, <1>7, <2>1, <2>4
  <2>5. CASE k # n /\ k # a
    <3>1. g.prev[k] = h.prev[k] /\ up[k] = par[k]
      BY <1>6, <1>7, <2>1, <2>5
    <3>2. CASE h.prev[k] = Nil
      BY <1>3, <1>4, <1>6, <2>1, <2>2, <2>5, <3>1, <3>2
    <3>3. CASE h.prev[k] # Nil
      <4>1. h.prev[k] \in M /\ h.prev[k] \in Keys
        BY <1>3, <2>2, <3>3
      <4>2. CASE h.child[h.prev[k]] = k
        BY <1>6, <2>2, <2>5, <3>1, <3>3, <4>1, <4>2
      <4>3. CASE h.next[h.prev[k]] = k
        BY <1>2, <1>4, <1>6, <2>2, <2>5, <3>1, <3>3, <4>1, <4>3
      <4> QED BY <2>2, <3>3, <4>2, <4>3
    <3> QED BY <3>2, <3>3
  <2> QED BY <2>3, <2>4, <2>5
<1>10. Rooted(g, M)
  <2> SUFFICES ASSUME NEW S \in SUBSET M, S # {}, \A k \in S : g.prev[k] \in S
               PROVE  FALSE
    BY DEF Rooted
  <2>1. S \subseteq Keys /\ Nil \notin S
    BY <1>3
  <2>2. a \notin S
    BY <1>3, <1>6, <2>1
  <2>3. CASE n \in S
    <3>1. p \in S
      BY <1>5, <1>6, <2>1, <2>2, <2>3
    <3>2. \A k \in S \cup {a} : h.prev[k] \in S \cup {a}
      BY <1>2, <1>5, <1>6, <2>1, <2>2, <3>1
    <3> QED BY <1>3, <3>2 DEF Rooted
  <2>4. CASE n \notin S
    <3>1. \A k \in S : h.prev[k] \in S
      BY <1>6, <2>1, <2>2, <2>4
    <3> QED BY <1>3, <3>1 DEF Rooted
  <2> QED BY <2>3, <2>4
<1>11. Shape(g, M, up)
  BY <1>3, <1>6, <1>7, <1>8, <1>9, <1>10 DEF Shape
<1>12. Tops(g, M) = Tops(h, M) \cup {a}
  BY <1>3, <1>4, <1>5, <1>6 DEF Tops
<1> QED BY <1>1, <1>11, <1>12

-----------------------------------------------------------------------------
(* The children of a node, in a row.                                       *)
Row(h, first, q) ==
  /\ q \in Seq(Keys) /\ Len(q) >= 1 /\ q[1] = first
  /\ \A i \in 1..(Len(q) - 1) : h.next[q[i]] = q[i + 1]

Children(M, par, x) == {k \in M : par[k] = x}

LEMMA RowOfChildren ==
  ASSUME NEW h, NEW M, NEW par, Shape(h, M, par), NEW x \in Tops(h, M), h.child[x] # Nil,
         NEW q, Row(h, h.child[x], q)
  PROVE  /\ \A i \in 1..Len(q) : q[i] \in Children(M, par, x)
         /\ \A i, j \in 1..Len(q) : i # j => q[i] # q[j]
<1>1. /\ q \in Seq(Keys) /\ Len(q) \in Nat /\ Len(q) >= 1 /\ q[1] = h.child[x]
      /\ \A i \in 1..(Len(q) - 1) : h.next[q[i]] = q[i + 1]
  BY DEF Row
<1>2. M \subseteq Keys /\ Nil \notin Keys /\ Downward(h, M, par) /\ Rooted(h, M)
  BY NilAssumption DEF Shape
<1>10. x \in M /\ par[x] = Nil
  BY DEF Tops, Shape, Upward
<1>3. q[1] \in M /\ h.prev[q[1]] = x /\ par[q[1]] = x
  BY <1>1, <1>2, <1>10 DEF Downward
<1> DEFINE T == {i \in Nat : i + 1 <= Len(q) =>
                   /\ q[i + 1] \in M /\ par[q[i + 1]] = x
                   /\ i >= 1 => h.prev[q[i + 1]] = q[i]}
<1>4. 0 \in T
  BY <1>1, <1>3
<1>5. ASSUME NEW n \in 0..(Len(q) - 1), n \in T PROVE n + 1 \in T
  <2> SUFFICES ASSUME n + 2 <= Len(q)
               PROVE  /\ q[n + 2] \in M /\ par[q[n + 2]] = x
                      /\ h.prev[q[n + 2]] = q[n + 1]
    BY <1>1
  <2>1. q[n + 1] \in M /\ par[q[n + 1]] = x
    BY <1>1, <1>5
  <2>2. n + 1 \in 1..(Len(q) - 1) /\ (n + 1) + 1 = n + 2 /\ n + 2 \in 1..Len(q)
    BY <1>1
  <2>3. h.next[q[n + 1]] = q[n + 2]
    BY <1>1, <2>2
  <2>4. q[n + 2] \in Keys
    BY <1>1, <2>2
  <2> QED BY <1>2, <2>1, <2>3, <2>4 DEF Downward
<1>6. 0..Len(q) \subseteq T
  <2> HIDE DEF T
  <2> QED BY <1>1, <1>4, <1>5, InductionUpTo
<1>7. ASSUME NEW i \in 1..Len(q)
      PROVE  /\ q[i] \in M /\ par[q[i]] = x
             /\ i >= 2 => h.prev[q[i]] = q[i - 1]
  <2>1. i - 1 \in T
    <3>1. i - 1 \in 0..Len(q)
      BY <1>1
    <3> HIDE DEF T
    <3> QED BY <1>6, <3>1
  <2>2. (i - 1) + 1 = i /\ i - 1 \in Nat /\ i <= Len(q)
    BY <1>1
  <2> QED BY <2>1, <2>2
<1> DEFINE S == {i \in 1..Len(q) : \E j \in 1..Len(q) : i < j /\ q[i] = q[j]}
<1>8. ASSUME S # {} PROVE FALSE
  <2>1. PICK i \in S : \A j \in S : i <= j
    <3>1. S \in SUBSET Nat
      BY <1>1
    <3> HIDE DEF S
    <3> QED BY <1>8, <3>1, LeastNatural
  <2>2. i \in 1..Len(q) /\ i \in Nat
    BY <1>1
  <2>3. PICK j \in 1..Len(q) : i < j /\ q[i] = q[j]
    OBVIOUS
  <2>4. j \in Nat /\ j >= 2 /\ j - 1 \in 1..Len(q) /\ h.prev[q[j]] = q[j - 1]
    BY <1>1, <1>7, <2>2, <2>3
  <2>5. CASE i = 1
    <3>1. h.prev[q[j]] = x /\ q[j - 1] = x
      BY <1>3, <2>3, <2>4, <2>5
    <3>2. par[x] = x
      BY <1>7, <2>4, <3>1
    <3> QED BY <1>2, <1>10, <3>2
  <2>6. CASE i # 1
    <3>1. i >= 2 /\ i - 1 \in 1..Len(q) /\ h.prev[q[i]] = q[i - 1] /\ i - 1 < j - 1
      BY <1>1, <1>7, <2>2, <2>3, <2>4, <2>6
    <3>2. i - 1 \in S
      BY <2>3, <2>4, <3>1
    <3> QED BY <2>1, <2>2, <3>2
  <2> QED BY <2>5, <2>6
<1>9. ASSUME NEW i \in 1..Len(q), NEW j \in 1..Len(q), i # j PROVE q[i] # q[j]
  <2>1. i < j \/ j < i
    BY <1>1, <1>9
  <2> QED BY <1>8, <2>1
<1> QED BY <1>7, <1>9 DEF Children
(* The row of peers by one child more.                                     *)
Longer(h, q) == IF h.next[q[Len(q)]] = Nil THEN q ELSE Append(q, h.next[q[Len(q)]])

LEMMA LongerRow ==
  ASSUME NEW h, HeapType(h), NEW first, NEW q, Row(h, first, q)
  PROVE  /\ Row(h, first, Longer(h, q))
         /\ \/ Len(Longer(h, q)) = Len(q) + 1
            \/ h.next[q[Len(q)]] = Nil /\ Longer(h, q) = q
<1>1. /\ q \in Seq(Keys) /\ Len(q) \in Nat /\ Len(q) >= 1 /\ q[1] = first
      /\ \A i \in 1..(Len(q) - 1) : h.next[q[i]] = q[i + 1]
  BY DEF Row
<1>2. q[Len(q)] \in Keys
  BY <1>1
<1>3. CASE h.next[q[Len(q)]] = Nil
  BY <1>3 DEF Longer
<1>4. CASE h.next[q[Len(q)]] # Nil
  <2>1. PICK k : k = h.next[q[Len(q)]]
    OBVIOUS
  <2>2. k \in Keys /\ Longer(h, q) = Append(q, k)
    BY <1>2, <1>4, <2>1 DEF HeapType, Links, Longer
  <2>3. PICK r : r = Append(q, k)
    OBVIOUS
  <2>4. /\ r \in Seq(Keys) /\ Len(r) = Len(q) + 1 /\ r[Len(q) + 1] = k
        /\ \A i \in 1..Len(q) : r[i] = q[i]
    BY <1>1, <2>2, <2>3
  <2>5. ASSUME NEW i \in 1..(Len(r) - 1) PROVE h.next[r[i]] = r[i + 1]
    <3>1. i \in 1..Len(q)
      BY <1>1, <2>4
    <3>2. CASE i = Len(q)
      BY <2>1, <2>4, <3>1, <3>2
    <3>3. CASE i # Len(q)
      <4>1. i \in 1..(Len(q) - 1) /\ i + 1 \in 1..Len(q)
        BY <1>1, <3>1, <3>3
      <4> QED BY <1>1, <2>4, <3>1, <4>1
    <3> QED BY <3>2, <3>3
  <2>6. r[1] = first /\ Len(r) >= 1
    BY <1>1, <2>4
  <2> QED BY <2>2, <2>3, <2>4, <2>5, <2>6 DEF Row
<1> QED BY <1>3, <1>4

LEMMA KeysCount == Cardinality(Keys) \in Nat
  BY KeysAssumption, FS_CardinalityType

(* A row of children is shorter than Keys is large.                        *)
LEMMA RowIsShort ==
  ASSUME NEW h, NEW M, NEW par, Shape(h, M, par), NEW x \in Tops(h, M), h.child[x] # Nil,
         NEW q, Row(h, h.child[x], q)
  PROVE  Len(q) < Cardinality(Keys)
<1>1. q \in Seq(Keys) /\ Len(q) \in Nat
  BY DEF Row
<1>2. /\ \A i \in 1..Len(q) : q[i] \in Children(M, par, x)
      /\ \A i, j \in 1..Len(q) : i # j => q[i] # q[j]
  BY RowOfChildren
<1>3. x \in Keys /\ x \notin Children(M, par, x) /\ Children(M, par, x) \subseteq Keys
  BY NilAssumption DEF Tops, Shape, Upward, Children
<1>4. IsFiniteSet(Keys \ {x}) /\ Cardinality(Keys \ {x}) = Cardinality(Keys) - 1
  BY <1>3, KeysAssumption, FS_RemoveElement
<1>5. IsFiniteSet(1..Len(q)) /\ Cardinality(1..Len(q)) = Len(q)
  <2>1. /\ IsFiniteSet(1..Len(q))
        /\ Cardinality(1..Len(q)) = IF 1 > Len(q) THEN 0 ELSE Len(q) - 1 + 1
    BY <1>1, FS_Interval
  <2> QED BY <1>1, <2>1
<1>6. PICK f : f = [i \in 1..Len(q) |-> q[i]]
  OBVIOUS
<1>7. f \in [1..Len(q) -> Keys \ {x}]
  BY <1>2, <1>3, <1>6
<1>8. ASSUME Cardinality(Keys \ {x}) < Cardinality(1..Len(q)) PROVE FALSE
  <2>1. \E i, j \in 1..Len(q) : i # j /\ f[i] = f[j]
    BY <1>4, <1>5, <1>7, <1>8, FS_PigeonHole
  <2> QED BY <1>2, <1>6, <2>1
<1> QED BY <1>1, <1>4, <1>5, <1>8, KeysCount

LEMMA PeersAreRow ==
  ASSUME NEW h, NEW M, NEW par, Shape(h, M, par), NEW x \in Tops(h, M), h.child[x] # Nil,
         NEW b, HeapType(b), b.next = h.next
  PROVE  LET q == Peers(b, h.child[x])
         IN  Row(h, h.child[x], q) /\ h.next[q[Len(q)]] = Nil
<1> DEFINE first == h.child[x]
           C == Cardinality(Keys)
           Body(g) == [n \in 0..C |->
                         IF n = 0 THEN <<first>>
                         ELSE LET q == g[n - 1]
                                  k == b.next[q[Len(q)]]
                              IN  IF k = Nil THEN q ELSE Append(q, k)]
           D == {q \in Seq(Keys) : Len(q) >= 1}
           F == [p \in Nat \X D |-> Longer(b, p[2])]
<1>1. C \in Nat
  BY KeysCount
<1>2. first \in Keys /\ HeapType(h)
  BY DEF Tops, Shape, Downward
<1>3. <<first>> \in D
  BY <1>2
<1>4. F \in [Nat \X D -> D]
  <2>1. ASSUME NEW q \in D PROVE Longer(b, q) \in D
    <3>1. q[Len(q)] \in Keys
      OBVIOUS
    <3>2. b.next[q[Len(q)]] \in Keys \cup {Nil}
      BY <3>1 DEF HeapType, Links
    <3> QED BY <3>2 DEF Longer
  <2> HIDE DEF D
  <2> QED BY <2>1
<1>5. PICK f : Iterates(f, C, D, <<first>>, F)
  <2> HIDE DEF F, D, C, first
  <2> QED BY <1>1, <1>3, <1>4, IterationExists
<1>6. /\ f \in [0..C -> D] /\ f[0] = <<first>>
      /\ \A n \in 1..C : f[n] = Longer(b, f[n - 1])
  <2>1. f \in [0..C -> D] /\ f[0] = <<first>> /\ \A n \in 1..C : f[n] = F[<<n, f[n - 1]>>]
    <3> HIDE DEF F, D, C, first
    <3> QED BY <1>5 DEF Iterates
  <2>2. ASSUME NEW n \in 1..C PROVE f[n] = Longer(b, f[n - 1])
    <3>1. n - 1 \in 0..C /\ n \in Nat
      BY <1>1
    <3>2. <<n, f[n - 1]>> \in Nat \X D
      <4> HIDE DEF D
      <4> QED BY <2>1, <3>1
    <3>3. F[<<n, f[n - 1]>>] = Longer(b, f[n - 1])
      <4> HIDE DEF D
      <4> QED BY <3>2
    <3> HIDE DEF F
    <3> QED BY <2>1, <3>3
  <2> QED BY <2>1, <2>2
<1>7. f = Body(f)
  <2> HIDE DEF first, C, D, F
  <2>1. \A n \in 1..C : n - 1 \in 0..C
    BY <1>1
  <2>2. ASSUME NEW n \in 0..C
        PROVE  f[n] = IF n = 0 THEN <<first>>
                      ELSE LET q == f[n - 1]
                               k == b.next[q[Len(q)]]
                           IN  IF k = Nil THEN q ELSE Append(q, k)
    <3>1. CASE n = 0
      BY <1>6, <3>1
    <3>2. CASE n # 0
      <4>1. n \in 1..C
        BY <1>1, <3>2
      <4> QED BY <1>6, <3>2, <4>1 DEF Longer
    <3> QED BY <3>1, <3>2
  <2> QED BY <1>6, <2>2
<1>8. \E g : g = Body(g)
  BY <1>7
<1> DEFINE r == CHOOSE g : g = Body(g)
<1>9. r = Body(r)
  BY <1>8, Zenon
<1>10. Peers(b, first) = r[C - 1]
  BY DEF Peers
<1> HIDE DEF r
<1>11. r[0] = <<first>> /\ \A n \in 1..C : r[n] = Longer(b, r[n - 1])
  <2>1. ASSUME NEW n \in 0..C
        PROVE  r[n] = IF n = 0 THEN <<first>> ELSE Longer(b, r[n - 1])
    <3>1. Body(r)[n] = IF n = 0 THEN <<first>> ELSE Longer(b, r[n - 1])
      BY DEF Longer
    <3>2. r[n] = Body(r)[n]
      <4> HIDE DEF Body
      <4> QED BY <1>9
    <3> HIDE DEF Body
    <3> QED BY <3>1, <3>2
  <2> HIDE DEF Body, C, first
  <2>2. 0 \in 0..C /\ \A n \in 1..C : n \in 0..C /\ n # 0
    BY <1>1
  <2> QED BY <2>1, <2>2
<1> DEFINE T == {n \in Nat : /\ Row(b, first, r[n])
                             /\ Len(r[n]) = n + 1 \/ b.next[r[n][Len(r[n])]] = Nil}
<1>12. 0 \in T
  <2>1. Row(b, first, <<first>>) /\ Len(<<first>>) = 0 + 1
    BY <1>2 DEF Row
  <2> HIDE DEF first
  <2> QED BY <1>11, <2>1
<1>13. ASSUME NEW n \in 0..(C - 1), n \in T PROVE n + 1 \in T
  <2> HIDE DEF first, C
  <2>1. n + 1 \in 1..C /\ (n + 1) - 1 = n /\ n \in Nat
    BY <1>1
  <2>2. PICK q : q = r[n]
    OBVIOUS
  <2>3. r[n + 1] = Longer(b, q)
    BY <1>11, <2>1, <2>2
  <2>4. Row(b, first, q) /\ (Len(q) = n + 1 \/ b.next[q[Len(q)]] = Nil)
    BY <1>13, <2>2
  <2>5. /\ Row(b, first, Longer(b, q))
        /\ \/ Len(Longer(b, q)) = Len(q) + 1
           \/ b.next[q[Len(q)]] = Nil /\ Longer(b, q) = q
    BY <2>4, LongerRow
  <2>6. CASE b.next[q[Len(q)]] = Nil
    <3>1. Longer(b, q) = q
      BY <2>6 DEF Longer
    <3> QED BY <2>1, <2>3, <2>4, <2>6, <3>1
  <2>7. CASE b.next[q[Len(q)]] # Nil
    <3>1. Len(Longer(b, q)) = (n + 1) + 1
      BY <2>4, <2>5, <2>7
    <3> QED BY <2>1, <2>3, <2>5, <3>1
  <2> QED BY <2>6, <2>7
<1>14. 0..C \subseteq T
  <2> HIDE DEF T, C
  <2> QED BY <1>1, <1>12, <1>13, InductionUpTo
<1>15. \A q : Row(b, first, q) <=> Row(h, first, q)
  BY DEF Row
<1>16. C - 1 \in 0..C
  <2>1. C # 0
    <3>1. Keys # {}
      BY <1>2
    <3> QED BY <3>1, KeysAssumption, FS_EmptySet
  <2> HIDE DEF C
  <2> QED BY <1>1, <2>1
<1>17. C - 1 \in T
  <2> HIDE DEF T
  <2> QED BY <1>14, <1>16
<1>18. PICK q : q = r[C - 1]
  OBVIOUS
<1>19. Row(h, first, q) /\ (Len(q) = C - 1 + 1 \/ h.next[q[Len(q)]] = Nil)
  BY <1>15, <1>17, <1>18
<1>20. Len(q) < C
  BY <1>19, RowIsShort
<1>21. h.next[q[Len(q)]] = Nil
  <2> HIDE DEF C
  <2> QED BY <1>1, <1>19, <1>20
<1> QED BY <1>10, <1>18, <1>19, <1>21

(* The peers are the children, each once.                                  *)
LEMMA RowHasAll ==
  ASSUME NEW h, NEW M, NEW par, Shape(h, M, par), NEW x \in Tops(h, M), h.child[x] # Nil,
         NEW q, Row(h, h.child[x], q), h.next[q[Len(q)]] = Nil
  PROVE  Children(M, par, x) = {q[i] : i \in 1..Len(q)}
<1>1. /\ q \in Seq(Keys) /\ Len(q) \in Nat /\ Len(q) >= 1 /\ q[1] = h.child[x]
      /\ \A i \in 1..(Len(q) - 1) : h.next[q[i]] = q[i + 1]
  BY DEF Row
<1>2. \A i \in 1..Len(q) : q[i] \in Children(M, par, x)
  BY RowOfChildren
<1>3. x \in M /\ x # Nil /\ M \subseteq Keys /\ Nil \notin Keys
  BY NilAssumption DEF Tops, Shape
<1> DEFINE S == Children(M, par, x) \ {q[i] : i \in 1..Len(q)}
<1>4. ASSUME NEW k \in S PROVE h.prev[k] \in S
  <2>1. k \in M /\ par[k] = x /\ k # Nil /\ k # q[1]
    BY <1>1, <1>3 DEF Children
  <2>2. h.prev[k] # Nil /\ h.prev[k] \in M /\ (h.child[h.prev[k]] = k \/ h.next[h.prev[k]] = k)
    BY <1>3, <2>1 DEF Shape, Upward
  <2>3. h.child[h.prev[k]] # k
    BY <1>1, <2>1, <2>2 DEF Shape, Downward
  <2>4. h.next[h.prev[k]] = k /\ par[h.prev[k]] = x
    BY <2>1, <2>2, <2>3 DEF Shape, Downward
  <2>5. ASSUME NEW i \in 1..Len(q), q[i] = h.prev[k] PROVE FALSE
    <3>1. CASE i = Len(q)
      BY <2>1, <2>4, <2>5, <3>1
    <3>2. CASE i # Len(q)
      <4>1. i \in 1..(Len(q) - 1) /\ i + 1 \in 1..Len(q)
        BY <1>1, <3>2
      <4> QED BY <1>1, <2>4, <2>5, <4>1
    <3> QED BY <3>1, <3>2
  <2> QED BY <2>2, <2>4, <2>5 DEF Children
<1>5. S \in SUBSET M
  BY DEF Children
<1>6. S = {}
  <2> HIDE DEF S
  <2> QED BY <1>4, <1>5 DEF Shape, Rooted
<1> QED BY <1>2, <1>6
-----------------------------------------------------------------------------
(* Merging.                                                                *)

(* What MergePeers computes, by the name of each step.                     *)
Loose(h, q) ==
  [h EXCEPT !.prev = [k \in Keys |-> IF \E i \in DOMAIN q : q[i] = k THEN Nil ELSE @[k]],
            !.next = [k \in Keys |-> IF \E i \in DOMAIN q : q[i] = k THEN Nil ELSE @[k]]]

Paired(s, q, i) ==
  LET linked == Link(s.h, q[2 * i - 1], q[2 * i])
  IN  [h |-> linked, tops |-> Append(s.tops, linked.root)]

PairBody(h, q, g) ==
  [i \in 0..(Len(q) \div 2) |->
     IF i = 0 THEN [h |-> Loose(h, q), tops |-> <<>>] ELSE Paired(g[i - 1], q, i)]

Pairs(h, q) == (CHOOSE g : g = PairBody(h, q, g))[Len(q) \div 2]

WithOdd(s, q) == IF Len(q) % 2 = 1 THEN Append(s.tops, q[Len(q)]) ELSE s.tops

FoldBody(h, tops, g) ==
  [j \in 1..Len(tops) |->
     IF j = 1 THEN [h EXCEPT !.root = tops[Len(tops)]]
     ELSE Link(g[j - 1], g[j - 1].root, tops[Len(tops) + 1 - j])]

Folded(h, tops) == (CHOOSE g : g = FoldBody(h, tops, g))[Len(tops)]

LEMMA MergeInSteps ==
  ASSUME NEW h, NEW first
  PROVE  MergePeers(h, first) =
           LET s == Pairs(h, Peers(h, first))
           IN  Folded(s.h, WithOdd(s, Peers(h, first)))
  BY DEF MergePeers, Pairs, Folded, WithOdd, PairBody, FoldBody, Paired, Loose
(* The heap values.                                                        *)
HeapSet == [root : Keys \cup {Nil}, saving : [Keys -> Savings],
            child : Links, next : Links, prev : Links]

LEMMA HeapTypeIsSet ==
  ASSUME NEW h
  PROVE  HeapType(h) <=> h \in HeapSet
BY DEF HeapType, HeapSet

LEMMA LinkType ==
  ASSUME NEW h, HeapType(h), NEW a \in Keys \cup {Nil}, NEW b \in Keys \cup {Nil}
  PROVE  /\ HeapType(Link(h, a, b))
         /\ Link(h, a, b).root \in {a, b}
<1>1. \A k \in Keys : k # Nil
  BY NilAssumption
<1>2. h = [root |-> h.root, saving |-> h.saving, child |-> h.child,
           next |-> h.next, prev |-> h.prev]
  BY DEF HeapType
<1>3. CASE a = Nil
  <2>1. Link(h, a, b) = [h EXCEPT !.root = b]
    BY <1>3 DEF Link
  <2>2. PICK g : g = [h EXCEPT !.root = b]
    OBVIOUS
  <2>3. g = [root |-> b, saving |-> h.saving, child |-> h.child,
             next |-> h.next, prev |-> h.prev]
    BY <1>2, <2>2
  <2>4. HeapType(g) /\ g.root = b
    BY <2>3 DEF HeapType
  <2> QED BY <2>1, <2>2, <2>4
<1>4. CASE a # Nil /\ b = Nil
  <2>1. Link(h, a, b) = [h EXCEPT !.root = a]
    BY <1>4 DEF Link
  <2>2. PICK g : g = [h EXCEPT !.root = a]
    OBVIOUS
  <2>3. g = [root |-> a, saving |-> h.saving, child |-> h.child,
             next |-> h.next, prev |-> h.prev]
    BY <1>2, <2>2
  <2>4. HeapType(g) /\ g.root = a
    BY <2>3 DEF HeapType
  <2> QED BY <2>1, <2>2, <2>4
<1>5. CASE a # Nil /\ b # Nil
  <2>1. a \in Keys /\ b \in Keys
    BY <1>5
  <2>2. Link(h, a, b) = Below(h, b, a) \/ Link(h, a, b) = Below(h, a, b)
    <3>1. CASE h.saving[b] > h.saving[a]
      <4>1. Link(h, a, b) = Below(h, b, a)
        BY <1>5, <3>1 DEF Link, Below
      <4> QED BY <4>1
    <3>2. CASE ~(h.saving[b] > h.saving[a])
      <4>1. Link(h, a, b) = Below(h, a, b)
        BY <1>5, <3>2 DEF Link, Below
      <4> QED BY <4>1
    <3> QED BY <3>1, <3>2
  <2>3. Relinked(h, Below(h, b, a), b, a) /\ Relinked(h, Below(h, a, b), a, b)
    BY <2>1, BelowPointers
  <2>4. \A g, t, u : Relinked(h, g, t, u) => HeapType(g) /\ g.root = t
    BY DEF Relinked
  <2>5. ASSUME NEW g, NEW t \in {a, b}, NEW u, Relinked(h, g, t, u)
        PROVE  HeapType(g) /\ g.root \in {a, b}
    BY <2>4, <2>5
  <2> QED BY <2>2, <2>3, <2>5
<1> QED BY <1>3, <1>4, <1>5

(* A forest on N with the tops R: savings, and the pointers of nodes       *)
(* outside, as in b.                                                       *)
Grove(g, N, R, b) ==
  /\ \E up : Forest(g, N, up)
  /\ Tops(g, N) = R
  /\ g.saving = b.saving
  /\ \A k \in Keys \ N : /\ g.child[k] = b.child[k]
                         /\ g.next[k] = b.next[k]
                         /\ g.prev[k] = b.prev[k]

LEMMA GroveLink ==
  ASSUME NEW g, NEW N, NEW R, NEW b, Grove(g, N, R, b),
         NEW a \in R, NEW c \in R, a # c
  PROVE  /\ Link(g, a, c).root \in {a, c}
         /\ Grove(Link(g, a, c), N, (R \ {a, c}) \cup {Link(g, a, c).root}, b)
<1>1. PICK up : Forest(g, N, up)
  BY DEF Grove
<1>2. a \in Tops(g, N) /\ c \in Tops(g, N) /\ Tops(g, N) = R
  BY DEF Grove
<1>3. PICK l : l = Link(g, a, c)
  OBVIOUS
<1>4. /\ \E v : Forest(l, N, v)
      /\ l.root \in {a, c}
      /\ Tops(l, N) = (Tops(g, N) \ {a, c}) \cup {l.root}
      /\ l.saving = g.saving
      /\ \A k \in Keys \ {a, c} : l.child[k] = g.child[k] /\ l.next[k] = g.next[k]
      /\ \A k \in Keys \ N : l.prev[k] = g.prev[k]
  BY <1>1, <1>2, <1>3, LinkJoins
<1>5. a \in N /\ c \in N
  BY <1>2 DEF Tops
<1>6. Grove(l, N, (R \ {a, c}) \cup {l.root}, b)
  BY <1>2, <1>4, <1>5 DEF Grove
<1> QED BY <1>3, <1>4, <1>6

(* Without x its children are tops.                                        *)
LEMMA LooseGrove ==
  ASSUME NEW h, NEW M, NEW par, Shape(h, M, par), NEW x \in Tops(h, M), h.child[x] # Nil,
         Sorted(h, M, par, x),
         NEW b, HeapType(b), b.saving = h.saving, b.next = h.next, b.prev = h.prev,
         \A k \in Keys \ {x} : b.child[k] = h.child[k],
         NEW q, q \in Seq(Keys), Children(M, par, x) = {q[i] : i \in 1..Len(q)}
  PROVE  /\ HeapType(Loose(b, q))
         /\ Grove(Loose(b, q), M \ {x}, (Tops(h, M) \ {x}) \cup Children(M, par, x), b)
<1> DEFINE P == Children(M, par, x)
           p == [k \in Keys |-> IF k \in P THEN Nil ELSE h.prev[k]]
           n == [k \in Keys |-> IF k \in P THEN Nil ELSE h.next[k]]
           N == M \ {x}
<1>1. /\ HeapType(h) /\ M \subseteq Keys /\ par \in Links
      /\ Downward(h, M, par) /\ Upward(h, M, par) /\ Rooted(h, M)
      /\ x \in M /\ x \in Keys /\ h.prev[x] = Nil /\ h.next[x] = Nil /\ par[x] = Nil
      /\ Nil \notin Keys /\ P \subseteq M
  BY NilAssumption DEF Shape, Tops, Upward, Children
<1>2. PICK g : g = Loose(b, q)
  OBVIOUS
<1>3. g = [root |-> b.root, saving |-> h.saving, child |-> b.child, next |-> n, prev |-> p]
  <2>1. b = [root |-> b.root, saving |-> b.saving, child |-> b.child,
             next |-> b.next, prev |-> b.prev]
    BY DEF HeapType
  <2>2. /\ p = [k \in Keys |-> IF \E i \in DOMAIN q : q[i] = k THEN Nil ELSE h.prev[k]]
        /\ n = [k \in Keys |-> IF \E i \in DOMAIN q : q[i] = k THEN Nil ELSE h.next[k]]
    <3>1. \A k : k \in P <=> \E i \in DOMAIN q : q[i] = k
      OBVIOUS
    <3> HIDE DEF P
    <3> QED BY <3>1
  <2>3. g = [b EXCEPT !.prev = p, !.next = n]
    <3> HIDE DEF P, p, n
    <3> QED BY <1>2, <2>2 DEF Loose
  <2> HIDE DEF P, p, n
  <2> QED BY <2>1, <2>3
<1>4. p \in Links /\ n \in Links
  BY <1>1 DEF HeapType, Links
<1>5. \A k \in Keys : /\ p[k] = IF k \in P THEN Nil ELSE h.prev[k]
                      /\ n[k] = IF k \in P THEN Nil ELSE h.next[k]
  OBVIOUS
<1>6. \A k \in M : k \in P <=> par[k] = x
  BY DEF Children
<1> HIDE DEF P, p, n
<1>7. /\ HeapType(g) /\ g.saving = h.saving
      /\ \A k \in Keys : /\ g.child[k] = b.child[k]
                         /\ g.next[k] = IF k \in P THEN Nil ELSE h.next[k]
                         /\ g.prev[k] = IF k \in P THEN Nil ELSE h.prev[k]
  <2>1. HeapType(g)
    BY <1>1, <1>3, <1>4 DEF HeapType
  <2> QED BY <1>3, <1>5, <2>1
<1>8. PICK up : up = [k \in Keys |-> IF k \in P THEN Nil ELSE par[k]]
  OBVIOUS
<1>9. up \in Links /\ \A k \in Keys : up[k] = IF k \in P THEN Nil ELSE par[k]
  BY <1>1, <1>8 DEF Links
<1>10. \A k \in N : k \in M /\ k \in Keys /\ k # x /\ k # Nil /\ g.child[k] = h.child[k]
  BY <1>1, <1>7
<1>11. Downward(g, N, up)
  <2> SUFFICES ASSUME NEW k \in N
               PROVE  /\ g.child[k] # Nil => /\ g.child[k] \in N
                                             /\ g.prev[g.child[k]] = k
                                             /\ up[g.child[k]] = k
                                             /\ g.child[k] # g.next[k]
                      /\ g.next[k] # Nil => /\ g.next[k] \in N
                                            /\ g.prev[g.next[k]] = k
                                            /\ up[g.next[k]] = up[k]
    BY DEF Downward
  <2>1. /\ h.child[k] # Nil => /\ h.child[k] \in M
                               /\ h.prev[h.child[k]] = k
                               /\ par[h.child[k]] = k
                               /\ h.child[k] # h.next[k]
        /\ h.next[k] # Nil => /\ h.next[k] \in M
                              /\ h.prev[h.next[k]] = k
                              /\ par[h.next[k]] = par[k]
    BY <1>1, <1>10 DEF Downward
  <2> QED BY <1>1, <1>6, <1>7, <1>9, <1>10, <2>1
<1>12. Upward(g, N, up)
  <2> SUFFICES ASSUME NEW k \in N
               PROVE  /\ g.prev[k] = Nil => g.next[k] = Nil /\ up[k] = Nil
                      /\ g.prev[k] # Nil => /\ g.prev[k] \in N /\ up[k] \in N
                                            /\ g.child[g.prev[k]] = k \/ g.next[g.prev[k]] = k
    BY DEF Upward
  <2>1. /\ h.prev[k] = Nil => h.next[k] = Nil /\ par[k] = Nil
        /\ h.prev[k] # Nil => /\ h.prev[k] \in M /\ par[k] \in M
                              /\ h.child[h.prev[k]] = k \/ h.next[h.prev[k]] = k
    BY <1>1, <1>10 DEF Upward
  <2>2. CASE k \in P
    BY <1>7, <1>9, <1>10, <2>2
  <2>3. CASE k \notin P /\ h.prev[k] = Nil
    BY <1>7, <1>9, <1>10, <2>1, <2>3
  <2>4. CASE k \notin P /\ h.prev[k] # Nil
    <3>1. g.prev[k] = h.prev[k] /\ up[k] = par[k] /\ par[k] # x /\ par[k] \in N
      BY <1>6, <1>7, <1>9, <1>10, <2>1, <2>4
    <3>2. h.prev[k] # x
      BY <1>1, <1>10, <2>1, <2>4, <3>1 DEF Downward
    <3>3. h.prev[k] \in N
      BY <2>1, <2>4, <3>2
    <3>4. CASE h.child[h.prev[k]] = k
      BY <1>10, <3>1, <3>3, <3>4
    <3>5. CASE h.next[h.prev[k]] = k
      <4>1. par[h.prev[k]] = par[k]
        BY <1>1, <1>10, <3>3, <3>5 DEF Downward
      <4>2. h.prev[k] \notin P
        BY <1>6, <1>10, <3>1, <3>3, <4>1
      <4> QED BY <1>7, <1>10, <3>1, <3>3, <3>5, <4>2
    <3> QED BY <2>1, <2>4, <3>1, <3>3, <3>4, <3>5
  <2> QED BY <2>2, <2>3, <2>4
<1>13. Rooted(g, N)
  <2> SUFFICES ASSUME NEW S \in SUBSET N, S # {}, \A k \in S : g.prev[k] \in S
               PROVE  FALSE
    BY DEF Rooted
  <2>1. \A k \in S : h.prev[k] \in S
    BY <1>7, <1>10
  <2> QED BY <1>1, <2>1 DEF Rooted
<1>14. Sorted(g, N, up, Nil)
  BY <1>6, <1>7, <1>9, <1>10 DEF Sorted
<1>15. Forest(g, N, up)
  BY <1>1, <1>7, <1>9, <1>11, <1>12, <1>13, <1>14 DEF Forest, Shape
<1>16. Tops(g, N) = (Tops(h, M) \ {x}) \cup P
  <2>1. x \notin P
    BY <1>1, <1>6
  <2> QED BY <1>1, <1>7, <2>1 DEF Tops
<1>17. \A k \in Keys \ N : /\ g.child[k] = b.child[k]
                           /\ g.next[k] = b.next[k]
                           /\ g.prev[k] = b.prev[k]
  <2>1. \A k \in Keys \ N : k \notin P
    BY <1>1, <1>6
  <2> QED BY <1>7, <2>1
<1>18. Grove(g, N, (Tops(h, M) \ {x}) \cup P, b)
  BY <1>7, <1>15, <1>16, <1>17 DEF Grove
<1> QED BY <1>2, <1>7, <1>18 DEF P
(* The members of a row, and those after the first n.                      *)
Named(q) == {q[i] : i \in 1..Len(q)}
Rest(q, n) == {q[i] : i \in (n + 1)..Len(q)}

PairedUp(s, i, q, N, T, b) ==
  /\ HeapType(s.h)
  /\ s.tops \in Seq(Keys) /\ Len(s.tops) = i
  /\ \A j \in 1..i : s.tops[j] = q[2 * j - 1] \/ s.tops[j] = q[2 * j]
  /\ Grove(s.h, N, T \cup Named(s.tops) \cup Rest(q, 2 * i), b)

Distinct(q, T) ==
  /\ q \in Seq(Keys)
  /\ \A i, j \in 1..Len(q) : i # j => q[i] # q[j]
  /\ \A i \in 1..Len(q) : q[i] \notin T

LEMMA PairUp ==
  ASSUME NEW b, NEW N, NEW T, NEW q, Distinct(q, T),
         NEW i \in Nat, 2 * i + 2 <= Len(q), NEW s, PairedUp(s, i, q, N, T, b)
  PROVE  PairedUp(Paired(s, q, i + 1), i + 1, q, N, T, b)
<1>1. PICK t, a, c, l : t = s.tops /\ a = q[2 * i + 1] /\ c = q[2 * i + 2] /\ l = Link(s.h, a, c)
  OBVIOUS
<1>2. /\ q \in Seq(Keys) /\ Len(q) \in Nat
      /\ \A j, k \in 1..Len(q) : j # k => q[j] # q[k]
      /\ \A j \in 1..Len(q) : q[j] \notin T
  BY DEF Distinct
<1>3. /\ HeapType(s.h) /\ t \in Seq(Keys) /\ Len(t) = i
      /\ \A j \in 1..i : t[j] = q[2 * j - 1] \/ t[j] = q[2 * j]
      /\ Grove(s.h, N, T \cup Named(t) \cup Rest(q, 2 * i), b)
  BY <1>1 DEF PairedUp
<1>4. /\ 2 * i + 1 \in 1..Len(q) /\ 2 * i + 2 \in 1..Len(q)
      /\ a \in Keys /\ c \in Keys /\ a # c /\ a \notin T /\ c \notin T
  <2>1. 2 * i + 1 \in 1..Len(q) /\ 2 * i + 2 \in 1..Len(q) /\ 2 * i + 1 # 2 * i + 2
    BY <1>2
  <2> QED BY <1>1, <1>2, <2>1
<1>5. a \in Rest(q, 2 * i) /\ c \in Rest(q, 2 * i)
  <2>1. 2 * i + 1 \in (2 * i + 1)..Len(q) /\ 2 * i + 2 \in (2 * i + 1)..Len(q)
    BY <1>2
  <2> QED BY <1>1, <2>1 DEF Rest
<1>6. a \notin Named(t) /\ c \notin Named(t)
  <2>1. ASSUME NEW j \in 1..i PROVE t[j] # a /\ t[j] # c
    <3>1. /\ 2 * j - 1 \in 1..Len(q) /\ 2 * j \in 1..Len(q)
          /\ 2 * j - 1 # 2 * i + 1 /\ 2 * j # 2 * i + 1
          /\ 2 * j - 1 # 2 * i + 2 /\ 2 * j # 2 * i + 2
      BY <1>2
    <3> QED BY <1>1, <1>2, <1>3, <1>4, <3>1
  <2> QED BY <1>3, <2>1 DEF Named
<1>7. Rest(q, 2 * i) \ {a, c} = Rest(q, 2 * (i + 1))
  <2>1. ASSUME NEW m \in (2 * i + 1)..Len(q), q[m] # a, q[m] # c
        PROVE  m \in (2 * (i + 1) + 1)..Len(q)
    <3>1. m # 2 * i + 1 /\ m # 2 * i + 2
      BY <1>1, <2>1
    <3> QED BY <1>2, <3>1
  <2>2. ASSUME NEW m \in (2 * (i + 1) + 1)..Len(q)
        PROVE  m \in (2 * i + 1)..Len(q) /\ q[m] # a /\ q[m] # c
    <3>1. m \in 1..Len(q) /\ m \in (2 * i + 1)..Len(q) /\ m # 2 * i + 1 /\ m # 2 * i + 2
      BY <1>2
    <3> QED BY <1>1, <1>2, <1>4, <3>1
  <2> QED BY <2>1, <2>2 DEF Rest
<1>8. HeapType(l) /\ l.root \in {a, c} /\ l.root \in Keys
  <2>1. a \in Keys \cup {Nil} /\ c \in Keys \cup {Nil}
    BY <1>4
  <2>2. HeapType(Link(s.h, a, c)) /\ Link(s.h, a, c).root \in {a, c}
    BY <1>3, <2>1, LinkType
  <2>3. l = Link(s.h, a, c)
    BY <1>1
  <2> QED BY <1>4, <2>2, <2>3
<1>9. Grove(l, N, ((T \cup Named(t) \cup Rest(q, 2 * i)) \ {a, c}) \cup {l.root}, b)
  <2>1. a \in T \cup Named(t) \cup Rest(q, 2 * i) /\ c \in T \cup Named(t) \cup Rest(q, 2 * i)
    BY <1>5
  <2>2. PICK R : R = T \cup Named(t) \cup Rest(q, 2 * i)
    OBVIOUS
  <2>3. Grove(s.h, N, R, b) /\ a \in R /\ c \in R /\ a # c
    BY <1>3, <1>4, <2>1, <2>2
  <2>4. Grove(Link(s.h, a, c), N, (R \ {a, c}) \cup {Link(s.h, a, c).root}, b)
    BY <2>3, GroveLink
  <2> QED BY <1>1, <2>2, <2>4
<1>10. PICK u : u = Append(t, l.root)
  OBVIOUS
<1>11. /\ u \in Seq(Keys) /\ Len(u) = i + 1 /\ u[i + 1] = l.root
       /\ \A j \in 1..i : u[j] = t[j]
  BY <1>3, <1>8, <1>10
<1>12. Named(u) = Named(t) \cup {l.root}
  <2>1. \A j \in 1..(i + 1) : j \in 1..i \/ j = i + 1
    OBVIOUS
  <2>2. \A j \in 1..i : j \in 1..(i + 1)
    OBVIOUS
  <2>3. i + 1 \in 1..(i + 1)
    OBVIOUS
  <2> QED BY <1>3, <1>11, <2>1, <2>2, <2>3 DEF Named
<1>13. ((T \cup Named(t) \cup Rest(q, 2 * i)) \ {a, c}) \cup {l.root}
         = T \cup Named(u) \cup Rest(q, 2 * (i + 1))
  <2>1. \A Z : Z = Rest(q, 2 * i) =>
          ((T \cup Named(t) \cup Z) \ {a, c}) \cup {l.root}
            = T \cup (Named(t) \cup {l.root}) \cup (Z \ {a, c})
    BY <1>4, <1>6
  <2> QED BY <1>7, <1>12, <2>1
<1>14. \A j \in 1..(i + 1) : u[j] = q[2 * j - 1] \/ u[j] = q[2 * j]
  <2>1. ASSUME NEW j \in 1..(i + 1) PROVE u[j] = q[2 * j - 1] \/ u[j] = q[2 * j]
    <3>1. CASE j = i + 1
      <4>1. 2 * j - 1 = 2 * i + 1 /\ 2 * j = 2 * i + 2
        BY <3>1
      <4> QED BY <1>1, <1>8, <1>11, <3>1, <4>1
    <3>2. CASE j # i + 1
      <4>1. j \in 1..i
        BY <3>2
      <4> QED BY <1>3, <1>11, <4>1
    <3> QED BY <3>1, <3>2
  <2> QED BY <2>1
<1>15. Paired(s, q, i + 1) = [h |-> l, tops |-> u]
  <2>1. 2 * (i + 1) - 1 = 2 * i + 1 /\ 2 * (i + 1) = 2 * i + 2
    OBVIOUS
  <2> QED BY <1>1, <1>10, <2>1 DEF Paired
<1>16. Grove(l, N, T \cup Named(u) \cup Rest(q, 2 * (i + 1)), b)
  BY <1>9, <1>13
<1>17. PICK z : z = Paired(s, q, i + 1)
  OBVIOUS
<1>18. z.h = l /\ z.tops = u
  BY <1>15, <1>17
<1>19. PairedUp(z, i + 1, q, N, T, b)
  BY <1>8, <1>11, <1>14, <1>16, <1>18 DEF PairedUp
<1> QED BY <1>17, <1>19

LEMMA PairsMerge ==
  ASSUME NEW b, NEW N, NEW T, NEW q, Distinct(q, T), HeapType(Loose(b, q)),
         Grove(Loose(b, q), N, T \cup Named(q), b)
  PROVE  PairedUp(Pairs(b, q), Len(q) \div 2, q, N, T, b)
<1> DEFINE L == Len(q) \div 2
           d0 == [h |-> Loose(b, q), tops |-> <<>>]
           D == [h : HeapSet, tops : Seq(Keys)]
           F == [p \in Nat \X D |-> IF p[1] \in 1..L THEN Paired(p[2], q, p[1]) ELSE p[2]]
           Body(g) == PairBody(b, q, g)
<1>1. q \in Seq(Keys) /\ Len(q) \in Nat /\ L \in Nat /\ 2 * L <= Len(q)
  BY DEF Distinct
<1> HIDE DEF L
<1>2. d0 \in D
  BY HeapTypeIsSet
<1>3. F \in [Nat \X D -> D]
  <2>1. ASSUME NEW n \in 1..L, NEW s \in D PROVE Paired(s, q, n) \in D
    <3>1. HeapType(s.h) /\ s.tops \in Seq(Keys)
      BY HeapTypeIsSet
    <3>2. q[2 * n - 1] \in Keys /\ q[2 * n] \in Keys
      <4>1. 2 * n - 1 \in 1..Len(q) /\ 2 * n \in 1..Len(q)
        BY <1>1
      <4> QED BY <1>1, <4>1
    <3>3. PICK l : l = Link(s.h, q[2 * n - 1], q[2 * n])
      OBVIOUS
    <3>4. HeapType(l) /\ l.root \in Keys
      <4>1. q[2 * n - 1] \in Keys \cup {Nil} /\ q[2 * n] \in Keys \cup {Nil}
        BY <3>2
      <4> QED BY <3>1, <3>2, <3>3, <4>1, LinkType
    <3>5. Append(s.tops, l.root) \in Seq(Keys)
      BY <3>1, <3>4
    <3>6. Paired(s, q, n) = [h |-> l, tops |-> Append(s.tops, l.root)]
      BY <3>3 DEF Paired
    <3> QED BY <3>4, <3>5, <3>6, HeapTypeIsSet
  <2>2. ASSUME NEW p \in Nat \X D
        PROVE  (IF p[1] \in 1..L THEN Paired(p[2], q, p[1]) ELSE p[2]) \in D
    <3>1. p[2] \in D
      <4> HIDE DEF D
      <4> QED OBVIOUS
    <3> HIDE DEF D
    <3> QED BY <2>1, <3>1
  <2> HIDE DEF D
  <2> QED BY <2>2
<1>4. PICK f : Iterates(f, L, D, d0, F)
  <2> HIDE DEF F, D, d0
  <2> QED BY <1>1, <1>2, <1>3, IterationExists
<1>5. /\ f \in [0..L -> D] /\ f[0] = d0
      /\ \A n \in 1..L : f[n] = Paired(f[n - 1], q, n)
  <2>1. f \in [0..L -> D] /\ f[0] = d0 /\ \A n \in 1..L : f[n] = F[<<n, f[n - 1]>>]
    <3> HIDE DEF F, D, d0
    <3> QED BY <1>4 DEF Iterates
  <2>2. ASSUME NEW n \in 1..L PROVE f[n] = Paired(f[n - 1], q, n)
    <3> HIDE DEF D, d0
    <3>1. n - 1 \in 0..L /\ n \in Nat
      BY <1>1
    <3>2. <<n, f[n - 1]>> \in Nat \X D
      BY <2>1, <3>1
    <3>3. F[<<n, f[n - 1]>>] = Paired(f[n - 1], q, n)
      BY <3>2
    <3> HIDE DEF F
    <3> QED BY <2>1, <3>3
  <2> QED BY <2>1, <2>2
<1>6. f = Body(f)
  <2> HIDE DEF D, F
  <2>1. ASSUME NEW n \in 0..L
        PROVE  f[n] = IF n = 0 THEN d0 ELSE Paired(f[n - 1], q, n)
    <3>1. CASE n = 0
      BY <1>5, <3>1
    <3>2. CASE n # 0
      <4>1. n \in 1..L
        BY <1>1, <3>2
      <4> QED BY <1>5, <3>2, <4>1
    <3> QED BY <3>1, <3>2
  <2>2. f = [n \in 0..L |-> IF n = 0 THEN d0 ELSE Paired(f[n - 1], q, n)]
    <3> HIDE DEF d0
    <3> QED BY <1>5, <2>1
  <2> QED BY <2>2 DEF PairBody, L
<1>7. \E g : g = Body(g)
  BY <1>6
<1> DEFINE r == CHOOSE g : g = Body(g)
<1>8. r = Body(r)
  BY <1>7, Zenon
<1>9. Pairs(b, q) = r[L]
  BY DEF Pairs, L
<1> HIDE DEF r
<1>10. r[0] = d0 /\ \A n \in 1..L : r[n] = Paired(r[n - 1], q, n)
  <2>1. ASSUME NEW n \in 0..L
        PROVE  r[n] = IF n = 0 THEN d0 ELSE Paired(r[n - 1], q, n)
    <3>1. Body(r)[n] = IF n = 0 THEN d0 ELSE Paired(r[n - 1], q, n)
      BY DEF PairBody, L
    <3>2. r[n] = Body(r)[n]
      <4> HIDE DEF Body
      <4> QED BY <1>8
    <3> HIDE DEF Body, d0
    <3> QED BY <3>1, <3>2
  <2> HIDE DEF Body, d0
  <2>2. 0 \in 0..L /\ \A n \in 1..L : n \in 0..L /\ n # 0
    BY <1>1
  <2> QED BY <2>1, <2>2
<1> DEFINE S == {n \in Nat : PairedUp(r[n], n, q, N, T, b)}
<1>11. 0 \in S
  <2>1. Named(<<>>) = {} /\ Rest(q, 2 * 0) = Named(q)
    BY <1>1 DEF Named, Rest
  <2>2. T \cup Named(d0.tops) \cup Rest(q, 2 * 0) = T \cup Named(q)
    BY <2>1
  <2>3. d0.h = Loose(b, q) /\ d0.tops \in Seq(Keys) /\ Len(d0.tops) = 0
    OBVIOUS
  <2> HIDE DEF d0
  <2>5. Grove(d0.h, N, T \cup Named(d0.tops) \cup Rest(q, 2 * 0), b) /\ HeapType(d0.h)
    BY <2>2, <2>3
  <2>4. PairedUp(d0, 0, q, N, T, b)
    BY ONLY <2>3, <2>5 DEF PairedUp
  <2> QED BY <1>10, <2>4
<1>12. ASSUME NEW n \in 0..(L - 1), n \in S PROVE n + 1 \in S
  <2> HIDE DEF d0
  <2>1. n \in Nat /\ n + 1 \in 1..L /\ (n + 1) - 1 = n /\ 2 * n + 2 <= Len(q)
    BY <1>1
  <2>2. PairedUp(r[n], n, q, N, T, b)
    BY <1>12
  <2>3. PairedUp(Paired(r[n], q, n + 1), n + 1, q, N, T, b)
    BY <2>1, <2>2, PairUp
  <2>4. r[n + 1] = Paired(r[n], q, n + 1)
    BY <1>10, <2>1
  <2> QED BY <2>1, <2>3, <2>4
<1>13. L \in S
  <2>1. 0..L \subseteq S
    <3> HIDE DEF S
    <3> QED BY <1>1, <1>11, <1>12, InductionUpTo
  <2> HIDE DEF S
  <2> QED BY <1>1, <2>1
<1>14. PairedUp(r[L], L, q, N, T, b)
  BY <1>13
<1> QED BY <1>9, <1>14 DEF L
(* The root is of no account to a forest.                                  *)
LEMMA GroveRoot ==
  ASSUME NEW h, NEW N, NEW R, NEW b, Grove(h, N, R, b), NEW r \in Keys \cup {Nil},
         HeapType(h)
  PROVE  LET g == [h EXCEPT !.root = r]
         IN  HeapType(g) /\ g.root = r /\ Grove(g, N, R, b)
<1>1. PICK g : g = [h EXCEPT !.root = r]
  OBVIOUS
<1>2. g = [root |-> r, saving |-> h.saving, child |-> h.child, next |-> h.next, prev |-> h.prev]
  BY <1>1 DEF HeapType
<1>3. /\ g.root = r /\ g.saving = h.saving /\ g.child = h.child
      /\ g.next = h.next /\ g.prev = h.prev
  BY <1>2
<1>4. HeapType(g)
  BY <1>2, <1>3 DEF HeapType
<1>5. PICK up : Forest(h, N, up)
  BY DEF Grove
<1>6. Downward(g, N, up) /\ Upward(g, N, up) /\ Rooted(g, N) /\ Sorted(g, N, up, Nil)
  BY <1>3, <1>5 DEF Forest, Shape, Downward, Upward, Rooted, Sorted
<1>7. Forest(g, N, up)
  BY <1>4, <1>5, <1>6 DEF Forest, Shape
<1>8. Tops(g, N) = R
  BY <1>3 DEF Grove, Tops
<1>9. Grove(g, N, R, b)
  BY <1>3, <1>7, <1>8 DEF Grove
<1> QED BY <1>1, <1>3, <1>4, <1>9

First(t, n) == {t[m] : m \in 1..n}

FoldedTo(g, j, t, N, T, b) ==
  /\ HeapType(g)
  /\ g.root \in Rest(t, Len(t) - j)
  /\ Grove(g, N, T \cup {g.root} \cup First(t, Len(t) - j), b)

LEMMA FoldStep ==
  ASSUME NEW b, NEW N, NEW T, NEW t, Distinct(t, T),
         NEW j \in 1..(Len(t) - 1), NEW g, FoldedTo(g, j, t, N, T, b)
  PROVE  FoldedTo(Link(g, g.root, t[Len(t) - j]), j + 1, t, N, T, b)
<1>1. PICK L : L = Len(t)
  OBVIOUS
<1>2. /\ t \in Seq(Keys) /\ L \in Nat /\ j \in Nat /\ L - j \in 1..L /\ j <= L - 1
      /\ \A i, k \in 1..L : i # k => t[i] # t[k]
      /\ \A i \in 1..L : t[i] \notin T
  BY <1>1 DEF Distinct
<1>3. PICK a, c : a = g.root /\ c = t[L - j]
  OBVIOUS
<1>4. PICK m \in (L - j + 1)..L : a = t[m]
  BY <1>1, <1>3 DEF FoldedTo, Rest
<1>5. m \in 1..L /\ m # L - j /\ a \in Keys /\ c \in Keys /\ a # c /\ a \notin T /\ c \notin T
  <2>1. m \in 1..L /\ m # L - j
    BY <1>2
  <2> QED BY <1>1, <1>2, <1>3, <1>4, <2>1
<1>6. PICK R : R = T \cup {a} \cup First(t, L - j)
  OBVIOUS
<1>7. HeapType(g) /\ Grove(g, N, R, b)
  BY <1>1, <1>3, <1>6 DEF FoldedTo
<1>8. a \in R /\ c \in R
  <2>1. L - j \in 1..(L - j)
    BY <1>2
  <2> QED BY <1>3, <1>6, <2>1 DEF First
<1>9. PICK l : l = Link(g, a, c)
  OBVIOUS
<1>10. HeapType(l)
  <2>1. a \in Keys \cup {Nil} /\ c \in Keys \cup {Nil}
    BY <1>5
  <2>2. HeapType(Link(g, a, c))
    BY <1>7, <2>1, LinkType
  <2> QED BY <1>9, <2>2
<1>11. l.root \in {a, c} /\ Grove(l, N, (R \ {a, c}) \cup {l.root}, b)
  <2>1. /\ Link(g, a, c).root \in {a, c}
        /\ Grove(Link(g, a, c), N, (R \ {a, c}) \cup {Link(g, a, c).root}, b)
    BY <1>5, <1>7, <1>8, GroveLink
  <2> QED BY <1>9, <2>1
<1>12. First(t, L - j) \ {a, c} = First(t, L - (j + 1))
  <2>1. ASSUME NEW i \in 1..(L - j), t[i] # c PROVE i \in 1..(L - (j + 1))
    <3>1. i # L - j
      BY <1>3, <2>1
    <3> QED BY <1>2, <3>1
  <2>2. ASSUME NEW i \in 1..(L - (j + 1)) PROVE i \in 1..(L - j) /\ t[i] # a /\ t[i] # c
    <3>1. i \in 1..L /\ i \in 1..(L - j) /\ i # L - j /\ i # m
      BY <1>2, <1>4
    <3> QED BY <1>2, <1>3, <1>4, <1>5, <3>1
  <2> QED BY <2>1, <2>2 DEF First
<1>13. (R \ {a, c}) \cup {l.root} = T \cup {l.root} \cup First(t, L - (j + 1))
  <2>1. \A Z : Z = First(t, L - j) =>
          ((T \cup {a} \cup Z) \ {a, c}) \cup {l.root} = T \cup {l.root} \cup (Z \ {a, c})
    BY <1>5
  <2> QED BY <1>6, <1>12, <2>1
<1>14. l.root \in Rest(t, L - (j + 1))
  <2>1. m \in (L - (j + 1) + 1)..L /\ L - j \in (L - (j + 1) + 1)..L
    BY <1>2, <1>4
  <2> QED BY <1>1, <1>3, <1>4, <1>11, <2>1 DEF Rest
<1>15. FoldedTo(l, j + 1, t, N, T, b)
  <2>1. Grove(l, N, T \cup {l.root} \cup First(t, L - (j + 1)), b)
    BY <1>11, <1>13
  <2> QED BY <1>1, <1>10, <1>14, <2>1 DEF FoldedTo
<1> QED BY <1>1, <1>3, <1>9, <1>15

LEMMA FoldMerges ==
  ASSUME NEW b, NEW N, NEW T, NEW t, Distinct(t, T), Len(t) >= 1,
         NEW h, HeapType(h), Grove(h, N, T \cup Named(t), b)
  PROVE  FoldedTo(Folded(h, t), Len(t), t, N, T, b)
<1> DEFINE L == Len(t)
           d0 == [h EXCEPT !.root = t[L]]
           F == [p \in Nat \X HeapSet |->
                   IF p[1] \in 1..(L - 1) THEN Link(p[2], p[2].root, t[L - p[1]]) ELSE p[2]]
           Body(g) == FoldBody(h, t, g)
<1>1. t \in Seq(Keys) /\ L \in Nat /\ L >= 1 /\ L - 1 \in Nat
  BY DEF Distinct
<1>2. t[L] \in Keys
  BY <1>1
<1> HIDE DEF L
<1>3. HeapType(d0) /\ d0.root = t[L] /\ Grove(d0, N, T \cup Named(t), b)
  <2>1. PICK k : k = t[L]
    OBVIOUS
  <2>2. k \in Keys \cup {Nil}
    BY <1>2, <2>1
  <2>3. /\ HeapType([h EXCEPT !.root = k])
        /\ [h EXCEPT !.root = k].root = k
        /\ Grove([h EXCEPT !.root = k], N, T \cup Named(t), b)
    BY <2>2, GroveRoot
  <2> QED BY <2>1, <2>3
<1>4. F \in [Nat \X HeapSet -> HeapSet]
  <2>1. ASSUME NEW n \in 1..(L - 1), NEW s \in HeapSet
        PROVE  Link(s, s.root, t[L - n]) \in HeapSet
    <3>1. HeapType(s)
      BY HeapTypeIsSet
    <3>2. L - n \in 1..L
      BY <1>1
    <3>3. t[L - n] \in Keys \cup {Nil}
      BY <1>1, <3>2 DEF L
    <3>4. s.root \in Keys \cup {Nil}
      BY <3>1 DEF HeapType
    <3>5. HeapType(Link(s, s.root, t[L - n]))
      BY <3>1, <3>3, <3>4, LinkType
    <3> QED BY <3>5, HeapTypeIsSet
  <2>2. ASSUME NEW p \in Nat \X HeapSet
        PROVE  (IF p[1] \in 1..(L - 1) THEN Link(p[2], p[2].root, t[L - p[1]]) ELSE p[2])
                 \in HeapSet
    <3>1. p[2] \in HeapSet
      OBVIOUS
    <3> QED BY <2>1, <3>1
  <2> QED BY <2>2
<1>5. PICK e : Iterates(e, L - 1, HeapSet, d0, F)
  <2>1. d0 \in HeapSet
    BY <1>3, HeapTypeIsSet
  <2> HIDE DEF F, d0
  <2> QED BY <1>1, <1>4, <2>1, IterationExists
<1>6. /\ e \in [0..(L - 1) -> HeapSet] /\ e[0] = d0
      /\ \A n \in 1..(L - 1) : e[n] = Link(e[n - 1], e[n - 1].root, t[L - n])
  <2>1. /\ e \in [0..(L - 1) -> HeapSet] /\ e[0] = d0
        /\ \A n \in 1..(L - 1) : e[n] = F[<<n, e[n - 1]>>]
    <3> HIDE DEF F, d0
    <3> QED BY <1>5 DEF Iterates
  <2>2. ASSUME NEW n \in 1..(L - 1)
        PROVE  e[n] = Link(e[n - 1], e[n - 1].root, t[L - n])
    <3>1. n - 1 \in 0..(L - 1) /\ n \in Nat
      BY <1>1
    <3>2. <<n, e[n - 1]>> \in Nat \X HeapSet
      BY <2>1, <3>1
    <3>3. F[<<n, e[n - 1]>>] = Link(e[n - 1], e[n - 1].root, t[L - n])
      BY <3>2
    <3> HIDE DEF F
    <3> QED BY <2>1, <3>3
  <2> QED BY <2>1, <2>2
<1> DEFINE f == [j \in 1..L |-> e[j - 1]]
<1>7. f = Body(f)
  <2> HIDE DEF F, d0
  <2>1. ASSUME NEW j \in 1..L
        PROVE  f[j] = IF j = 1 THEN d0 ELSE Link(f[j - 1], f[j - 1].root, t[L + 1 - j])
    <3>1. CASE j = 1
      <4>1. j - 1 = 0
        BY <3>1
      <4> QED BY <1>6, <3>1, <4>1
    <3>2. CASE j # 1
      <4>1. j - 1 \in 1..(L - 1) /\ j - 1 \in 1..L /\ (j - 1) - 1 = j - 2 /\ L - (j - 1) = L + 1 - j
        BY <1>1, <3>2
      <4>2. f[j] = e[j - 1] /\ f[j - 1] = e[j - 2]
        BY <4>1
      <4>3. e[j - 1] = Link(e[j - 2], e[j - 2].root, t[L + 1 - j])
        BY <1>6, <4>1
      <4> QED BY <3>2, <4>2, <4>3
    <3> QED BY <3>1, <3>2
  <2>2. f = [j \in 1..L |-> IF j = 1 THEN d0
                            ELSE Link(f[j - 1], f[j - 1].root, t[L + 1 - j])]
    <3>1. f = [j \in 1..L |-> f[j]]
      OBVIOUS
    <3> HIDE DEF f
    <3> QED BY <2>1, <3>1
  <2> HIDE DEF f
  <2> QED BY <2>2 DEF FoldBody, L, d0
<1>8. \E g : g = Body(g)
  BY <1>7
<1> DEFINE r == CHOOSE g : g = Body(g)
<1>9. r = Body(r)
  BY <1>8, Zenon
<1>10. Folded(h, t) = r[L]
  BY DEF Folded, L
<1> HIDE DEF r, f, F
<1>11. /\ r[1] = d0
       /\ \A j \in 1..(L - 1) : r[j + 1] = Link(r[j], r[j].root, t[L - j])
  <2>1. ASSUME NEW j \in 1..L
        PROVE  r[j] = IF j = 1 THEN d0 ELSE Link(r[j - 1], r[j - 1].root, t[L + 1 - j])
    <3>1. Body(r)[j] = IF j = 1 THEN d0 ELSE Link(r[j - 1], r[j - 1].root, t[L + 1 - j])
      BY DEF FoldBody, L
    <3>2. r[j] = Body(r)[j]
      <4> HIDE DEF Body
      <4> QED BY <1>9
    <3> HIDE DEF Body, d0
    <3> QED BY <3>1, <3>2
  <2> HIDE DEF Body, d0
  <2>2. 1 \in 1..L
    BY <1>1
  <2>3. ASSUME NEW j \in 1..(L - 1) PROVE r[j + 1] = Link(r[j], r[j].root, t[L - j])
    <3>1. j + 1 \in 1..L /\ (j + 1) - 1 = j /\ L + 1 - (j + 1) = L - j /\ j + 1 # 1
      BY <1>1
    <3> QED BY <2>1, <3>1
  <2> QED BY <2>1, <2>2, <2>3
<1> DEFINE S == {n \in Nat : n <= L - 1 => FoldedTo(r[n + 1], n + 1, t, N, T, b)}
<1>12. 0 \in S
  <2> HIDE DEF d0
  <2>1. d0.root \in Rest(t, L - 1)
    <3>1. L \in (L - 1 + 1)..L
      BY <1>1
    <3> QED BY <1>3, <3>1 DEF Rest, L
  <2>2. T \cup {d0.root} \cup First(t, L - 1) = T \cup Named(t)
    <3>1. Named(t) = First(t, L - 1) \cup {t[L]}
      <4>1. \A i \in 1..L : i \in 1..(L - 1) \/ i = L
        BY <1>1
      <4>2. L \in 1..L /\ \A i \in 1..(L - 1) : i \in 1..L
        BY <1>1
      <4> QED BY <4>1, <4>2 DEF Named, First, L
    <3> QED BY <1>3, <3>1
  <2>3. Grove(d0, N, T \cup {d0.root} \cup First(t, L - 1), b)
    BY <1>3, <2>2
  <2>4. FoldedTo(d0, 1, t, N, T, b)
    BY <1>3, <2>1, <2>3 DEF FoldedTo, L
  <2> QED BY <1>11, <2>4
<1>13. ASSUME NEW n \in 0..(L - 2), n \in S PROVE n + 1 \in S
  <2> HIDE DEF d0
  <2>1. n + 1 \in 1..(L - 1) /\ n \in Nat /\ n + 1 \in Nat /\ n <= L - 1 /\ (n + 1) + 1 = n + 2
    BY <1>1
  <2>2. FoldedTo(r[n + 1], n + 1, t, N, T, b)
    BY <1>13, <2>1
  <2>3. n + 1 \in 1..(Len(t) - 1)
    BY <2>1 DEF L
  <2>4. FoldedTo(Link(r[n + 1], r[n + 1].root, t[Len(t) - (n + 1)]), (n + 1) + 1, t, N, T, b)
    BY <2>2, <2>3, FoldStep
  <2>5. r[(n + 1) + 1] = Link(r[n + 1], r[n + 1].root, t[Len(t) - (n + 1)])
    BY <1>11, <2>1 DEF L
  <2>6. FoldedTo(r[(n + 1) + 1], (n + 1) + 1, t, N, T, b)
    BY <2>4, <2>5
  <2> QED BY <2>1, <2>6
<1>14. L - 1 \in S
  <2>1. 0..(L - 1) \subseteq S
    <3>1. L - 1 - 1 = L - 2
      BY <1>1
    <3> HIDE DEF S
    <3> QED BY <1>1, <1>12, <1>13, <3>1, InductionUpTo
  <2>2. L - 1 \in 0..(L - 1)
    BY <1>1
  <2> HIDE DEF S
  <2> QED BY <2>1, <2>2
<1>15. FoldedTo(r[L], L, t, N, T, b)
  <2>1. (L - 1) + 1 = L /\ L - 1 <= L - 1
    BY <1>1
  <2> QED BY <1>14, <2>1
<1> QED BY <1>10, <1>15 DEF L
(* The pairs, and the odd one.                                             *)
LEMMA TopsOfPairs ==
  ASSUME NEW b, NEW N, NEW T, NEW q, Distinct(q, T), Len(q) >= 1,
         NEW s, PairedUp(s, Len(q) \div 2, q, N, T, b)
  PROVE  /\ Distinct(WithOdd(s, q), T) /\ Len(WithOdd(s, q)) >= 1
         /\ Named(WithOdd(s, q)) \subseteq Named(q)
         /\ Grove(s.h, N, T \cup Named(WithOdd(s, q)), b)
<1>1. PICK L : L = Len(q) \div 2
  OBVIOUS
<1>2. /\ q \in Seq(Keys) /\ Len(q) \in Nat /\ L \in Nat /\ 2 * L <= Len(q) /\ Len(q) <= 2 * L + 1
      /\ Len(q) % 2 = 1 <=> Len(q) = 2 * L + 1
      /\ \A i, j \in 1..Len(q) : i # j => q[i] # q[j]
      /\ \A i \in 1..Len(q) : q[i] \notin T
  BY <1>1 DEF Distinct
<1>3. PICK u, t : u = s.tops /\ t = WithOdd(s, q)
  OBVIOUS
<1>4. /\ u \in Seq(Keys) /\ Len(u) = L
      /\ \A j \in 1..L : u[j] = q[2 * j - 1] \/ u[j] = q[2 * j]
      /\ Grove(s.h, N, T \cup Named(u) \cup Rest(q, 2 * L), b)
  BY <1>1, <1>3 DEF PairedUp
<1> DEFINE Right == /\ t \in Seq(Keys) /\ Len(t) >= 1
                    /\ \A j \in 1..Len(t) : \E m \in 1..Len(q) :
                         (m = 2 * j - 1 \/ m = 2 * j) /\ t[j] = q[m]
                    /\ Named(t) = Named(u) \cup Rest(q, 2 * L)
<1>5. ASSUME NEW j \in 1..L
      PROVE  \E m \in 1..Len(q) : (m = 2 * j - 1 \/ m = 2 * j) /\ u[j] = q[m]
  <2>1. 2 * j - 1 \in 1..Len(q) /\ 2 * j \in 1..Len(q)
    BY <1>2
  <2> QED BY <1>4, <2>1
<1>6. ASSUME Len(q) = 2 * L + 1 PROVE Right
  <2>1. t = Append(u, q[Len(q)]) /\ q[Len(q)] \in Keys
    BY <1>2, <1>3, <1>6 DEF WithOdd
  <2>2. /\ t \in Seq(Keys) /\ Len(t) = L + 1 /\ t[L + 1] = q[Len(q)]
        /\ \A j \in 1..L : t[j] = u[j]
    BY <1>2, <1>4, <2>1
  <2>3. Rest(q, 2 * L) = {q[Len(q)]}
    <3>1. (2 * L + 1)..Len(q) = {Len(q)}
      BY <1>2, <1>6
    <3> QED BY <3>1 DEF Rest
  <2>4. Named(t) = Named(u) \cup {q[Len(q)]}
    <3>1. \A j \in 1..(L + 1) : j \in 1..L \/ j = L + 1
      BY <1>2
    <3>2. L + 1 \in 1..(L + 1) /\ \A j \in 1..L : j \in 1..(L + 1)
      BY <1>2
    <3> QED BY <1>4, <2>2, <3>1, <3>2 DEF Named
  <2>5. ASSUME NEW j \in 1..Len(t)
        PROVE  \E m \in 1..Len(q) : (m = 2 * j - 1 \/ m = 2 * j) /\ t[j] = q[m]
    <3>1. CASE j = L + 1
      <4>1. Len(q) = 2 * j - 1 /\ Len(q) \in 1..Len(q)
        BY <1>2, <1>6, <3>1
      <4> QED BY <2>2, <3>1, <4>1
    <3>2. CASE j # L + 1
      <4>1. j \in 1..L
        BY <1>2, <2>2, <3>2
      <4> QED BY <1>5, <2>2, <4>1
    <3> QED BY <3>1, <3>2
  <2>6. Right
    BY <1>2, <2>2, <2>3, <2>4, <2>5
  <2> QED BY <2>6
<1>7. ASSUME Len(q) # 2 * L + 1 PROVE Right
  <2>1. t = u
    BY <1>2, <1>3, <1>7 DEF WithOdd
  <2>2. Rest(q, 2 * L) = {}
    <3>1. (2 * L + 1)..Len(q) = {}
      BY <1>2, <1>7
    <3> QED BY <3>1 DEF Rest
  <2>3. Len(t) >= 1 /\ Len(t) = L
    BY <1>2, <1>4, <1>7, <2>1
  <2>4. Right
    BY <1>4, <1>5, <2>1, <2>2, <2>3
  <2> QED BY <2>4
<1>8. Right
  BY <1>6, <1>7
<1>9. ASSUME NEW i \in 1..Len(t), NEW j \in 1..Len(t), i # j PROVE t[i] # t[j]
  <2>1. PICK m \in 1..Len(q) : (m = 2 * i - 1 \/ m = 2 * i) /\ t[i] = q[m]
    BY <1>8
  <2>2. PICK n \in 1..Len(q) : (n = 2 * j - 1 \/ n = 2 * j) /\ t[j] = q[n]
    BY <1>8
  <2>3. m # n
    <3>1. i \in Int /\ j \in Int /\ m \in Int /\ n \in Int
      BY <1>2, <1>8, <2>1, <2>2
    <3> QED BY ONLY <1>9, <2>1, <2>2, <3>1
  <2> QED BY <1>2, <2>1, <2>2, <2>3
<1>10. Distinct(t, T)
  <2>1. \A i \in 1..Len(t) : t[i] \notin T
    BY <1>2, <1>8
  <2> QED BY <1>8, <1>9, <2>1 DEF Distinct
<1>11. Named(t) \subseteq Named(q)
  BY <1>8 DEF Named
<1>12. Grove(s.h, N, T \cup Named(t), b)
  <2>1. T \cup Named(t) = T \cup Named(u) \cup Rest(q, 2 * L)
    BY <1>8
  <2> QED BY <1>4, <2>1
<1> QED BY <1>3, <1>8, <1>10, <1>11, <1>12

(* Merging the children of a top x leaves one tree in their place, headed  *)
(* by one of them.                                                         *)
LEMMA MergeFrees ==
  ASSUME NEW h, NEW M, NEW par, Shape(h, M, par), NEW x \in Tops(h, M), h.child[x] # Nil,
         Sorted(h, M, par, x),
         NEW b, HeapType(b), b.saving = h.saving, b.next = h.next, b.prev = h.prev,
         \A k \in Keys \ {x} : b.child[k] = h.child[k]
  PROVE  LET g == MergePeers(b, h.child[x])
         IN  /\ HeapType(g)
             /\ g.root \in M \ Tops(h, M)
             /\ Grove(g, M \ {x}, (Tops(h, M) \ {x}) \cup {g.root}, b)
<1>1. PICK q, s, g : /\ q = Peers(b, h.child[x])
                     /\ s = Pairs(b, q)
                     /\ g = Folded(s.h, WithOdd(s, q))
  OBVIOUS
<1>2. MergePeers(b, h.child[x]) = g
  BY <1>1, MergeInSteps
<1>3. Row(h, h.child[x], q) /\ h.next[q[Len(q)]] = Nil
  BY <1>1, PeersAreRow
<1>4. Children(M, par, x) = Named(q)
  <2>1. Children(M, par, x) = {q[i] : i \in 1..Len(q)}
    BY <1>3, RowHasAll
  <2> QED BY <2>1 DEF Named
<1>5. PICK T, N : T = Tops(h, M) \ {x} /\ N = M \ {x}
  OBVIOUS
<1>6. Children(M, par, x) \subseteq M \ Tops(h, M)
  BY NilAssumption DEF Shape, Upward, Tops, Children
<1>7. /\ q \in Seq(Keys) /\ Len(q) >= 1
      /\ \A i, j \in 1..Len(q) : i # j => q[i] # q[j]
      /\ \A i \in 1..Len(q) : q[i] \in Children(M, par, x)
  BY <1>3, RowOfChildren DEF Row
<1>8. Distinct(q, T)
  BY <1>5, <1>6, <1>7 DEF Distinct
<1>9. HeapType(Loose(b, q)) /\ Grove(Loose(b, q), N, T \cup Named(q), b)
  <2>1. Children(M, par, x) = {q[i] : i \in 1..Len(q)}
    BY <1>4 DEF Named
  <2>2. /\ HeapType(Loose(b, q))
        /\ Grove(Loose(b, q), M \ {x}, (Tops(h, M) \ {x}) \cup Children(M, par, x), b)
    BY <1>7, <2>1, LooseGrove
  <2> QED BY <1>4, <1>5, <2>2
<1>10. PairedUp(s, Len(q) \div 2, q, N, T, b)
  <2>1. PairedUp(Pairs(b, q), Len(q) \div 2, q, N, T, b)
    BY <1>8, <1>9, PairsMerge
  <2> QED BY <1>1, <2>1
<1>11. PICK t : t = WithOdd(s, q)
  OBVIOUS
<1>12. /\ Distinct(t, T) /\ Len(t) >= 1 /\ Named(t) \subseteq Named(q)
       /\ Grove(s.h, N, T \cup Named(t), b)
  BY <1>7, <1>8, <1>10, <1>11, TopsOfPairs
<1>13. HeapType(s.h)
  BY <1>10 DEF PairedUp
<1>14. FoldedTo(g, Len(t), t, N, T, b)
  <2>1. FoldedTo(Folded(s.h, t), Len(t), t, N, T, b)
    BY <1>12, <1>13, FoldMerges
  <2> QED BY <1>1, <1>11, <2>1
<1>15. Len(t) - Len(t) = 0 /\ First(t, 0) = {} /\ Rest(t, 0) = Named(t)
  <2>1. Len(t) \in Nat
    BY <1>12 DEF Distinct
  <2> QED BY <2>1 DEF First, Rest, Named
<1>16. /\ HeapType(g) /\ g.root \in Named(t)
       /\ Grove(g, N, T \cup {g.root}, b)
  <2>1. T \cup {g.root} \cup First(t, 0) = T \cup {g.root}
    BY <1>15
  <2>2. /\ HeapType(g) /\ g.root \in Rest(t, 0)
        /\ Grove(g, N, T \cup {g.root} \cup First(t, 0), b)
    BY <1>14, <1>15 DEF FoldedTo
  <2> QED BY <1>15, <2>1, <2>2
<1>17. g.root \in M \ Tops(h, M)
  BY <1>4, <1>6, <1>12, <1>16
<1> QED BY <1>2, <1>5, <1>16, <1>17
-----------------------------------------------------------------------------
(* Calls.                                                                  *)

(* The tree of x gives up its children to the root.                        *)
LEMMA ReleaseKeeps ==
  ASSUME NEW h, NEW M, NEW par, Shape(h, M, par), NEW x \in Tops(h, M),
         Sorted(h, M, par, x), h.root \in Tops(h, M)
  PROVE  LET g == Release(h, x)
         IN  /\ \E up : Forest(g, M, up)
             /\ Tops(g, M) = (Tops(h, M) \ {h.root}) \cup {g.root}
             /\ g.saving = h.saving
             /\ x # h.root => g.root # x /\ g.child[x] = Nil
<1>1. /\ HeapType(h) /\ x \in M /\ x \in Keys /\ h.root \in Keys /\ h.root # Nil
      /\ h.prev[x] = Nil /\ h.next[x] = Nil /\ M \subseteq Keys /\ Nil \notin Keys
  BY NilAssumption DEF Shape, Tops, Upward
<1>2. CASE h.child[x] = Nil
  <2>1. Release(h, x) = h
    BY <1>2 DEF Release
  <2>2. Forest(h, M, par)
    BY <1>2, LoneNodeLeaves
  <2>3. Tops(h, M) = (Tops(h, M) \ {h.root}) \cup {h.root}
    OBVIOUS
  <2> QED BY <1>2, <2>1, <2>2, <2>3
<1>3. CASE h.child[x] # Nil
  <2>1. PICK b, m, g : /\ b = [h EXCEPT !.child[x] = Nil]
                       /\ m = MergePeers(b, h.child[x])
                       /\ g = Link(m, h.root, m.root)
    OBVIOUS
  <2>2. Release(h, x) = g
    BY <1>3, <2>1 DEF Release
  <2>3. PICK c : c = [h.child EXCEPT ![x] = Nil]
    OBVIOUS
  <2>4. c \in Links /\ c[x] = Nil /\ \A k \in Keys \ {x} : c[k] = h.child[k]
    BY <1>1, <2>3 DEF HeapType, Links
  <2>5. b = [root |-> h.root, saving |-> h.saving, child |-> c, next |-> h.next, prev |-> h.prev]
    BY <1>1, <2>1, <2>3 DEF HeapType
  <2>6. /\ HeapType(b) /\ b.root = h.root /\ b.saving = h.saving
        /\ b.next = h.next /\ b.prev = h.prev
        /\ \A k \in Keys \ {x} : b.child[k] = h.child[k]
        /\ b.child[x] = Nil
    BY <1>1, <2>4, <2>5 DEF HeapType
  <2>7. /\ HeapType(m) /\ m.root \in M \ Tops(h, M)
        /\ Grove(m, M \ {x}, (Tops(h, M) \ {x}) \cup {m.root}, b)
    <3>1. /\ HeapType(MergePeers(b, h.child[x]))
          /\ MergePeers(b, h.child[x]).root \in M \ Tops(h, M)
          /\ Grove(MergePeers(b, h.child[x]), M \ {x},
                   (Tops(h, M) \ {x}) \cup {MergePeers(b, h.child[x]).root}, b)
      BY <1>3, <2>6, MergeFrees
    <3> QED BY <2>1, <3>1
  <2>8. /\ x \in Keys \ (M \ {x})
        /\ m.child[x] = Nil /\ m.next[x] = Nil /\ m.prev[x] = Nil /\ m.saving = h.saving
    BY <1>1, <2>6, <2>7 DEF Grove
  <2>9. (M \ {x}) \cup {x} = M
    BY <1>1
  <2>10. PICK up : Forest(m, M \ {x}, up)
    BY <2>7 DEF Grove
  <2>11. /\ \E v : Forest(m, M, v)
         /\ Tops(m, M) = Tops(h, M) \cup {m.root}
    <3>1. /\ \E v : Forest(m, (M \ {x}) \cup {x}, v)
          /\ Tops(m, (M \ {x}) \cup {x}) = Tops(m, M \ {x}) \cup {x}
      <4>1. PICK N : N = M \ {x}
        OBVIOUS
      <4>2. Forest(m, N, up) /\ x \in Keys \ N
        BY <2>8, <2>10, <4>1
      <4>3. (\E v : Forest(m, N \cup {x}, v)) /\ Tops(m, N \cup {x}) = Tops(m, N) \cup {x}
        BY <2>8, <4>2, LoneNodeJoins
      <4> QED BY <4>1, <4>3
    <3>2. Tops(m, M \ {x}) = (Tops(h, M) \ {x}) \cup {m.root}
      BY <2>7 DEF Grove
    <3> QED BY <2>9, <3>1, <3>2
  <2>12. PICK v : Forest(m, M, v)
    BY <2>11
  <2>13. h.root \in Tops(m, M) /\ m.root \in Tops(m, M) /\ h.root # m.root
    BY <2>7, <2>11
  <2>14. /\ \E w : Forest(g, M, w)
         /\ g.root \in {h.root, m.root}
         /\ Tops(g, M) = (Tops(m, M) \ {h.root, m.root}) \cup {g.root}
         /\ g.saving = m.saving
         /\ \A k \in Keys \ {h.root, m.root} : g.child[k] = m.child[k]
    <3>1. LET l == Link(m, h.root, m.root)
          IN  /\ \E w : Forest(l, M, w)
              /\ l.root \in {h.root, m.root}
              /\ Tops(l, M) = (Tops(m, M) \ {h.root, m.root}) \cup {l.root}
              /\ l.saving = m.saving
              /\ \A k \in Keys \ {h.root, m.root} : l.child[k] = m.child[k] /\ l.next[k] = m.next[k]
              /\ \A k \in Keys \ M : l.prev[k] = m.prev[k]
      BY <2>12, <2>13, LinkJoins
    <3> QED BY <2>1, <3>1
  <2>15. Tops(g, M) = (Tops(h, M) \ {h.root}) \cup {g.root}
    BY <2>7, <2>11, <2>14
  <2>16. x # h.root => g.root # x /\ g.child[x] = Nil
    BY <1>1, <2>7, <2>8, <2>14
  <2> QED BY <2>2, <2>8, <2>14, <2>15, <2>16
<1> QED BY <1>2, <1>3

LEMMA TreeRoot ==
  ASSUME NEW h, NEW M, Tree(h, M)
  PROVE  /\ HeapType(h) /\ M \subseteq Keys
         /\ h.root # Nil => h.root \in M /\ Tops(h, M) = {h.root}
         /\ h.root = Nil => M = {}
<1>1. PICK par : Forest(h, M, par) /\ Tops(h, M) = {h.root} \ {Nil}
  BY DEF Tree
<1>2. CASE h.root = Nil
  <2>1. Tops(h, M) = {}
    BY <1>1, <1>2
  <2>2. M = {}
    BY <1>1, <2>1, NoTopNoNode DEF Forest
  <2> QED BY <1>1, <1>2, <2>2 DEF Forest, Shape
<1>3. CASE h.root # Nil
  BY <1>1, <1>3 DEF Forest, Shape, Tops
<1> QED BY <1>2, <1>3

LEMMA EmptyTree ==
  ASSUME NEW h, HeapType(h), h.root = Nil
  PROVE  Tree(h, {})
<1>1. PICK par : par = [k \in Keys |-> Nil]
  OBVIOUS
<1>2. Forest(h, {}, par)
  BY <1>1 DEF Forest, Shape, Links, Downward, Upward, Rooted, Sorted
<1> QED BY <1>2 DEF Tree, Tops

LEMMA WithoutRootKeeps ==
  ASSUME NEW h, NEW M, Tree(h, M), h.root # Nil
  PROVE  /\ Tree(WithoutRoot(h), M \ {h.root})
         /\ WithoutRoot(h).saving = h.saving
<1>1. PICK par : Forest(h, M, par)
  BY DEF Tree
<1>2. PICK x : x = h.root
  OBVIOUS
<1>3. x \in M /\ Tops(h, M) = {x} /\ HeapType(h) /\ M \subseteq Keys /\ Shape(h, M, par)
  BY <1>1, <1>2, TreeRoot DEF Forest
<1>4. Sorted(h, M, par, x)
  BY <1>1 DEF Forest, Sorted
<1>5. CASE h.child[x] = Nil
  <2>1. PICK g : g = [h EXCEPT !.root = Nil]
    OBVIOUS
  <2>2. WithoutRoot(h) = g
    BY <1>2, <1>5, <2>1 DEF WithoutRoot
  <2>3. g = [root |-> Nil, saving |-> h.saving, child |-> h.child,
             next |-> h.next, prev |-> h.prev]
    BY <1>3, <2>1 DEF HeapType
  <2>4. HeapType(g) /\ g.root = Nil /\ g.saving = h.saving
    BY <1>3, <2>3 DEF HeapType
  <2>5. Forest(h, M \ {x}, par) /\ Tops(h, M \ {x}) = Tops(h, M) \ {x}
    BY <1>3, <1>4, <1>5, LoneNodeLeaves
  <2>6. M \ {x} = {}
    <3>1. Tops(h, M \ {x}) = {} /\ Shape(h, M \ {x}, par)
      BY <1>3, <2>5 DEF Forest
    <3> QED BY <3>1, NoTopNoNode
  <2> QED BY <1>2, <2>2, <2>4, <2>6, EmptyTree
<1>6. CASE h.child[x] # Nil
  <2>1. PICK g : g = MergePeers(h, h.child[x])
    OBVIOUS
  <2>2. WithoutRoot(h) = g
    BY <1>2, <1>6, <2>1 DEF WithoutRoot
  <2>3. /\ HeapType(g) /\ g.root \in M \ Tops(h, M)
        /\ Grove(g, M \ {x}, (Tops(h, M) \ {x}) \cup {g.root}, h)
    <3>1. /\ HeapType(MergePeers(h, h.child[x]))
          /\ MergePeers(h, h.child[x]).root \in M \ Tops(h, M)
          /\ Grove(MergePeers(h, h.child[x]), M \ {x},
                   (Tops(h, M) \ {x}) \cup {MergePeers(h, h.child[x]).root}, h)
      <4>1. x \in Tops(h, M)
        BY <1>3
      <4> QED BY <1>3, <1>4, <1>6, <4>1, MergeFrees
    <3> QED BY <2>1, <3>1
  <2>4. (Tops(h, M) \ {x}) \cup {g.root} = {g.root} \ {Nil}
    BY <1>3, <2>3, NilAssumption
  <2>5. Tree(g, M \ {x}) /\ g.saving = h.saving
    BY <2>3, <2>4 DEF Grove, Tree
  <2> QED BY <1>2, <2>2, <2>5
<1> QED BY <1>5, <1>6

(* Two tops, one of them the root, become one tree.                        *)
LEMMA LinkRoots ==
  ASSUME NEW h, NEW M, NEW par, Forest(h, M, par), NEW k, h.root # k,
         Tops(h, M) = {h.root, k}
  PROVE  /\ Tree(Link(h, h.root, k), M)
         /\ Link(h, h.root, k).saving = h.saving
<1>1. PICK g, r : g = Link(h, h.root, k) /\ r = h.root
  OBVIOUS
<1>2. r \in Tops(h, M) /\ k \in Tops(h, M) /\ r # k
  BY <1>1
<1>3. LET l == Link(h, r, k)
      IN  /\ \E up : Forest(l, M, up)
          /\ l.root \in {r, k}
          /\ Tops(l, M) = (Tops(h, M) \ {r, k}) \cup {l.root}
          /\ l.saving = h.saving
          /\ \A j \in Keys \ {r, k} : l.child[j] = h.child[j] /\ l.next[j] = h.next[j]
          /\ \A j \in Keys \ M : l.prev[j] = h.prev[j]
  BY <1>2, LinkJoins
<1>4. /\ \E up : Forest(g, M, up)
      /\ g.root \in {r, k}
      /\ Tops(g, M) = (Tops(h, M) \ {r, k}) \cup {g.root}
      /\ g.saving = h.saving
  BY <1>1, <1>3
<1>5. r # Nil /\ k # Nil
  BY <1>2, NilAssumption DEF Tops, Forest, Shape
<1>6. Tops(g, M) = {g.root} \ {Nil}
  BY <1>1, <1>4, <1>5
<1> QED BY <1>1, <1>4, <1>6 DEF Tree
-----------------------------------------------------------------------------
(* The heap after each call.                                               *)

(* Nobody outside the heap is looked at.                                   *)
LEMMA OutsideIsFree ==
  ASSUME NEW h, NEW M, NEW par, Forest(h, M, par), NEW g, HeapType(g), NEW x \in Keys \ M,
         \A k \in Keys \ {x} : /\ g.saving[k] = h.saving[k] /\ g.child[k] = h.child[k]
                               /\ g.next[k] = h.next[k] /\ g.prev[k] = h.prev[k]
  PROVE  Forest(g, M, par) /\ Tops(g, M) = Tops(h, M)
<1>1. /\ M \subseteq Keys /\ par \in Links /\ Nil \notin Keys
      /\ Downward(h, M, par) /\ Upward(h, M, par) /\ Rooted(h, M) /\ Sorted(h, M, par, Nil)
  BY NilAssumption DEF Forest, Shape
<1>2. \A k \in M : /\ g.saving[k] = h.saving[k] /\ g.child[k] = h.child[k]
                   /\ g.next[k] = h.next[k] /\ g.prev[k] = h.prev[k]
  BY <1>1
<1>3. Downward(g, M, par)
  BY <1>1, <1>2 DEF Downward
<1>4. Upward(g, M, par)
  BY <1>1, <1>2 DEF Upward
<1>5. Rooted(g, M)
  <2> SUFFICES ASSUME NEW S \in SUBSET M, S # {} PROVE \E k \in S : g.prev[k] \notin S
    BY DEF Rooted
  <2>1. PICK k \in S : h.prev[k] \notin S
    BY <1>1 DEF Rooted
  <2> QED BY <1>2, <2>1
<1>6. Sorted(g, M, par, Nil)
  <2>1. \A k \in M : par[k] # Nil => par[k] \in M
    BY <1>1 DEF Upward
  <2> QED BY <1>1, <1>2, <2>1 DEF Sorted
<1>7. Tops(g, M) = Tops(h, M)
  BY <1>2 DEF Tops
<1> QED BY <1>1, <1>3, <1>4, <1>5, <1>6, <1>7 DEF Forest, Shape

LEMMA FreshKeeps ==
  ASSUME Tree(heap, inHeap), NEW k \in Keys \ inHeap, NEW s \in Savings
  PROVE  /\ Tree(Fresh(k, s), inHeap \cup {k})
         /\ Fresh(k, s).saving = [heap.saving EXCEPT ![k] = s]
<1> DEFINE h == [heap EXCEPT !.saving[k] = s, !.child[k] = Nil, !.next[k] = Nil, !.prev[k] = Nil]
           v == [heap.saving EXCEPT ![k] = s]
           c == [heap.child EXCEPT ![k] = Nil]
           n == [heap.next EXCEPT ![k] = Nil]
           p == [heap.prev EXCEPT ![k] = Nil]
           M == inHeap \cup {k}
<1>1. HeapType(heap) /\ inHeap \subseteq Keys
  BY TreeRoot
<1>2. v \in [Keys -> Savings] /\ c \in Links /\ n \in Links /\ p \in Links
  BY <1>1 DEF HeapType, Links
<1>3. h = [root |-> heap.root, saving |-> v, child |-> c, next |-> n, prev |-> p]
  <2>1. heap = [root |-> heap.root, saving |-> heap.saving, child |-> heap.child,
                next |-> heap.next, prev |-> heap.prev]
    BY <1>1 DEF HeapType
  <2>2. h = [heap EXCEPT !.saving = v, !.child = c, !.next = n, !.prev = p]
    BY <2>1
  <2> HIDE DEF h, v, c, n, p
  <2> QED BY <2>1, <2>2
<1>4. /\ c[k] = Nil /\ n[k] = Nil /\ p[k] = Nil
      /\ \A j \in Keys \ {k} : /\ v[j] = heap.saving[j] /\ c[j] = heap.child[j]
                               /\ n[j] = heap.next[j] /\ p[j] = heap.prev[j]
  BY <1>1 DEF HeapType, Links
<1>5. Fresh(k, s) = Link(h, heap.root, k)
  BY DEF Fresh
<1> HIDE DEF c, n, p, v, h
<1>6. /\ HeapType(h) /\ h.root = heap.root /\ h.saving = v
      /\ h.child[k] = Nil /\ h.next[k] = Nil /\ h.prev[k] = Nil
      /\ \A j \in Keys \ {k} : /\ h.saving[j] = heap.saving[j] /\ h.child[j] = heap.child[j]
                               /\ h.next[j] = heap.next[j] /\ h.prev[j] = heap.prev[j]
  BY <1>1, <1>2, <1>3, <1>4 DEF HeapType
<1>7. PICK par : Forest(heap, inHeap, par)
  BY DEF Tree
<1>8. Forest(h, inHeap, par) /\ Tops(h, inHeap) = Tops(heap, inHeap)
  BY <1>6, <1>7, OutsideIsFree
<1>9. (\E up : Forest(h, M, up)) /\ Tops(h, M) = Tops(heap, inHeap) \cup {k}
  <2>1. (\E up : Forest(h, inHeap \cup {k}, up)) /\ Tops(h, inHeap \cup {k}) = Tops(h, inHeap) \cup {k}
    BY <1>6, <1>8, LoneNodeJoins
  <2> QED BY <1>8, <2>1
<1>10. PICK up : Forest(h, M, up)
  BY <1>9
<1> HIDE DEF M
<1>11. CASE heap.root = Nil
  <2>1. Tops(h, M) = {k}
    BY <1>9, <1>11, TreeRoot DEF Tops
  <2>2. PICK g : g = [h EXCEPT !.root = k]
    OBVIOUS
  <2>3. Fresh(k, s) = g
    BY <1>5, <1>11, <2>2 DEF Link
  <2>4. Grove(h, M, {k}, h)
    BY <1>9, <2>1 DEF Grove
  <2>5. HeapType(g) /\ g.root = k /\ Grove(g, M, {k}, h)
    BY <1>6, <2>2, <2>4, GroveRoot
  <2>6. {k} = {g.root} \ {Nil}
    BY <2>5, NilAssumption
  <2>7. Tree(g, M) /\ g.saving = v
    BY <1>6, <2>5, <2>6 DEF Grove, Tree
  <2> QED BY <2>3, <2>7 DEF v, M
<1>12. CASE heap.root # Nil
  <2>1. Tops(h, M) = {h.root, k} /\ h.root # k
    BY <1>6, <1>9, <1>12, TreeRoot
  <2>2. Tree(Link(h, h.root, k), M) /\ Link(h, h.root, k).saving = h.saving
    BY <1>10, <2>1, LinkRoots
  <2> QED BY <1>5, <1>6, <2>2 DEF v, M
<1> QED BY <1>11, <1>12

(* A new saving for k is out of order with its children and its parent     *)
(* only.                                                                   *)
Revalued(h, g, M, par, k, s) ==
  /\ Shape(g, M, par) /\ Tops(g, M) = Tops(h, M)
  /\ g.root = h.root /\ g.saving = [h.saving EXCEPT ![k] = s]
  /\ g.child = h.child /\ g.next = h.next /\ g.prev = h.prev
  /\ g.saving[k] = s
  /\ \A j \in M \ {k} : /\ g.saving[j] = h.saving[j]
                        /\ par[j] \notin {Nil, k} => g.saving[j] <= g.saving[par[j]]

LEMMA NewSaving ==
  ASSUME NEW h, NEW M, NEW par, Forest(h, M, par), NEW k \in M, NEW s \in Savings,
         NEW g, g = [h EXCEPT !.saving[k] = s]
  PROVE  Revalued(h, g, M, par, k, s)
<1>1. PICK v : v = [h.saving EXCEPT ![k] = s]
  OBVIOUS
<1>2. HeapType(h) /\ M \subseteq Keys /\ Shape(h, M, par) /\ Sorted(h, M, par, Nil)
  BY DEF Forest, Shape
<1>3. /\ v \in [Keys -> Savings] /\ v[k] = s
      /\ \A j \in Keys \ {k} : v[j] = h.saving[j]
  BY <1>1, <1>2 DEF HeapType
<1>4. g = [root |-> h.root, saving |-> v, child |-> h.child, next |-> h.next, prev |-> h.prev]
  BY <1>1, <1>2 DEF HeapType
<1>5. /\ HeapType(g) /\ g.root = h.root /\ g.saving = v
      /\ g.child = h.child /\ g.next = h.next /\ g.prev = h.prev
  BY <1>2, <1>3, <1>4 DEF HeapType
<1>6. Downward(g, M, par) /\ Upward(g, M, par) /\ Rooted(g, M) /\ Tops(g, M) = Tops(h, M)
  BY <1>2, <1>5 DEF Shape, Downward, Upward, Rooted, Tops
<1>7. Shape(g, M, par)
  BY <1>2, <1>5, <1>6 DEF Shape
<1>8. \A j \in M : par[j] # Nil => par[j] \in M
  BY <1>2 DEF Shape, Upward
<1>9. \A j \in M \ {k} : /\ g.saving[j] = h.saving[j]
                         /\ par[j] \notin {Nil, k} => g.saving[j] <= g.saving[par[j]]
  BY <1>2, <1>3, <1>5, <1>8 DEF Sorted
<1> QED BY <1>1, <1>3, <1>5, <1>6, <1>7, <1>9 DEF Revalued
(* Cut off, k and what is below it is in order but for k and its children. *)
LEMMA CutSorted ==
  ASSUME NEW h, NEW M, NEW par, Shape(h, M, par), NEW k \in M, k \notin Tops(h, M),
         \A j \in M \ {k} : par[j] \notin {Nil, k} => h.saving[j] <= h.saving[par[j]],
         NEW g, g = Cut(h, k)
  PROVE  \E up : /\ Shape(g, M, up) /\ Sorted(g, M, up, k)
                 /\ \A j \in M \ {k} : up[j] = par[j]
                 /\ up[k] = Nil
                 /\ Tops(g, M) = Tops(h, M) \cup {k}
                 /\ g.root = h.root /\ g.saving = h.saving
<1>1. HeapType(h) /\ M \subseteq Keys /\ k \in Keys /\ par \in Links
  BY DEF Shape
<1>2. Trimmed(h, g, k)
  BY <1>1, CutPointers
<1>3. g.root = h.root /\ g.saving = h.saving
  BY <1>2 DEF Trimmed
<1>4. PICK up : up = [par EXCEPT ![k] = Nil]
  OBVIOUS
<1>5. Shape(g, M, up) /\ Tops(g, M) = Tops(h, M) \cup {k}
  <2>1. /\ Shape(g, M, [par EXCEPT ![k] = Nil])
        /\ Tops(g, M) = Tops(h, M) \cup {k}
    BY <1>2, CutFrees
  <2> QED BY <1>4, <2>1
<1>6. up[k] = Nil /\ \A j \in M \ {k} : up[j] = par[j]
  BY <1>1, <1>4 DEF Links
<1>7. Sorted(g, M, up, k)
  BY <1>3, <1>6 DEF Sorted
<1> QED BY <1>3, <1>5, <1>6, <1>7

LEMMA UpdateKeeps ==
  ASSUME Tree(heap, inHeap), NEW k \in inHeap, NEW s \in Savings
  PROVE  /\ Tree(Update(k, s), inHeap)
         /\ Update(k, s).saving = [heap.saving EXCEPT ![k] = s]
<1> DEFINE M == inHeap
           v == [heap.saving EXCEPT ![k] = s]
<1>1. PICK h : h = [heap EXCEPT !.saving[k] = s]
  OBVIOUS
<1>2. PICK par : Forest(heap, M, par)
  BY DEF Tree
<1>3. /\ HeapType(heap) /\ M \subseteq Keys /\ heap.root \in M /\ heap.root # Nil
      /\ Tops(heap, M) = {heap.root}
  BY TreeRoot
<1>4. /\ Shape(h, M, par) /\ Tops(h, M) = {heap.root}
      /\ h.root = heap.root /\ h.saving = v
      /\ h.child = heap.child /\ h.next = heap.next /\ h.prev = heap.prev
      /\ h.saving[k] = s
      /\ \A j \in M \ {k} : /\ h.saving[j] = heap.saving[j]
                            /\ par[j] \notin {Nil, k} => h.saving[j] <= h.saving[par[j]]
  <2>1. Revalued(heap, h, M, par, k, s)
    BY <1>1, <1>2, NewSaving
  <2> QED BY <1>3, <2>1 DEF Revalued
<1>5. heap.saving[k] \in Int /\ s \in Int
  BY <1>3, SavingsAssumption DEF HeapType
<1>6. ASSUME ~(s < heap.saving[k]), NEW j \in M, par[j] = k PROVE h.saving[j] <= s
  <2>1. k # Nil /\ k \in Keys /\ j \in Keys
    BY <1>3, NilAssumption
  <2>2. heap.saving[j] <= heap.saving[k]
    BY <1>2, <1>6, <2>1 DEF Forest, Sorted
  <2>3. heap.saving[j] \in Int
    BY <1>3, <2>1, SavingsAssumption DEF HeapType
  <2>4. h.saving[j] = heap.saving[j] \/ h.saving[j] = s
    BY <1>4
  <2> QED BY <1>5, <1>6, <2>2, <2>3, <2>4
<1>7. CASE k = heap.root
  <2>1. k \in Tops(h, M) /\ par[k] = Nil
    BY <1>4, <1>7 DEF Shape, Upward, Tops
  <2>2. Sorted(h, M, par, k)
    BY <1>4, <2>1 DEF Sorted
  <2>3. CASE s < heap.saving[k]
    <3>1. PICK g : g = Release(h, k)
      OBVIOUS
    <3>2. Update(k, s) = g
      BY <1>1, <1>7, <2>3, <3>1 DEF Update
    <3>3. h.root \in Tops(h, M)
      BY <1>4
    <3>4. /\ \E up : Forest(g, M, up)
          /\ Tops(g, M) = (Tops(h, M) \ {h.root}) \cup {g.root}
          /\ g.saving = h.saving
      BY <1>4, <2>1, <2>2, <3>1, <3>3, ReleaseKeeps
    <3>5. g.root \in Tops(g, M) /\ Tops(g, M) = {g.root}
      BY <1>4, <3>4
    <3>6. g.root # Nil
      BY <1>3, <3>5, NilAssumption DEF Tops
    <3> QED BY <1>4, <3>2, <3>4, <3>5, <3>6 DEF Tree
  <2>4. CASE ~(s < heap.saving[k])
    <3>1. Update(k, s) = h
      BY <1>1, <1>7, <2>4 DEF Update
    <3>2. Sorted(h, M, par, Nil)
      BY <1>4, <1>6, <2>1, <2>4 DEF Sorted
    <3>3. Forest(h, M, par) /\ Tops(h, M) = {h.root} \ {Nil}
      BY <1>3, <1>4, <3>2 DEF Forest
    <3> QED BY <1>4, <3>1, <3>3 DEF Tree
  <2> QED BY <2>3, <2>4
<1>8. CASE k # heap.root
  <2>1. PICK g : g = Cut(h, k)
    OBVIOUS
  <2>2. k \notin Tops(h, M)
    BY <1>4, <1>8
  <2>3. PICK up : /\ Shape(g, M, up) /\ Sorted(g, M, up, k)
                  /\ \A j \in M \ {k} : up[j] = par[j]
                  /\ up[k] = Nil
                  /\ Tops(g, M) = Tops(h, M) \cup {k}
                  /\ g.root = h.root /\ g.saving = h.saving
    <3>1. /\ Shape(h, M, par) /\ k \in M
          /\ \A j \in M \ {k} : par[j] \notin {Nil, k} => h.saving[j] <= h.saving[par[j]]
      BY <1>4
    <3> QED BY ONLY <2>1, <2>2, <3>1, CutSorted
  <2>4. g.root # k /\ Tops(g, M) = {g.root, k} /\ g.saving = v
    BY <1>4, <1>8, <2>3
  <2>5. CASE s < heap.saving[k]
    <3>1. PICK f : f = Release(g, k)
      OBVIOUS
    <3>2. Update(k, s) = Link(f, f.root, k)
      BY <1>1, <1>8, <2>1, <2>5, <3>1 DEF Update
    <3>3. k \in Tops(g, M) /\ g.root \in Tops(g, M)
      BY <2>4
    <3>4. /\ \E w : Forest(f, M, w)
          /\ Tops(f, M) = (Tops(g, M) \ {g.root}) \cup {f.root}
          /\ f.saving = g.saving
          /\ k # g.root => f.root # k /\ f.child[k] = Nil
      BY <2>3, <3>1, <3>3, ReleaseKeeps
    <3>5. f.root # k /\ Tops(f, M) = {f.root, k}
      BY <2>4, <3>4
    <3>6. Tree(Link(f, f.root, k), M) /\ Link(f, f.root, k).saving = f.saving
      BY <3>4, <3>5, LinkRoots
    <3> QED BY <2>4, <3>2, <3>4, <3>6
  <2>6. CASE ~(s < heap.saving[k])
    <3>1. Update(k, s) = Link(g, g.root, k)
      BY <1>1, <1>8, <2>1, <2>6 DEF Update
    <3>2. Sorted(g, M, up, Nil)
      <4>1. ASSUME NEW j \in M, up[j] = k PROVE g.saving[j] <= g.saving[k]
        <5>1. k # Nil
          BY <1>3, NilAssumption
        <5>2. par[j] = k
          BY <2>3, <4>1, <5>1
        <5> QED BY <1>4, <1>6, <2>3, <2>6, <5>2
      <4> QED BY <2>3, <4>1 DEF Sorted
    <3>3. Forest(g, M, up)
      BY <2>3, <3>2 DEF Forest
    <3>4. Tree(Link(g, g.root, k), M) /\ Link(g, g.root, k).saving = g.saving
      BY <2>4, <3>3, LinkRoots
    <3> QED BY <2>4, <3>1, <3>4
  <2> QED BY <2>5, <2>6
<1> QED BY <1>7, <1>8

LEMMA RemoveKeeps ==
  ASSUME Tree(heap, inHeap), NEW k \in inHeap, k # heap.root
  PROVE  /\ Tree(Release(Cut(heap, k), k), inHeap \ {k})
         /\ Release(Cut(heap, k), k).saving = heap.saving
<1> DEFINE M == inHeap
<1>1. PICK par : Forest(heap, M, par)
  BY DEF Tree
<1>2. /\ HeapType(heap) /\ M \subseteq Keys /\ heap.root \in M /\ heap.root # Nil
      /\ Tops(heap, M) = {heap.root}
  BY TreeRoot
<1>3. PICK g, f : g = Cut(heap, k) /\ f = Release(g, k)
  OBVIOUS
<1>4. PICK up : /\ Shape(g, M, up) /\ Sorted(g, M, up, k)
                /\ Tops(g, M) = Tops(heap, M) \cup {k}
                /\ g.root = heap.root /\ g.saving = heap.saving
  <2>1. /\ Shape(heap, M, par) /\ k \in M /\ k \notin Tops(heap, M)
        /\ \A j \in M \ {k} : par[j] \notin {Nil, k} => heap.saving[j] <= heap.saving[par[j]]
    BY <1>1, <1>2 DEF Forest, Sorted
  <2>2. g = Cut(heap, k)
    BY <1>3
  <2> QED BY ONLY <2>1, <2>2, CutSorted
<1>5. k \in Tops(g, M) /\ g.root \in Tops(g, M) /\ k # g.root
  BY <1>2, <1>4
<1>6. /\ \E w : Forest(f, M, w)
      /\ Tops(f, M) = (Tops(g, M) \ {g.root}) \cup {f.root}
      /\ f.saving = g.saving
      /\ k # g.root => f.root # k /\ f.child[k] = Nil
  BY <1>3, <1>4, <1>5, ReleaseKeeps
<1>7. f.root # k /\ f.child[k] = Nil /\ Tops(f, M) = {f.root, k}
  BY <1>2, <1>4, <1>5, <1>6
<1>8. PICK w : Forest(f, M, w)
  BY <1>6
<1>9. Forest(f, M \ {k}, w) /\ Tops(f, M \ {k}) = Tops(f, M) \ {k}
  <2>1. Shape(f, M, w) /\ Sorted(f, M, w, k) /\ k \in Tops(f, M)
    BY <1>7, <1>8 DEF Forest, Sorted
  <2> QED BY <1>7, <2>1, LoneNodeLeaves
<1>10. f.root # Nil
  BY <1>2, <1>7, NilAssumption DEF Tops
<1>11. Tree(f, M \ {k})
  <2>1. Tops(f, M \ {k}) = {f.root} \ {Nil}
    BY <1>7, <1>9, <1>10
  <2> QED BY <1>9, <2>1 DEF Tree
<1> QED BY <1>3, <1>4, <1>6, <1>11
-----------------------------------------------------------------------------
(* The invariant.                                                          *)

LEMMA StartsEmpty == HeapInit => HeapInv
<1> SUFFICES ASSUME HeapInit PROVE HeapInv
  OBVIOUS
<1>1. HeapType(heap) /\ heap.root = Nil /\ inHeap = {} /\ popped = Nil
  BY DEF HeapInit, HeapType, Links
<1> QED BY <1>1, EmptyTree DEF HeapInv

(* A push or an update changes the saving of its move; no other call       *)
(* changes any.                                                            *)
LEMMA PushKeeps ==
  ASSUME HeapInv, NEW k \in Keys, NEW s \in Savings, PushOrUpdate(k, s)
  PROVE  HeapInv' /\ heap'.saving = [heap.saving EXCEPT ![k] = s]
<1>1. Tree(heap, inHeap) /\ inHeap' = inHeap \cup {k} /\ popped' = popped
      /\ popped \in Keys \cup {Nil}
  BY DEF HeapInv, PushOrUpdate
<1>2. CASE k \in inHeap
  <2>1. heap' = Update(k, s) /\ inHeap' = inHeap
    BY <1>1, <1>2 DEF PushOrUpdate
  <2>2. Tree(Update(k, s), inHeap) /\ Update(k, s).saving = [heap.saving EXCEPT ![k] = s]
    BY <1>1, <1>2, UpdateKeeps
  <2> QED BY <1>1, <2>1, <2>2 DEF HeapInv
<1>3. CASE k \notin inHeap
  <2>1. heap' = Fresh(k, s)
    BY <1>3 DEF PushOrUpdate
  <2>2. Tree(Fresh(k, s), inHeap \cup {k}) /\ Fresh(k, s).saving = [heap.saving EXCEPT ![k] = s]
    BY <1>1, <1>3, FreshKeeps
  <2> QED BY <1>1, <2>1, <2>2 DEF HeapInv
<1> QED BY <1>2, <1>3
LEMMA RemovalKeeps ==
  ASSUME HeapInv, NEW k \in Keys, Remove(k)
  PROVE  HeapInv' /\ heap'.saving = heap.saving
<1>1. /\ Tree(heap, inHeap) /\ k \in inHeap /\ inHeap' = inHeap \ {k} /\ popped' = popped
      /\ popped \in Keys \cup {Nil}
  BY DEF HeapInv, Remove
<1>2. CASE k = heap.root
  <2>1. heap' = WithoutRoot(heap) /\ heap.root # Nil
    BY <1>2, NilAssumption DEF Remove
  <2>2. /\ Tree(WithoutRoot(heap), inHeap \ {heap.root})
        /\ WithoutRoot(heap).saving = heap.saving
    BY <1>1, <2>1, WithoutRootKeeps
  <2> QED BY <1>1, <1>2, <2>1, <2>2 DEF HeapInv
<1>3. CASE k # heap.root
  <2>1. heap' = Release(Cut(heap, k), k)
    BY <1>3 DEF Remove
  <2>2. /\ Tree(Release(Cut(heap, k), k), inHeap \ {k})
        /\ Release(Cut(heap, k), k).saving = heap.saving
    BY <1>1, <1>3, RemoveKeeps
  <2> QED BY <1>1, <2>1, <2>2 DEF HeapInv
<1> QED BY <1>2, <1>3

LEMMA PopKeeps ==
  ASSUME HeapInv, PopBest
  PROVE  HeapInv' /\ heap'.saving = heap.saving
<1>1. /\ Tree(heap, inHeap) /\ heap.root # Nil /\ inHeap' = inHeap \ {heap.root}
      /\ popped' = heap.root /\ heap' = WithoutRoot(heap)
  BY DEF HeapInv, PopBest
<1>2. /\ Tree(WithoutRoot(heap), inHeap \ {heap.root})
      /\ WithoutRoot(heap).saving = heap.saving
  BY <1>1, WithoutRootKeeps
<1>3. heap.root \in Keys
  BY <1>1, TreeRoot
<1> QED BY <1>1, <1>2, <1>3 DEF HeapInv

LEMMA ClearKeeps ==
  ASSUME HeapInv, Clear
  PROVE  HeapInv' /\ heap'.saving = heap.saving
<1>1. /\ HeapType(heap) /\ inHeap' = {} /\ popped' = popped /\ popped \in Keys \cup {Nil}
      /\ heap' = [heap EXCEPT !.root = Nil]
  BY TreeRoot DEF HeapInv, Clear
<1>2. heap' = [root |-> Nil, saving |-> heap.saving, child |-> heap.child,
               next |-> heap.next, prev |-> heap.prev]
  BY <1>1 DEF HeapType
<1>3. HeapType(heap') /\ heap'.root = Nil /\ heap'.saving = heap.saving
  BY <1>1, <1>2 DEF HeapType
<1>4. Tree(heap', {})
  BY <1>3, EmptyTree
<1> QED BY <1>1, <1>3, <1>4 DEF HeapInv

(* The nodes in the heap are one tree, in heap order, whose pointers agree *)
(* (pairing_heap.h: what link, cut and merge_peers each take for granted   *)
(* of the heap they are given, and hand on).                               *)
THEOREM HeapStaysTree == HeapSpec => []HeapInv
<1>1. HeapInit => HeapInv
  BY StartsEmpty
<1>2. HeapInv /\ [HeapNext]_heapVars => HeapInv'
  <2> SUFFICES ASSUME HeapInv, [HeapNext]_heapVars PROVE HeapInv'
    OBVIOUS
  <2>1. CASE \E k \in Keys, s \in Savings : PushOrUpdate(k, s)
    BY <2>1, PushKeeps
  <2>2. CASE \E k \in Keys : Remove(k)
    BY <2>2, RemovalKeeps
  <2>3. CASE PopBest
    BY <2>3, PopKeeps
  <2>4. CASE Clear
    BY <2>4, ClearKeeps
  <2>5. CASE UNCHANGED heapVars
    BY <2>5 DEF heapVars, HeapInv
  <2> QED BY <2>1, <2>2, <2>3, <2>4, <2>5 DEF HeapNext
<1> QED BY <1>1, <1>2, PTL DEF HeapSpec

-----------------------------------------------------------------------------
(* What the invariant gives.                                               *)

(* The nodes that are reached are the nodes in the heap.                   *)
LEMMA ReachesAll ==
  ASSUME HeapInv
  PROVE  Reached = inHeap
<1> DEFINE C == Cardinality(Keys)
           d0 == {heap.root} \ {Nil}
           Body(g) == [n \in 0..C |->
                         IF n = 0 THEN d0
                         ELSE g[n - 1] \cup {k \in Keys : PointedAt(k) \cap g[n - 1] # {}}]
           F == [S \in SUBSET inHeap |-> {k \in Keys : PointedAt(k) \cap S # {}}]
<1>1. PICK par : Forest(heap, inHeap, par)
  BY DEF HeapInv, Tree
<1>2. /\ inHeap \subseteq Keys /\ Nil \notin Keys /\ d0 \in SUBSET inHeap /\ C \in Nat
      /\ Tops(heap, inHeap) = d0
      /\ Downward(heap, inHeap, par) /\ Upward(heap, inHeap, par) /\ Rooted(heap, inHeap)
  BY <1>1, NilAssumption, KeysCount DEF HeapInv, Tree, Forest, Shape, Tops
<1>3. F \in [SUBSET inHeap -> SUBSET inHeap]
  <2>1. ASSUME NEW S \in SUBSET inHeap, NEW k \in Keys, PointedAt(k) \cap S # {}
        PROVE  k \in inHeap
    <3>1. PICK j \in inHeap : heap.child[j] = k \/ heap.next[j] = k
      BY <2>1 DEF PointedAt
    <3> QED BY <1>2, <3>1 DEF Downward
  <2> QED BY <2>1
<1>4. PICK f \in [0..C -> SUBSET inHeap] : Grows(f, C, d0, F)
  <2> HIDE DEF F, C, d0
  <2> QED BY <1>2, <1>3, GrowthExists
<1>5. f = Body(f)
  <2> HIDE DEF d0, C
  <2>1. f[0] = d0
    BY <1>4 DEF Grows
  <2>2. ASSUME NEW n \in 1..C
        PROVE  f[n] = f[n - 1] \cup {k \in Keys : PointedAt(k) \cap f[n - 1] # {}}
    <3>1. n - 1 \in 0..C
      BY <1>2
    <3>2. f[n - 1] \in SUBSET inHeap
      BY <3>1
    <3> QED BY <1>4, <3>2 DEF Grows
  <2> QED BY <1>2, <2>1, <2>2
<1>6. \E g : g = Body(g)
  BY <1>5
<1> DEFINE r == CHOOSE g : g = Body(g)
<1>7. r = Body(r)
  BY <1>6, Zenon
<1>8. Reached = r[C]
  BY DEF Reached
<1> HIDE DEF r
<1>9. /\ r[0] = d0
      /\ \A n \in 1..C : r[n] = r[n - 1] \cup {k \in Keys : PointedAt(k) \cap r[n - 1] # {}}
  <2>1. ASSUME NEW n \in 0..C
        PROVE  r[n] = IF n = 0 THEN d0
                      ELSE r[n - 1] \cup {k \in Keys : PointedAt(k) \cap r[n - 1] # {}}
    <3>1. Body(r)[n] = IF n = 0 THEN d0
                       ELSE r[n - 1] \cup {k \in Keys : PointedAt(k) \cap r[n - 1] # {}}
      OBVIOUS
    <3>2. r[n] = Body(r)[n]
      <4> HIDE DEF Body
      <4> QED BY <1>7
    <3> HIDE DEF Body, d0
    <3> QED BY <3>1, <3>2
  <2> HIDE DEF Body, d0
  <2>2. 0 \in 0..C /\ \A n \in 1..C : n \in 0..C /\ n # 0
    BY <1>2
  <2> QED BY <2>1, <2>2
<1> HIDE DEF d0, C
<1>10. Grows(r, C, d0, F)
  <2> DEFINE T == {n \in Nat : r[n] \in SUBSET inHeap}
  <2>1. 0 \in T
    BY <1>2, <1>9
  <2>2. ASSUME NEW n \in 0..(C - 1), n \in T PROVE n + 1 \in T
    <3>1. n + 1 \in 1..C /\ (n + 1) - 1 = n /\ r[n] \in SUBSET inHeap
      BY <1>2, <2>2
    <3>2. F[r[n]] = {k \in Keys : PointedAt(k) \cap r[n] # {}} /\ F[r[n]] \in SUBSET inHeap
      BY <1>3, <3>1
    <3>3. r[n + 1] = r[n] \cup F[r[n]]
      BY <1>9, <3>1, <3>2
    <3> HIDE DEF F
    <3> QED BY <3>1, <3>2, <3>3
  <2>3. 0..C \subseteq T
    <3> HIDE DEF T
    <3> QED BY <1>2, <2>1, <2>2, InductionUpTo
  <2>4. ASSUME NEW n \in 1..C PROVE r[n] = r[n - 1] \cup F[r[n - 1]]
    <3>1. n - 1 \in 0..C
      BY <1>2
    <3>2. r[n - 1] \in SUBSET inHeap
      BY <2>3, <3>1
    <3>3. F[r[n - 1]] = {k \in Keys : PointedAt(k) \cap r[n - 1] # {}}
      BY <3>2
    <3> HIDE DEF F
    <3> QED BY <1>9, <3>3
  <2> HIDE DEF F
  <2> QED BY <1>9, <2>4 DEF Grows
<1>11. r[C] \in SUBSET inHeap /\ d0 \subseteq r[C] /\ F[r[C]] \subseteq r[C]
  <2>1. IsFiniteSet(inHeap) /\ Cardinality(inHeap) <= C
    BY <1>2, KeysAssumption, FS_Subset DEF C
  <2>2. C \in Nat /\ d0 \in SUBSET inHeap
    BY <1>2
  <2> HIDE DEF F
  <2> QED BY ONLY <2>2, <1>3, <1>10, <2>1, GrowthStops
<1> DEFINE S == inHeap \ r[C]
<1>12. ASSUME NEW k \in S PROVE heap.prev[k] \in S
  <2>1. k \in Keys /\ heap.prev[k] # Nil
    BY <1>2, <1>11 DEF Tops
  <2>2. heap.prev[k] \in inHeap /\ heap.prev[k] \in PointedAt(k)
    BY <1>2, <2>1 DEF Upward, PointedAt
  <2>3. heap.prev[k] \notin r[C]
    BY <1>11, <2>1, <2>2
  <2> QED BY <2>2, <2>3
<1>13. S = {}
  <2>1. S \in SUBSET inHeap
    OBVIOUS
  <2> HIDE DEF S
  <2> QED BY <1>2, <1>12, <2>1 DEF Rooted
<1> QED BY <1>8, <1>11, <1>13

LEMMA TreeIsWellLinked ==
  ASSUME HeapInv
  PROVE  WellLinked
<1>1. PICK par : Forest(heap, inHeap, par)
  BY DEF HeapInv, Tree
<1>2. /\ inHeap \subseteq Keys /\ Nil \notin Keys
      /\ Tops(heap, inHeap) = {heap.root} \ {Nil}
      /\ Downward(heap, inHeap, par) /\ Upward(heap, inHeap, par)
  BY <1>1, NilAssumption DEF HeapInv, Tree, Forest, Shape
<1>3. ASSUME NEW k \in inHeap \ {heap.root}
      PROVE  /\ PointedAt(k) = {heap.prev[k]}
             /\ ~(heap.child[heap.prev[k]] = k /\ heap.next[heap.prev[k]] = k)
  <2>1. heap.prev[k] # Nil /\ k # Nil
    BY <1>2 DEF Tops
  <2>2. heap.prev[k] \in inHeap /\ (heap.child[heap.prev[k]] = k \/ heap.next[heap.prev[k]] = k)
    BY <1>2, <2>1 DEF Upward
  <2>3. ASSUME NEW j \in inHeap, heap.child[j] = k \/ heap.next[j] = k PROVE heap.prev[k] = j
    BY <1>2, <2>1, <2>3 DEF Downward
  <2>4. PointedAt(k) = {heap.prev[k]}
    BY <2>2, <2>3 DEF PointedAt
  <2>5. ~(heap.child[heap.prev[k]] = k /\ heap.next[heap.prev[k]] = k)
    BY <1>2, <2>1, <2>2 DEF Downward
  <2> QED BY <2>4, <2>5
<1>4. heap.root # Nil => heap.prev[heap.root] = Nil /\ heap.next[heap.root] = Nil
  BY <1>2 DEF Tops, Upward
<1> QED BY <1>3, <1>4, ReachesAll DEF WellLinked

(* Every node in the heap is reached from the root, is pointed at by one   *)
(* other node, once, and points back at it: no sequence of pushes,         *)
(* updates, removals, pops and clears, of any number of moves, makes       *)
(* pairing_heap.h lose a node or close a cycle.                            *)
THEOREM HeapStaysLinked == HeapSpec => []WellLinked
  BY HeapStaysTree, TreeIsWellLinked, PTL

(* No move in the heap saves more than the root's.                         *)
LEMMA RootIsBest ==
  ASSUME HeapInv, NEW k \in inHeap
  PROVE  heap.saving[k] <= heap.saving[heap.root]
<1>1. PICK par : Forest(heap, inHeap, par)
  BY DEF HeapInv, Tree
<1>2. PICK r : r = heap.root
  OBVIOUS
<1>3. /\ inHeap \subseteq Keys /\ Nil \notin Keys
      /\ r \in inHeap /\ Tops(heap, inHeap) = {r}
      /\ Downward(heap, inHeap, par) /\ Upward(heap, inHeap, par) /\ Rooted(heap, inHeap)
      /\ Sorted(heap, inHeap, par, Nil)
  BY <1>1, <1>2, NilAssumption, TreeRoot DEF HeapInv, Forest, Shape
<1>4. \A j \in inHeap : heap.saving[j] \in Int
  BY <1>1, <1>3, SavingsAssumption DEF Forest, Shape, HeapType
<1>5. \A j \in inHeap \ {r} : /\ heap.prev[j] \in inHeap /\ par[j] \in inHeap /\ par[j] # Nil
                              /\ heap.child[heap.prev[j]] = j \/ heap.next[heap.prev[j]] = j
                              /\ heap.saving[j] <= heap.saving[par[j]]
  <2> SUFFICES ASSUME NEW j \in inHeap \ {r}
               PROVE  /\ heap.prev[j] \in inHeap /\ par[j] \in inHeap /\ par[j] # Nil
                      /\ heap.child[heap.prev[j]] = j \/ heap.next[heap.prev[j]] = j
                      /\ heap.saving[j] <= heap.saving[par[j]]
    OBVIOUS
  <2>1. heap.prev[j] # Nil
    BY <1>3 DEF Tops
  <2> QED BY <1>3, <2>1 DEF Upward, Sorted
<1> DEFINE S == {j \in inHeap \ {r} : heap.saving[par[j]] > heap.saving[r]}
<1>6. ASSUME NEW j \in S PROVE heap.prev[j] \in S
  <2>1. PICK p : p = heap.prev[j]
    OBVIOUS
  <2>2. /\ j \in inHeap \ {r} /\ heap.saving[par[j]] > heap.saving[r]
        /\ p \in inHeap /\ j # Nil
    BY <1>3, <1>5, <2>1
  <2>3. CASE heap.child[p] = j
    <3>1. par[j] = p
      BY <1>3, <2>2, <2>3 DEF Downward
    <3>2. p # r
      BY <1>4, <1>3, <2>2, <3>1
    <3>3. par[p] \in inHeap /\ heap.saving[p] <= heap.saving[par[p]]
      BY <1>5, <2>2, <3>2
    <3> QED BY <1>3, <1>4, <2>1, <2>2, <3>1, <3>2, <3>3
  <2>4. CASE heap.next[p] = j
    <3>1. par[p] = par[j]
      BY <1>3, <2>2, <2>4 DEF Downward
    <3>2. p # r
      <4>1. heap.next[r] = Nil
        BY <1>3 DEF Tops, Upward
      <4> QED BY <2>2, <2>4, <4>1
    <3> QED BY <2>1, <2>2, <3>1, <3>2
  <2> QED BY <1>5, <2>1, <2>2, <2>3, <2>4
<1>7. S = {}
  <2>1. S \in SUBSET inHeap
    OBVIOUS
  <2> HIDE DEF S
  <2> QED BY <1>3, <1>6, <2>1 DEF Rooted
<1>8. CASE k = r
  BY <1>2, <1>4, <1>8
<1>9. CASE k # r
  <2>1. par[k] \in inHeap /\ heap.saving[k] <= heap.saving[par[k]]
    BY <1>5, <1>9
  <2>2. ~(heap.saving[par[k]] > heap.saving[r])
    BY <1>7, <1>9
  <2> QED BY <1>2, <1>3, <1>4, <2>1, <2>2
<1> QED BY <1>8, <1>9

(* The heap implements the queue of moves: a push or an update puts the    *)
(* newest move of the op in it, a removal withdraws it, and pop_best hands *)
(* out a move that saves as much as any that waits.                        *)
THEOREM HeapImplementsQueue == HeapSpec => ImplementsQueue
<1>1. HeapInit => Queue!QueueInit
  BY DEF HeapInit, Queue!QueueInit
<1>2. HeapInv /\ [HeapNext]_heapVars => [Queue!QueueNext]_(Queue!queueVars)
  <2> SUFFICES ASSUME HeapInv, [HeapNext]_heapVars
               PROVE  [Queue!QueueNext]_(Queue!queueVars)
    OBVIOUS
  <2>1. ASSUME NEW k \in Keys, NEW s \in Savings, PushOrUpdate(k, s) PROVE Queue!Put(k, s)
    BY <2>1, PushKeeps DEF PushOrUpdate, Queue!Put
  <2>2. ASSUME NEW k \in Keys, Remove(k) PROVE Queue!Withdraw(k)
    BY <2>2, RemovalKeeps DEF Remove, Queue!Withdraw
  <2>3. ASSUME PopBest PROVE heap.root \in Keys /\ Queue!HandOut(heap.root)
    <3>1. heap.root \in inHeap /\ heap.root \in Keys
      BY <2>3, TreeRoot DEF PopBest, HeapInv
    <3>2. \A j \in inHeap : heap.saving[j] <= heap.saving[heap.root]
      BY RootIsBest
    <3>3. heap'.saving = heap.saving
      BY <2>3, PopKeeps
    <3> QED BY <2>3, <3>1, <3>2, <3>3 DEF PopBest, Queue!HandOut
  <2>4. ASSUME Clear PROVE Queue!Empty
    BY <2>4, ClearKeeps DEF Clear, Queue!Empty
  <2>5. CASE UNCHANGED heapVars
    BY <2>5 DEF heapVars, Queue!queueVars
  <2> QED BY <2>1, <2>2, <2>3, <2>4, <2>5 DEF HeapNext, Queue!QueueNext
<1> QED BY <1>1, <1>2, HeapStaysTree, PTL DEF HeapSpec, ImplementsQueue, Queue!QueueSpec
=============================================================================
