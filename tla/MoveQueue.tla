----------------------------- MODULE MoveQueue -----------------------------
(***************************************************************************)
(* What an FM pass expects of the heap its candidate moves wait in: one    *)
(* move per op, the newest, and a pop that hands out a best one.           *)
(***************************************************************************)
EXTENDS Integers

CONSTANTS
  Keys,      \* op indices
  Savings,   \* what a move may save
  Nobody     \* no key

VARIABLES
  waiting,   \* the keys with a move in the queue
  worth,     \* key -> saving of its move
  got        \* the key of the move handed out last

queueVars == <<waiting, worth, got>>

QueueInit == /\ waiting = {}
             /\ worth \in [Keys -> Savings]
             /\ got = Nobody

Put(k, s) == /\ waiting' = waiting \cup {k}
             /\ worth' = [worth EXCEPT ![k] = s]
             /\ got' = got

Withdraw(k) == waiting' = waiting \ {k} /\ UNCHANGED <<worth, got>>

HandOut(k) == /\ k \in waiting
              /\ \A j \in waiting : worth[j] <= worth[k]
              /\ waiting' = waiting \ {k}
              /\ got' = k
              /\ worth' = worth

Empty == waiting' = {} /\ UNCHANGED <<worth, got>>

QueueNext == \/ \E k \in Keys : \/ \E s \in Savings : Put(k, s)
                                \/ Withdraw(k)
                                \/ HandOut(k)
             \/ Empty

QueueSpec == QueueInit /\ [][QueueNext]_queueVars
=============================================================================
