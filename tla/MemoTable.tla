----------------------------- MODULE MemoTable -----------------------------
(***************************************************************************)
(* What CostCache promises the search threads: a shared table of prices.   *)
(* A call that finds its key answers from the table; one that does not     *)
(* works the price out and records it, unless somebody else recorded it in *)
(* the meantime or the table takes no more.  A recorded price is never     *)
(* dropped, changed or recorded twice.                                     *)
(***************************************************************************)
CONSTANTS
  Threads,
  Hashes,      \* keys: hashes of op sets
  Price,       \* what best_cost() computes for a key
  NoKey, NoPrice

VARIABLES
  known,       \* keys with a recorded price
  doing,       \* thread -> "idle", "asking" or "pricing"
  about,       \* thread -> key of its call
  answer       \* thread -> price the call returns

memoVars == <<known, doing, about, answer>>

MemoInit ==
  /\ known = {}
  /\ doing = [t \in Threads |-> "idle"]
  /\ about = [t \in Threads |-> NoKey]
  /\ answer = [t \in Threads |-> NoPrice]

Ask(t) ==
  /\ doing[t] = "idle"
  /\ \E h \in Hashes : about' = [about EXCEPT ![t] = h]
  /\ doing' = [doing EXCEPT ![t] = "asking"]
  /\ UNCHANGED <<known, answer>>

Hit(t) ==
  /\ doing[t] = "asking"
  /\ about[t] \in known
  /\ answer' = [answer EXCEPT ![t] = Price[about[t]]]
  /\ doing' = [doing EXCEPT ![t] = "idle"]
  /\ UNCHANGED <<known, about>>

Miss(t) ==
  /\ doing[t] = "asking"
  /\ about[t] \notin known
  /\ answer' = [answer EXCEPT ![t] = Price[about[t]]]
  /\ doing' = [doing EXCEPT ![t] = "pricing"]
  /\ UNCHANGED <<known, about>>

Record(t) ==
  /\ doing[t] = "pricing"
  /\ about[t] \notin known
  /\ known' = known \cup {about[t]}
  /\ doing' = [doing EXCEPT ![t] = "idle"]
  /\ UNCHANGED <<about, answer>>

LeaveIt(t) ==
  /\ doing[t] = "pricing"
  /\ doing' = [doing EXCEPT ![t] = "idle"]
  /\ UNCHANGED <<known, about, answer>>

MemoNext == \E t \in Threads : Ask(t) \/ Hit(t) \/ Miss(t) \/ Record(t) \/ LeaveIt(t)

MemoSpec == MemoInit /\ [][MemoNext]_memoVars
=============================================================================
