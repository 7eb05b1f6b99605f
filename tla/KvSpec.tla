------------------------------- MODULE KvSpec -------------------------------
(***************************************************************************)
(* What a transaction of the datastore promises (kv_rocksdb.hh): the pairs *)
(* that it sets are written by commit_transaction all at once, and only if *)
(* whatever it got of the keys it sets is still there, or still absent.    *)
(* For these keys a commit is one atomic read-modify-write.  There are no  *)
(* snapshots and no conflicts here: values are compared when they are      *)
(* replaced.  A commit survives the end of the program, and only what is   *)
(* committed later, or an initial pair at the next opening, replaces it.   *)
(***************************************************************************)
EXTENDS Naturals

CONSTANTS
    Keys, Clients,
    InitialKv      \* the keys of the initial pairs

VARIABLES
    db, sequence,  \* the number of the write that stored each value, and of the last write
    got,           \* of each client: the values it has got of each key
    puts           \* of each client: the keys it has set

vars == <<db, sequence, got, puts>>

Absent == 0

Init ==
    /\ \E stored \in SUBSET InitialKv :
          db = [k \in Keys |-> IF k \in stored THEN 1 ELSE Absent]
    /\ sequence = 1
    /\ got = [c \in Clients |-> [k \in Keys |-> {}]]
    /\ puts = [c \in Clients |-> {}]

\* What is stored of some keys, or that it is absent, except of those the client has set.
Read(c) ==
    /\ \E keys \in SUBSET (Keys \ puts[c]) :
          got' = [got EXCEPT ![c] = [k \in Keys |->
                     IF k \in keys THEN @[k] \cup {db[k]} ELSE @[k]]]
    /\ UNCHANGED <<db, sequence, puts>>

Put(c) ==
    /\ \E k \in Keys : puts' = [puts EXCEPT ![c] = @ \cup {k}]
    /\ UNCHANGED <<db, sequence, got>>

Commit(c) ==
    /\ puts[c] # {}
    /\ \A k \in puts[c] : got[c][k] \subseteq {db[k]}
    /\ sequence' = sequence + 1
    /\ db' = [k \in Keys |-> IF k \in puts[c] THEN sequence' ELSE db[k]]
    /\ puts' = [puts EXCEPT ![c] = {}]
    /\ UNCHANGED got

Drop(c) ==
    /\ got' = [got EXCEPT ![c] = [k \in Keys |-> {}]]
    /\ puts' = [puts EXCEPT ![c] = {}]
    /\ UNCHANGED <<db, sequence>>

\* The clients are gone, and some initial pairs are put again.
Open ==
    /\ sequence' = sequence + 1
    /\ \E stored \in SUBSET InitialKv :
          db' = [k \in Keys |-> IF k \in stored THEN sequence' ELSE db[k]]
    /\ got' = [c \in Clients |-> [k \in Keys |-> {}]]
    /\ puts' = [c \in Clients |-> {}]

Next == Open \/ \E c \in Clients : Read(c) \/ Put(c) \/ Commit(c) \/ Drop(c)

Spec == Init /\ [][Next]_vars
=============================================================================
