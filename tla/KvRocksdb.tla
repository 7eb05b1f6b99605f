----------------------------- MODULE KvRocksdb -----------------------------
(***************************************************************************)
(* kv_rocksdb and its transactions (datastore/), over the optimistic       *)
(* transactions of RocksDB, which are external and modelled from the calls *)
(* the code makes: BeginTransaction and SetSnapshot, Get, Put and Commit.  *)
(*                                                                         *)
(* A value is named by the sequence number of the write that stored it, so *)
(* db maps a key to the number of its last write.  multi_get and multi_set *)
(* are several calls of Get and of Put, and add_counter does nothing.  A   *)
(* key is a sequence of bytes, which matters to list only.                 *)
(***************************************************************************)
EXTENDS Naturals, Sequences

CONSTANTS
    ByteRange,       \* a byte is a number from 0 to ByteRange - 1
    Keys,
    Starts,          \* the prefixes given to list
    InitialKv,       \* the keys of initializer_type::initial_kv
    NDEBUG,          \* the build defines NDEBUG: fabko_assert does nothing
    Clients,         \* the users of the database, one transaction each at a time
    MaxWrites,       \* bound: number of commits that are applied and of openings
    MaxTransactions  \* bound: number of transactions

Bytes == 0..(ByteRange - 1)

\* ++end.back() is undefined for an empty string: list is given no such prefix.
ASSUME KvAssumption ==
    /\ ByteRange \in Nat \ {0}
    /\ Keys \subseteq Seq(Bytes)
    /\ Starts \subseteq Seq(Bytes) \ {<< >>}
    /\ InitialKv \subseteq Keys
    /\ NDEBUG \in BOOLEAN
    /\ MaxWrites \in Nat
    /\ MaxTransactions \in Nat

VARIABLES
    db, sequence,    \* the database, and the number of its last write
    open,            \* the clients that hold a transaction
    snapshot,        \* of each client: the number its snapshot was taken at
    batch,           \* of each client: the keys its transaction has put
    tracked,         \* of each client: the number a key of the batch is checked against
    seen,            \* of each client: the numbers of the values it has got from db
    begun,           \* bound: number of transactions begun
    log,             \* history: the commits applied
    returned         \* history: the clients told true by commit, who have put nothing since

transaction == <<open, snapshot, batch, tracked, seen>>
vars == <<db, sequence, transaction, begun, log, returned>>

Absent == 0

NoBatch == [c \in Clients |-> {}]
NoNumbers == [c \in Clients |-> [k \in Keys |-> 0]]
NothingSeen == [c \in Clients |-> [k \in Keys |-> {}]]

\* The constructor opens a new database and puts the initial pairs, whatever becomes
\* of each Put.
Init ==
    /\ \E stored \in SUBSET InitialKv :
          db = [k \in Keys |-> IF k \in stored THEN 1 ELSE Absent]
    /\ sequence = 1
    /\ open = {}
    /\ snapshot = [c \in Clients |-> 0]
    /\ batch = NoBatch /\ tracked = NoNumbers /\ seen = NothingSeen
    /\ begun = 0
    /\ log = << >>
    /\ returned = {}

(***************************************************************************)
(* The program ends or crashes at any moment, and a later one opens the    *)
(* database again.  The transactions are gone, what was committed is       *)
(* there, and the constructor puts the initial pairs again, over whatever  *)
(* their keys have by then.                                                *)
(***************************************************************************)
\* Mutation: the constructor fills a database whose other keys it has deleted.
OnlyInitial(stored, n) == [k \in Keys |-> IF k \in stored THEN n ELSE Absent]
PutInitial(stored, n) == [k \in Keys |-> IF k \in stored THEN n ELSE db[k]]

Reopen ==
    /\ sequence <= MaxWrites
    /\ sequence' = sequence + 1
    /\ \E stored \in SUBSET InitialKv : db' = PutInitial(stored, sequence')
    /\ open' = {}
    /\ snapshot' = [c \in Clients |-> 0]
    /\ batch' = NoBatch /\ tracked' = NoNumbers /\ seen' = NothingSeen
    /\ returned' = {}
    /\ UNCHANGED <<begun, log>>

----------------------------------------------------------------------------
\* transaction(db): begin, and take a snapshot.
Begin(c) ==
    /\ c \notin open
    /\ begun < MaxTransactions
    /\ begun' = begun + 1
    /\ open' = open \cup {c}
    /\ snapshot' = [snapshot EXCEPT ![c] = sequence]
    /\ UNCHANGED <<db, sequence, batch, tracked, seen, log, returned>>

(***************************************************************************)
(* get(key), also through get_as and multi_get: the transaction's own      *)
(* value, or else the latest in the database, since the read options name  *)
(* no snapshot.  That a key is absent is something the client gets too, by *)
(* an exception, or as "" in a build without assertions.                   *)
(***************************************************************************)
Get(c, k) ==
    /\ c \in open
    /\ k \notin batch[c]
    /\ seen' = [seen EXCEPT ![c][k] = @ \cup {db[k]}]
    /\ UNCHANGED <<db, sequence, open, snapshot, batch, tracked, begun, log, returned>>

(***************************************************************************)
(* list(start, end, handler), and list(start, handler), which makes the    *)
(* end from the start.  The iterator goes up from the start through what   *)
(* the transaction sees, as it is when the iterator is created, and stops  *)
(* at the first key that does not precede the end, so that the client also *)
(* gets which keys of the range are absent.                                *)
(***************************************************************************)
Precedes(a, b) ==
    \E n \in 0..Len(a) :
        /\ n < Len(b)
        /\ \A i \in 1..n : a[i] = b[i]
        /\ n < Len(a) => a[n + 1] < b[n + 1]

\* Mutation: the end is not incremented.
StartAlone(start) == start
PrefixEnd(start) == [start EXCEPT ![Len(start)] = IF @ = ByteRange - 1 THEN 0 ELSE @ + 1]

Visible(c) == {k \in Keys : k \in batch[c] \/ db[k] # Absent}

InRange(start, end) == {k \in Keys : ~Precedes(k, start) /\ Precedes(k, end)}

Listed(c, start, end) == Visible(c) \cap InRange(start, end)

List(c, start, end) ==
    /\ c \in open
    /\ seen' = [seen EXCEPT ![c] = [k \in Keys |->
                   IF k \in InRange(start, end) \ batch[c] THEN @[k] \cup {db[k]} ELSE @[k]]]
    /\ UNCHANGED <<db, sequence, open, snapshot, batch, tracked, begun, log, returned>>

\* What Put has Commit check a key against: the snapshot, when there is one.
\* Mutation: SetSnapshot is not called.
LatestSequence(c) == sequence
TrackedSequence(c) == snapshot[c]

\* set(key_value), also through multi_set.
Set(c, k) ==
    /\ c \in open
    /\ tracked' = [tracked EXCEPT ![c][k] = IF k \in batch[c] THEN @ ELSE TrackedSequence(c)]
    /\ batch' = [batch EXCEPT ![c] = @ \cup {k}]
    /\ returned' = returned \ {c}
    /\ UNCHANGED <<db, sequence, open, snapshot, seen, begun, log>>

(***************************************************************************)
(* commit_transaction.  RocksDB applies the batch if none of its keys was  *)
(* written since the number it is tracked with; it may also fail for want  *)
(* of memory of older writes.  A failure throws in a build with            *)
(* assertions, and returns true in one without.  After a commit the        *)
(* transaction can be used again: its batch is empty, and its snapshot is  *)
(* still that of its beginning.  A commit of nothing succeeds.             *)
(***************************************************************************)
Written(c, n) == [k \in Keys |-> IF k \in batch[c] THEN n ELSE db[k]]

Conflicts(c) == {k \in batch[c] : tracked[c][k] < db[k]}

Commit(c) ==
    /\ c \in open
    /\ batch[c] # {}
    /\ Conflicts(c) = {}
    /\ sequence <= MaxWrites
    /\ sequence' = sequence + 1
    /\ db' = Written(c, sequence')
    /\ log' = Append(log, [from |-> snapshot[c], at |-> sequence', keys |-> batch[c]])
    /\ returned' = returned \cup {c}
    /\ batch' = [batch EXCEPT ![c] = {}]
    /\ tracked' = [tracked EXCEPT ![c] = [k \in Keys |-> 0]]
    /\ UNCHANGED <<open, snapshot, seen, begun>>

CommitNothing(c) ==
    /\ c \in open
    /\ batch[c] = {}
    /\ returned' = returned \cup {c}
    /\ UNCHANGED <<db, sequence, transaction, begun, log>>

ReturnsOnFailure == NDEBUG

\* The transaction is as before, and the client may try again or drop it.
FailCommit(c) ==
    /\ c \in open
    /\ batch[c] # {}
    /\ returned' = IF ReturnsOnFailure THEN returned \cup {c} ELSE returned
    /\ UNCHANGED <<db, sequence, transaction, begun, log>>

\* ~transaction: the batch is dropped.
Drop(c) ==
    /\ c \in open
    /\ open' = open \ {c}
    /\ snapshot' = [snapshot EXCEPT ![c] = 0]
    /\ batch' = [batch EXCEPT ![c] = {}]
    /\ tracked' = [tracked EXCEPT ![c] = [k \in Keys |-> 0]]
    /\ seen' = [seen EXCEPT ![c] = [k \in Keys |-> {}]]
    /\ returned' = returned \ {c}
    /\ UNCHANGED <<db, sequence, begun, log>>

Client(c) ==
    \/ Begin(c) \/ Commit(c) \/ CommitNothing(c) \/ FailCommit(c) \/ Drop(c)
    \/ \E k \in Keys : Get(c, k) \/ Set(c, k)
    \/ \E start \in Starts :
          List(c, start, PrefixEnd(start)) \/ \E end \in Starts : List(c, start, end)

Next == Reopen \/ \E c \in Clients : Client(c)

Spec == Init /\ [][Next]_vars

----------------------------------------------------------------------------
(***************************************************************************)
(* Type invariant.                                                         *)
(***************************************************************************)
TypeOK ==
    /\ db \in [Keys -> 0..sequence]
    /\ sequence \in 1..(MaxWrites + 1)
    /\ open \subseteq Clients
    /\ snapshot \in [Clients -> 0..sequence]
    /\ batch \in [Clients -> SUBSET Keys]
    /\ tracked \in [Clients -> [Keys -> 0..sequence]]
    /\ seen \in [Clients -> [Keys -> SUBSET (0..sequence)]]
    /\ begun \in 0..MaxTransactions
    /\ log \in Seq([from : Nat, at : Nat, keys : SUBSET Keys])
    /\ returned \subseteq open

(***************************************************************************)
(* No update is lost: when a transaction that got the value of a key and   *)
(* then put the key is committed, every value of it that it got is the one *)
(* it replaces, and the key was absent if it found it absent.  get names   *)
(* no snapshot, so this rests on the snapshot that the constructor takes   *)
(* before any get.                                                         *)
(***************************************************************************)
ReplacesWhatItSaw ==
    [][\A c \in Clients :
          log' # log /\ batch[c] # {} /\ batch'[c] = {} =>
              \A k \in batch[c] : seen[c][k] \subseteq {db[k]}]_vars

(***************************************************************************)
(* The transactions keep what KvSpec promises: snapshots and numbers make  *)
(* a commit an atomic read-modify-write of its keys, whatever the others   *)
(* commit between its reads, its writes and its end, and opening the       *)
(* database again replaces nothing but initial pairs.                      *)
(***************************************************************************)
Promise == INSTANCE KvSpec WITH got <- seen, puts <- batch

ImplementsStore == Promise!Spec

(***************************************************************************)
(* First committer wins: of two commits that write a common key, the later *)
(* one is of a transaction that began after the earlier, also when it is   *)
(* the second commit of the same transaction.                              *)
(***************************************************************************)
FirstCommitterWins ==
    \A i, j \in DOMAIN log :
        i < j /\ log[j].from < log[i].at => log[i].keys \cap log[j].keys = {}

(***************************************************************************)
(* What the assertion of commit_transaction says ("Commit Failure",        *)
(* kv_rocksdb.cpp:82): it returns true only when the commit is done, so    *)
(* that nothing that was put is left in the batch.                         *)
(***************************************************************************)
AcknowledgesApplied == \A c \in returned : batch[c] = {}

(***************************************************************************)
(* list(start, handler) gives the handler the keys that begin with start,  *)
(* those the transaction has put itself among them and no others, if the   *)
(* last byte of start is not the greatest: then it would wrap to zero, and *)
(* nothing is listed.                                                      *)
(***************************************************************************)
StartsWith(k, start) == Len(start) <= Len(k) /\ \A i \in 1..Len(start) : k[i] = start[i]

ListsPrefix ==
    \A c \in open, start \in Starts :
        Listed(c, start, PrefixEnd(start)) =
            IF start[Len(start)] = ByteRange - 1 THEN {}
            ELSE {k \in Keys : StartsWith(k, start) /\ (k \in batch[c] \/ db[k] # Absent)}
=============================================================================
