-------------------------- MODULE KvRocksdbProofs --------------------------
(***************************************************************************)
(* Theorems about KvRocksdb, for every set of keys and of clients and any  *)
(* number of transactions: first committer wins, no update is lost, and    *)
(* list gives exactly the keys with its prefix.                            *)
(***************************************************************************)
EXTENDS KvRocksdb, TLAPS

\* A client without a transaction has put and got nothing.
ClosedEmpty ==
    \A c \in Clients \ open : batch[c] = {} /\ \A k \in Keys : seen[c][k] = {}

\* Every key of a batch is checked against the transaction's snapshot.
TrackedAtSnapshot == \A c \in Clients : \A k \in batch[c] : tracked[c][k] = snapshot[c]

\* The database holds what a commit wrote, or something later.
LogStored == \A i \in DOMAIN log : \A k \in log[i].keys : log[i].at <= db[k]

\* What a transaction has got is current, or was replaced after its snapshot.
SeenCurrent ==
    \A c \in Clients, k \in Keys : \A v \in seen[c][k] : v = db[k] \/ snapshot[c] < db[k]

IInv ==
    /\ TypeOK
    /\ ClosedEmpty
    /\ TrackedAtSnapshot
    /\ LogStored
    /\ SeenCurrent
    /\ FirstCommitterWins

----------------------------------------------------------------------------
LEMMA InitIInv == Init => IInv
<1> SUFFICES ASSUME Init PROVE IInv
  OBVIOUS
<1> USE KvAssumption
<1>1. TypeOK
  <2>1. PICK stored \in SUBSET InitialKv :
            db = [k \in Keys |-> IF k \in stored THEN 1 ELSE Absent]
    BY DEF Init
  <2>2. db \in [Keys -> 0..sequence]
    BY <2>1 DEF Init, Absent
  <2> QED
    BY <2>2 DEF Init, NoBatch, NoNumbers, NothingSeen, TypeOK
<1>2. ClosedEmpty /\ TrackedAtSnapshot /\ SeenCurrent
  BY DEF Init, NoBatch, NothingSeen, ClosedEmpty, TrackedAtSnapshot, SeenCurrent
<1>3. LogStored /\ FirstCommitterWins
  BY DEF Init, LogStored, FirstCommitterWins
<1> QED
  BY <1>1, <1>2, <1>3 DEF IInv

\* A transaction begins: nothing is in it, and the database stays.
LEMMA BeginIInv ==
    ASSUME IInv, NEW c \in Clients, Begin(c)
    PROVE  IInv'
<1> USE KvAssumption DEF Begin
<1>1. TypeOK'
  BY DEF IInv, TypeOK
<1>2. ClosedEmpty'
  BY DEF IInv, ClosedEmpty
<1>3. TrackedAtSnapshot'
  BY DEF IInv, TypeOK, ClosedEmpty, TrackedAtSnapshot
<1>4. SeenCurrent'
  BY DEF IInv, TypeOK, ClosedEmpty, SeenCurrent
<1>5. LogStored' /\ FirstCommitterWins'
  BY DEF IInv, LogStored, FirstCommitterWins
<1> QED
  BY <1>1, <1>2, <1>3, <1>4, <1>5 DEF IInv

\* What get and list have in common: they get the current values of some keys.
Reads(c, read) ==
    /\ c \in open
    /\ read \subseteq Keys
    /\ seen' = [seen EXCEPT ![c] = [k \in Keys |->
                   IF k \in read THEN @[k] \cup {db[k]} ELSE @[k]]]
    /\ UNCHANGED <<db, sequence, open, snapshot, batch, tracked, begun, log, returned>>

\* A read adds current values to what has been got.
LEMMA ReadIInv ==
    ASSUME IInv, NEW c \in Clients, NEW read, Reads(c, read)
    PROVE  IInv'
<1> USE KvAssumption DEF Reads
<1>1. \A d \in Clients, k \in Keys :
          seen'[d][k] = IF d = c /\ k \in read THEN seen[d][k] \cup {db[k]} ELSE seen[d][k]
  BY DEF IInv, TypeOK
<1>2. TypeOK'
  <2>1. \A k \in read : db[k] \in 0..sequence
    BY DEF IInv, TypeOK
  <2>3. seen' \in [Clients -> [Keys -> SUBSET (0..sequence)]]
    <3>1. \A d \in Clients : seen'[d] \in [Keys -> SUBSET (0..sequence)]
      <4> TAKE d \in Clients
      <4>1. CASE d = c
        BY <4>1, <2>1 DEF IInv, TypeOK
      <4>2. CASE d # c
        BY <4>2 DEF IInv, TypeOK
      <4> QED
        BY <4>1, <4>2
    <3>2. seen' = [d \in Clients |-> seen'[d]]
      BY DEF IInv, TypeOK
    <3> QED
      BY <3>1, <3>2
  <2> QED
    BY <2>3 DEF IInv, TypeOK
<1>3. ClosedEmpty'
  BY <1>1 DEF IInv, ClosedEmpty
<1>4. SeenCurrent'
  BY <1>1 DEF IInv, SeenCurrent
<1>5. TrackedAtSnapshot' /\ LogStored' /\ FirstCommitterWins'
  BY DEF IInv, TrackedAtSnapshot, LogStored, FirstCommitterWins
<1> QED
  BY <1>2, <1>3, <1>4, <1>5 DEF IInv

LEMMA GetIInv ==
    ASSUME IInv, NEW c \in Clients, NEW k \in Keys, Get(c, k)
    PROVE  IInv'
<1>1. seen[c] \in [Keys -> SUBSET (0..sequence)]
  BY DEF IInv, TypeOK
<1>2. seen' = [seen EXCEPT ![c] = [j \in Keys |->
                  IF j \in {k} THEN @[j] \cup {db[j]} ELSE @[j]]]
  BY <1>1 DEF Get
<1>3. Reads(c, {k})
  BY <1>2 DEF Get, Reads
<1> QED
  BY <1>3, ReadIInv

LEMMA ListIInv ==
    ASSUME IInv, NEW c \in Clients, NEW start, NEW end, List(c, start, end)
    PROVE  IInv'
<1> DEFINE read == InRange(start, end) \ batch[c]
<1>1. read \in SUBSET Keys
  BY DEF InRange
<1>2. seen' = [seen EXCEPT ![c] = [k \in Keys |->
                  IF k \in read THEN @[k] \cup {db[k]} ELSE @[k]]]
  BY DEF List
<1>3. Reads(c, read)
  BY <1>1, <1>2 DEF List, Reads
<1> QED
  BY <1>3, ReadIInv

\* A key that is put is checked against the snapshot.
LEMMA SetIInv ==
    ASSUME IInv, NEW c \in Clients, NEW k \in Keys, Set(c, k)
    PROVE  IInv'
<1> USE KvAssumption DEF Set
<1>1. \A d \in Clients : tracked'[d] = IF d = c
          THEN [tracked[c] EXCEPT ![k] = IF k \in batch[c] THEN @ ELSE snapshot[c]]
          ELSE tracked[d]
  BY DEF IInv, TypeOK, TrackedSequence
<1>2. TypeOK'
  <2>1. tracked' \in [Clients -> [Keys -> 0..sequence]]
    BY DEF IInv, TypeOK, TrackedSequence
  <2>2. batch' \in [Clients -> SUBSET Keys]
    BY DEF IInv, TypeOK
  <2> QED
    BY <2>1, <2>2 DEF IInv, TypeOK
<1>3. ClosedEmpty'
  BY DEF IInv, TypeOK, ClosedEmpty
<1>4. TrackedAtSnapshot'
  <2> SUFFICES ASSUME NEW d \in Clients, NEW j \in batch'[d]
               PROVE  tracked'[d][j] = snapshot[d]
    BY DEF TrackedAtSnapshot
  <2>1. CASE d = c /\ j = k
    BY <1>1, <2>1 DEF IInv, TypeOK, TrackedAtSnapshot
  <2>2. CASE d # c \/ j # k
    <3>1. j \in batch[d] /\ j \in Keys
      BY <2>2 DEF IInv, TypeOK
    <3>2. tracked'[d][j] = tracked[d][j]
      BY <1>1, <2>2, <3>1 DEF IInv, TypeOK
    <3> QED
      BY <3>1, <3>2 DEF IInv, TrackedAtSnapshot
  <2> QED
    BY <2>1, <2>2
<1>5. SeenCurrent' /\ LogStored' /\ FirstCommitterWins'
  BY DEF IInv, SeenCurrent, LogStored, FirstCommitterWins
<1> QED
  BY <1>2, <1>3, <1>4, <1>5 DEF IInv

\* A batch is applied: its keys get a number above every snapshot, and none of them
\* was written after the snapshot.
LEMMA CommitIInv ==
    ASSUME IInv, NEW c \in Clients, Commit(c)
    PROVE  IInv'
<1> USE KvAssumption DEF Commit
<1> DEFINE entry == [from |-> snapshot[c], at |-> sequence', keys |-> batch[c]]
<1>1. /\ sequence \in Nat /\ sequence' = sequence + 1
      /\ db \in [Keys -> 0..sequence] /\ snapshot \in [Clients -> 0..sequence]
      /\ batch[c] \subseteq Keys
  BY DEF IInv, TypeOK
<1>2. \A k \in Keys : db'[k] = IF k \in batch[c] THEN sequence + 1 ELSE db[k]
  BY <1>1 DEF Written
<1>3. \A k \in batch[c] : db[k] <= snapshot[c]
  BY <1>1 DEF IInv, TypeOK, Conflicts, TrackedAtSnapshot
<1>4. /\ log \in Seq([from : Nat, at : Nat, keys : SUBSET Keys])
      /\ log' = Append(log, entry)
  BY DEF IInv, TypeOK
<1>5. entry \in [from : Nat, at : Nat, keys : SUBSET Keys]
  BY <1>1
<1>6. /\ Len(log') = Len(log) + 1
      /\ DOMAIN log' = 1..(Len(log) + 1)
      /\ \A i \in DOMAIN log : log'[i] = log[i]
      /\ log'[Len(log) + 1] = entry
      /\ DOMAIN log = 1..Len(log) /\ Len(log) \in Nat
  <2> HIDE DEF entry
  <2> QED
    BY <1>4, <1>5
<1>a. \A i \in DOMAIN log : log[i].at \in Nat /\ log[i].keys \subseteq Keys
  <2>1. \A i \in DOMAIN log : log[i] \in [from : Nat, at : Nat, keys : SUBSET Keys]
    <3> DEFINE Entries == [from : Nat, at : Nat, keys : SUBSET Keys]
    <3>1. log \in Seq(Entries) /\ DOMAIN log = 1..Len(log)
      BY <1>4, <1>6
    <3> HIDE DEF Entries
    <3>2. \A i \in DOMAIN log : log[i] \in Entries
      BY <3>1
    <3> QED
      BY <3>2 DEF Entries
  <2> QED
    BY <2>1
<1>7. TypeOK'
  <2>1. db' \in [Keys -> 0..sequence']
    BY <1>1, <1>2 DEF Written
  <2>2. /\ snapshot' \in [Clients -> 0..sequence']
        /\ batch' \in [Clients -> SUBSET Keys]
    BY <1>1 DEF IInv, TypeOK
  <2>3. tracked' \in [Clients -> [Keys -> 0..sequence']]
    <3>1. \A d \in Clients : tracked'[d] \in [Keys -> 0..sequence']
      BY <1>1 DEF IInv, TypeOK
    <3>2. tracked' = [d \in Clients |-> tracked'[d]]
      BY DEF IInv, TypeOK
    <3> QED
      BY <3>1, <3>2
  <2>4. seen' \in [Clients -> [Keys -> SUBSET (0..sequence')]]
    <3>1. 0..sequence \subseteq 0..sequence'
      BY <1>1
    <3> QED
      BY <3>1 DEF IInv, TypeOK
  <2>5. sequence' \in 1..(MaxWrites + 1)
    BY <1>1 DEF IInv, TypeOK
  <2>6. log' \in Seq([from : Nat, at : Nat, keys : SUBSET Keys])
    <3> HIDE DEF entry
    <3> QED
      BY <1>4, <1>5
  <2>7. returned' \subseteq open'
    BY DEF IInv, TypeOK
  <2> QED
    BY <2>1, <2>2, <2>3, <2>4, <2>5, <2>6, <2>7 DEF IInv, TypeOK
<1>8. ClosedEmpty'
  BY DEF IInv, TypeOK, ClosedEmpty
<1>9. TrackedAtSnapshot'
  BY DEF IInv, TypeOK, TrackedAtSnapshot
<1>10. LogStored'
  <2>1. ASSUME NEW i \in DOMAIN log', NEW k \in log'[i].keys
        PROVE  log'[i].at <= db'[k]
    <3>1. CASE i = Len(log) + 1
      BY <1>1, <1>2, <1>6, <3>1
    <3>2. CASE i # Len(log) + 1
      <4>1. i \in DOMAIN log /\ log'[i] = log[i]
        BY <1>6, <3>2
      <4>2. k \in Keys /\ log[i].at \in Nat
        BY <1>a, <4>1
      <4>3. log[i].at <= db[k]
        BY <4>1 DEF IInv, LogStored
      <4>4. db[k] <= db'[k] /\ db[k] \in Nat /\ db'[k] \in Nat
        BY <1>1, <1>2, <4>2
      <4> QED
        BY <4>1, <4>2, <4>3, <4>4
    <3> QED
      BY <3>1, <3>2
  <2> QED
    BY <2>1 DEF LogStored
<1>11. SeenCurrent'
  <2> SUFFICES ASSUME NEW d \in Clients, NEW k \in Keys, NEW v \in seen[d][k]
               PROVE  v = db'[k] \/ snapshot[d] < db'[k]
    BY DEF SeenCurrent
  <2>1. v = db[k] \/ snapshot[d] < db[k]
    BY DEF IInv, SeenCurrent
  <2> QED
    BY <1>1, <1>2, <2>1
<1>12. FirstCommitterWins'
  <2> SUFFICES ASSUME NEW i \in DOMAIN log', NEW j \in DOMAIN log',
                      i < j, log'[j].from < log'[i].at
               PROVE  log'[i].keys \cap log'[j].keys = {}
    BY DEF FirstCommitterWins
  <2>1. i \in DOMAIN log /\ log'[i] = log[i]
    BY <1>6
  <2>2. CASE j # Len(log) + 1
    <3>1. j \in DOMAIN log /\ log'[j] = log[j]
      BY <1>6, <2>2
    <3> QED
      BY <2>1, <3>1 DEF IInv, FirstCommitterWins
  <2>3. CASE j = Len(log) + 1
    <3> SUFFICES ASSUME NEW k \in log[i].keys, k \in batch[c] PROVE FALSE
      BY <1>6, <2>1, <2>3
    <3>1. log[i].at <= db[k] /\ log[i].at \in Nat
      BY <1>a, <2>1 DEF IInv, LogStored
    <3>2. snapshot[c] < log[i].at
      BY <1>6, <2>1, <2>3
    <3> QED
      BY <1>1, <1>3, <3>1, <3>2
  <2> QED
    BY <2>2, <2>3
<1> QED
  BY <1>7, <1>8, <1>9, <1>10, <1>11, <1>12 DEF IInv

\* A commit that fails, and one of nothing, leave the transaction and the database.
LEMMA OtherCommitIInv ==
    ASSUME IInv, NEW c \in Clients, CommitNothing(c) \/ FailCommit(c)
    PROVE  IInv'
<1> USE KvAssumption
<1>1. UNCHANGED <<db, sequence, transaction, begun, log>> /\ returned' \subseteq open
  BY DEF CommitNothing, FailCommit, IInv, TypeOK
<1>2. TypeOK'
  BY <1>1 DEF IInv, TypeOK, transaction
<1>3. ClosedEmpty' /\ TrackedAtSnapshot' /\ LogStored' /\ SeenCurrent' /\ FirstCommitterWins'
  BY <1>1 DEF IInv, ClosedEmpty, TrackedAtSnapshot, LogStored, SeenCurrent,
              FirstCommitterWins, transaction
<1> QED
  BY <1>2, <1>3 DEF IInv

\* Another opening: no transaction is left, and the initial pairs get a number above
\* those of all commits.
LEMMA ReopenIInv ==
    ASSUME IInv, Reopen
    PROVE  IInv'
<1> USE KvAssumption DEF Reopen
<1>1. /\ sequence \in Nat /\ sequence' = sequence + 1 /\ sequence' \in 1..(MaxWrites + 1)
      /\ db \in [Keys -> 0..sequence]
  BY DEF IInv, TypeOK
<1>2. PICK stored \in SUBSET InitialKv : db' = PutInitial(stored, sequence')
  OBVIOUS
<1>3. /\ db' \in [Keys -> 0..sequence']
      /\ \A k \in Keys : db[k] <= db'[k]
  BY <1>1, <1>2 DEF PutInitial
<1>4. TypeOK'
  BY <1>1, <1>3 DEF IInv, TypeOK, NoBatch, NoNumbers, NothingSeen
<1>5. ClosedEmpty' /\ TrackedAtSnapshot' /\ SeenCurrent'
  BY DEF NoBatch, NothingSeen, ClosedEmpty, TrackedAtSnapshot, SeenCurrent
<1>6. LogStored'
  <2> DEFINE Entries == [from : Nat, at : Nat, keys : SUBSET Keys]
  <2>1. log \in Seq(Entries)
    BY DEF IInv, TypeOK
  <2> SUFFICES ASSUME NEW i \in DOMAIN log, NEW k \in log[i].keys
               PROVE  log[i].at <= db'[k]
    BY DEF LogStored
  <2>2. log[i] \in Entries
    <3> HIDE DEF Entries
    <3> QED
      BY <2>1
  <2>3. k \in Keys /\ log[i].at \in Nat /\ log[i].at <= db[k]
    BY <2>2 DEF IInv, LogStored
  <2> QED
    BY <1>1, <1>3, <2>3
<1>7. FirstCommitterWins'
  BY DEF IInv, FirstCommitterWins
<1> QED
  BY <1>4, <1>5, <1>6, <1>7 DEF IInv

LEMMA DropIInv ==
    ASSUME IInv, NEW c \in Clients, Drop(c)
    PROVE  IInv'
<1> USE KvAssumption DEF Drop
<1>1. TypeOK'
  <2>1. /\ tracked' \in [Clients -> [Keys -> 0..sequence]]
        /\ snapshot' \in [Clients -> 0..sequence]
        /\ batch' \in [Clients -> SUBSET Keys]
        /\ seen' \in [Clients -> [Keys -> SUBSET (0..sequence)]]
    BY DEF IInv, TypeOK
  <2> QED
    BY <2>1 DEF IInv, TypeOK
<1>2. ClosedEmpty'
  BY DEF IInv, TypeOK, ClosedEmpty
<1>3. TrackedAtSnapshot' /\ SeenCurrent'
  BY DEF IInv, TypeOK, TrackedAtSnapshot, SeenCurrent
<1>4. LogStored' /\ FirstCommitterWins'
  BY DEF IInv, LogStored, FirstCommitterWins
<1> QED
  BY <1>1, <1>2, <1>3, <1>4 DEF IInv

LEMMA StepIInv == IInv /\ [Next]_vars => IInv'
<1> SUFFICES ASSUME IInv, [Next]_vars PROVE IInv'
  OBVIOUS
<1>1. CASE Next
  BY <1>1, ReopenIInv, BeginIInv, CommitIInv, OtherCommitIInv, DropIInv, GetIInv, SetIInv,
     ListIInv DEF Next, Client
<1>2. CASE UNCHANGED vars
  <2>1. TypeOK'
    BY <1>2 DEF vars, transaction, IInv, TypeOK
  <2> QED
    BY <1>2, <2>1 DEF vars, transaction, IInv, ClosedEmpty, TrackedAtSnapshot, LogStored,
                      SeenCurrent, FirstCommitterWins
<1> QED
  BY <1>1, <1>2

----------------------------------------------------------------------------
(***************************************************************************)
(* The variables of the transactions keep their types: nothing that is     *)
(* stored or was read has a number above that of the last write.           *)
(***************************************************************************)
THEOREM TypeCorrect == Spec => []TypeOK
<1>1. IInv => TypeOK
  BY DEF IInv
<1> QED
  BY InitIInv, StepIInv, <1>1, PTL DEF Spec

(***************************************************************************)
(* Of two commits that write a common key the later is of a transaction    *)
(* that began after the earlier: commit_transaction checks every key of    *)
(* the batch against the snapshot that the constructor took.               *)
(***************************************************************************)
THEOREM Isolation == Spec => []FirstCommitterWins
<1>1. IInv => FirstCommitterWins
  BY DEF IInv
<1> QED
  BY InitIInv, StepIInv, <1>1, PTL DEF Spec

\* A batch whose keys pass the check of their numbers replaces what was got of them.
LEMMA CommitReplaces ==
    ASSUME IInv, NEW c \in Clients, Commit(c)
    PROVE  \A k \in batch[c] : seen[c][k] \subseteq {db[k]}
<1> SUFFICES ASSUME NEW k \in batch[c], NEW v \in seen[c][k] PROVE v = db[k]
  OBVIOUS
<1>1. k \in Keys /\ db[k] \in Nat /\ snapshot[c] \in Nat
  BY DEF IInv, TypeOK
<1>2. db[k] <= snapshot[c]
  BY <1>1 DEF Commit, Conflicts, IInv, TrackedAtSnapshot
<1>3. v = db[k] \/ snapshot[c] < db[k]
  BY <1>1 DEF IInv, SeenCurrent
<1> QED
  BY <1>1, <1>2, <1>3

(***************************************************************************)
(* No update is lost: although get reads the latest value instead of the   *)
(* snapshot's, a commit replaces just the values its transaction got, or   *)
(* keys it found absent.                                                   *)
(***************************************************************************)
THEOREM NoLostUpdate == Spec => ReplacesWhatItSaw
<1>1. ASSUME IInv, Next PROVE
        \A c \in Clients :
            log' # log /\ batch[c] # {} /\ batch'[c] = {} =>
                \A k \in batch[c] : seen[c][k] \subseteq {db[k]}
  <2> SUFFICES ASSUME NEW c \in Clients, log' # log, batch[c] # {}, batch'[c] = {}
               PROVE  \A k \in batch[c] : seen[c][k] \subseteq {db[k]}
    OBVIOUS
  <2>2. PICK d \in Clients : Commit(d)
    BY <1>1 DEF Next, Client, Reopen, Begin, CommitNothing, FailCommit, Drop, Get, Set, List
  <2>3. d = c
    BY <1>1, <2>2 DEF Commit, IInv, TypeOK
  <2> QED
    BY <1>1, <2>2, <2>3, CommitReplaces
<1>2. ASSUME IInv, [Next]_vars PROVE
        [\A c \in Clients :
            log' # log /\ batch[c] # {} /\ batch'[c] = {} =>
                \A k \in batch[c] : seen[c][k] \subseteq {db[k]}]_vars
  BY <1>1, <1>2
<1> QED
  BY InitIInv, StepIInv, <1>2, PTL DEF Spec, ReplacesWhatItSaw

----------------------------------------------------------------------------
(***************************************************************************)
(* Every step is one of KvSpec, or leaves its variables as they are.       *)
(***************************************************************************)
LEMMA InitPromise == Init => Promise!Init
BY DEF Init, NoBatch, NothingSeen, Promise!Init, Absent, Promise!Absent

LEMMA ReadPromise ==
    ASSUME IInv, NEW c \in Clients, NEW read, Reads(c, read), read \cap batch[c] = {}
    PROVE  Promise!Read(c)
<1>1. read \in SUBSET (Keys \ batch[c])
  BY DEF Reads
<1> QED
  BY <1>1 DEF Reads, Promise!Read

LEMMA StepPromise ==
    ASSUME IInv, [Next]_vars
    PROVE  [Promise!Next]_(Promise!vars)
<1> SUFFICES ASSUME ~UNCHANGED Promise!vars PROVE Promise!Next
  OBVIOUS
<1>1. ASSUME NEW c \in Clients, NEW k \in Keys, Get(c, k) PROVE Promise!Read(c)
  <2>1. seen[c] \in [Keys -> SUBSET (0..sequence)]
    BY DEF IInv, TypeOK
  <2>2. seen' = [seen EXCEPT ![c] = [j \in Keys |->
                    IF j \in {k} THEN @[j] \cup {db[j]} ELSE @[j]]]
    BY <1>1, <2>1 DEF Get
  <2>3. Reads(c, {k}) /\ {k} \cap batch[c] = {}
    BY <1>1, <2>2 DEF Get, Reads
  <2> QED
    BY <2>3, ReadPromise
<1>2. ASSUME NEW c \in Clients, NEW start, NEW end, List(c, start, end) PROVE Promise!Read(c)
  <2> DEFINE read == InRange(start, end) \ batch[c]
  <2>1. read \in SUBSET Keys
    BY DEF InRange
  <2>2. seen' = [seen EXCEPT ![c] = [k \in Keys |->
                    IF k \in read THEN @[k] \cup {db[k]} ELSE @[k]]]
    BY <1>2 DEF List
  <2>3. read \cap batch[c] = {}
    OBVIOUS
  <2> HIDE DEF read
  <2>4. Reads(c, read)
    BY <1>2, <2>1, <2>2 DEF List, Reads
  <2> QED
    BY <2>3, <2>4, ReadPromise
<1>3. ASSUME NEW c \in Clients, NEW k \in Keys, Set(c, k) PROVE Promise!Put(c)
  BY <1>3 DEF Set, Promise!Put
<1>4. ASSUME NEW c \in Clients, Commit(c) PROVE Promise!Commit(c)
  <2>1. \A k \in batch[c] : seen[c][k] \subseteq {db[k]}
    BY <1>4, CommitReplaces
  <2>2. db' = [k \in Keys |-> IF k \in batch[c] THEN sequence' ELSE db[k]]
    BY <1>4 DEF Commit, Written
  <2> QED
    BY <1>4, <2>1, <2>2 DEF Commit, Promise!Commit
<1>5. ASSUME NEW c \in Clients, Drop(c) PROVE Promise!Drop(c)
  BY <1>5 DEF Drop, Promise!Drop
<1>6. ASSUME NEW c \in Clients, Begin(c) \/ CommitNothing(c) \/ FailCommit(c)
      PROVE  UNCHANGED Promise!vars
  BY <1>6 DEF Begin, CommitNothing, FailCommit, transaction, Promise!vars
<1>7. ~UNCHANGED vars
  BY DEF vars, transaction, Promise!vars
<1>8. ASSUME Reopen PROVE Promise!Open
  BY <1>8 DEF Reopen, PutInitial, NoBatch, NothingSeen, Promise!Open
<1> QED
  BY <1>1, <1>2, <1>3, <1>4, <1>5, <1>6, <1>7, <1>8 DEF Next, Client, Promise!Next

(***************************************************************************)
(* The store of KvSpec is implemented: a commit is one atomic read-modify- *)
(* write of the keys it sets, and no other step changes the database than  *)
(* an opening, which puts initial pairs.                                   *)
(***************************************************************************)
THEOREM Implements == Spec => ImplementsStore
BY InitIInv, StepIInv, InitPromise, StepPromise, PTL DEF Spec, Promise!Spec, ImplementsStore

----------------------------------------------------------------------------
(***************************************************************************)
(* The bounds of list(start, handler): a key is not before start and is    *)
(* before the end that is made of it exactly if it begins with start, and  *)
(* the last byte of start can be incremented.                              *)
(***************************************************************************)
LEMMA PrefixRange ==
    ASSUME NEW k \in Seq(Bytes), NEW start \in Seq(Bytes) \ {<< >>}
    PROVE  (~Precedes(k, start) /\ Precedes(k, PrefixEnd(start)))
             <=> (start[Len(start)] # ByteRange - 1 /\ StartsWith(k, start))
<1> DEFINE m == Len(start)
           e == PrefixEnd(start)
           top == ByteRange - 1
<1>1. /\ m \in Nat \ {0} /\ Len(k) \in Nat /\ top \in Nat
      /\ \A i \in 1..m : start[i] \in 0..top
      /\ \A i \in 1..Len(k) : k[i] \in 0..top
  BY KvAssumption DEF Bytes
<1>2. /\ Len(e) = m
      /\ \A i \in 1..m : i # m => e[i] = start[i]
      /\ e[m] = IF start[m] = top THEN 0 ELSE start[m] + 1
  BY KvAssumption DEF PrefixEnd, Bytes
<1> HIDE DEF m, e, top
<1>3. ASSUME start[m] # top, StartsWith(k, start)
      PROVE  ~Precedes(k, start) /\ Precedes(k, e)
  <2>1. m <= Len(k) /\ \A i \in 1..m : k[i] = start[i]
    BY <1>3 DEF StartsWith, m
  <2>2. ~Precedes(k, start)
    <3> SUFFICES ASSUME NEW n \in 0..Len(k), n < m, k[n + 1] < start[n + 1] PROVE FALSE
      BY <1>1, <2>1 DEF Precedes, m
    <3>1. n + 1 \in 1..m
      BY <1>1
    <3> QED
      BY <1>1, <2>1, <3>1
  <2>3. Precedes(k, e)
    <3>1. m - 1 \in 0..Len(k) /\ m - 1 < Len(e) /\ \A i \in 1..(m - 1) : k[i] = e[i]
      BY <1>1, <1>2, <2>1
    <3>2. k[(m - 1) + 1] < e[(m - 1) + 1]
      BY <1>1, <1>2, <1>3, <2>1
    <3> QED
      BY <3>1, <3>2 DEF Precedes
  <2> QED
    BY <2>2, <2>3
<1>4. ASSUME ~Precedes(k, start), Precedes(k, e)
      PROVE  start[m] # top /\ StartsWith(k, start)
  <2>1. PICK n \in 0..Len(k) :
            /\ n < m
            /\ \A i \in 1..n : k[i] = e[i]
            /\ n < Len(k) => k[n + 1] < e[n + 1]
    BY <1>2, <1>4 DEF Precedes
  <2>2. \A i \in 1..n : k[i] = start[i]
    <3> TAKE i \in 1..n
    <3>1. i \in 1..m /\ i # m
      BY <1>1, <2>1
    <3> QED
      BY <1>2, <2>1, <3>1
  <2>3. n < Len(k) /\ ~(k[n + 1] < start[n + 1])
    BY <1>1, <1>4, <2>1, <2>2 DEF Precedes, m
  <2>4. n = m - 1
    <3> SUFFICES ASSUME n # m - 1 PROVE FALSE
      OBVIOUS
    <3>1. n + 1 \in 1..m /\ n + 1 # m
      BY <1>1, <2>1
    <3>2. e[n + 1] = start[n + 1]
      BY <1>2, <3>1
    <3> QED
      BY <2>1, <2>3, <3>2
  <2>5. k[m] < e[m] /\ ~(k[m] < start[m]) /\ m <= Len(k)
    BY <1>1, <2>1, <2>3, <2>4
  <2>6. start[m] # top /\ k[m] = start[m]
    BY <1>1, <1>2, <2>5
  <2>7. \A i \in 1..m : k[i] = start[i]
    BY <1>1, <2>2, <2>4, <2>6
  <2> QED
    BY <2>5, <2>6, <2>7 DEF StartsWith, m
<1> QED
  BY <1>3, <1>4 DEF m, e, top

(***************************************************************************)
(* list(start, handler) lists the keys that begin with start, whatever the *)
(* keys, the batch and the database are.                                   *)
(***************************************************************************)
THEOREM ListCorrect == Spec => []ListsPrefix
<1>1. TypeOK => ListsPrefix
  <2> SUFFICES ASSUME TypeOK, NEW c \in open, NEW start \in Starts
               PROVE  Listed(c, start, PrefixEnd(start)) =
                        IF start[Len(start)] = ByteRange - 1 THEN {}
                        ELSE {k \in Keys : StartsWith(k, start) /\
                                 (k \in batch[c] \/ db[k] # Absent)}
    BY DEF ListsPrefix
  <2>1. \A k \in Keys :
           (~Precedes(k, start) /\ Precedes(k, PrefixEnd(start)))
             <=> (start[Len(start)] # ByteRange - 1 /\ StartsWith(k, start))
    BY KvAssumption, PrefixRange
  <2> QED
    BY <2>1 DEF Listed, InRange, Visible
<1> QED
  BY TypeCorrect, <1>1, PTL
=============================================================================
