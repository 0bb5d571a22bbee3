----------------------------- MODULE AuditChain -----------------------------
(***************************************************************************)
(* Ledger.record and Ledger.verify_chain of core/ledger.py: threads of one *)
(* server process append hash-chained rows to the per-tenant audit trail   *)
(* over one shared SQLite connection, under Ledger._lock.                  *)
(*                                                                         *)
(* record() is four steps: take the lock, SELECT the tenant's last row,    *)
(* INSERT, COMMIT.  A row is visible on the shared connection as soon as   *)
(* it is inserted and survives a crash only once a commit succeeded.       *)
(* Nothing in the ledger ever calls rollback(): when a statement or the    *)
(* commit raises, SQLite either keeps the transaction open (SQLITE_BUSY, a *)
(* constraint) or has rolled it back itself (disk full, I/O error); in the *)
(* first case the rows stay visible and the next commit of any thread,     *)
(* also of meter(), store_decision() or remember_idempotency(), makes them *)
(* durable.                                                                *)
(***************************************************************************)
EXTENDS Naturals, Sequences

CONSTANTS
  Tenants,    \* tenant codes
  Threads,    \* request threads of the ThreadingHTTPServer
  Events,     \* what is recorded: event type, actor, correlation id, payload
  NotJson,    \* what a row tells whose payload column is no JSON text
  NoThread,   \* the holder of a free lock
  MaxRows     \* bound: rows per tenant

ASSUME ConstantsAssumption ==
  /\ Tenants # {} /\ Events # {}
  /\ NotJson \notin Events
  /\ NoThread \notin Threads
  /\ MaxRows \in Nat

VARIABLES
  rows,          \* rows[t]: what a SELECT on the connection returns, by sequence
  durable,       \* durable[t]: how many of those rows have been committed
  lock,          \* the thread that holds Ledger._lock
  pc,            \* the next step of a thread's record()
  request,       \* the arguments of that record()
  link,          \* what its SELECT computed
  acknowledged   \* the receipts record() has returned

vars == <<rows, durable, lock, pc, request, link, acknowledged>>

-----------------------------------------------------------------------------
(* Rows and the chain.  SHA-256 is taken to be injective, so a hash is      *)
(* represented by what it commits to: the bodies of the row and of all its  *)
(* predecessors.                                                            *)

Bodies == [tenant : Tenants, sequence : Nat, event : Events]
Hashes == Seq(Bodies)
GENESIS == << >>

\* record() writes JSON only; another program may write what it likes.
Payloads == Events \cup {NotJson}

Rows == [sequence : Nat, event : Payloads, previous_hash : Hashes, entry_hash : Hashes]
Requests == [tenant : Tenants, event : Events]
Links == [sequence : Nat, previous_hash : Hashes]

Body(t, sequence, event) ==
  [tenant |-> t, sequence |-> sequence, event |-> event]

Hash(previous_hash, body) == Append(previous_hash, body)

\* The row that record() inserts for a request, given what it selected.
RowFor(r, l) ==
  [sequence      |-> l.sequence,
   event         |-> r.event,
   previous_hash |-> l.previous_hash,
   entry_hash    |-> Hash(l.previous_hash, Body(r.tenant, l.sequence, r.event))]

\* The sequence number and previous hash of the row that comes next.
NextLink(trail) ==
  IF trail = << >>
  THEN [sequence |-> 1, previous_hash |-> GENESIS]
  ELSE [sequence      |-> trail[Len(trail)].sequence + 1,
        previous_hash |-> trail[Len(trail)].entry_hash]

\* UNIQUE (tenant_code, sequence)
Unique(trail, sequence) == \A i \in 1 .. Len(trail) : trail[i].sequence # sequence

\* verify_chain goes through the rows in order and stops at the first broken
\* one: its payload cannot be parsed, or its own check fails.
ExpectedPrevious(trail, i) == IF i = 1 THEN GENESIS ELSE trail[i - 1].entry_hash

\* Mutant: the links are compared, the hashes are not recomputed.
Broken_LinksOnly(t, trail) ==
  {i \in 1 .. Len(trail) : trail[i].previous_hash # ExpectedPrevious(trail, i)}

Broken(t, trail) ==
  {i \in 1 .. Len(trail) :
     \/ trail[i].event = NotJson
     \/ trail[i].previous_hash # ExpectedPrevious(trail, i)
     \/ trail[i].entry_hash #
          Hash(ExpectedPrevious(trail, i), Body(t, trail[i].sequence, trail[i].event))}

StopsAt(t, trail) ==
  CHOOSE i \in Broken(t, trail) : \A j \in Broken(t, trail) : i <= j

\* It ends in one of three ways.  It returns "intact"; it returns "not intact"
\* with the number of the row it stopped at; or json.loads raises at that row,
\* and the caller is answered 500 without a number.
Intact(t, trail) == Broken(t, trail) = {}
Raises(t, trail) == ~Intact(t, trail) /\ trail[StopsAt(t, trail)].event = NotJson
ReportsBreak(t, trail) == ~Intact(t, trail) /\ ~Raises(t, trail)

\* Mutant: the row's position is reported, not its sequence number.
BrokenAt_Position(t, trail) == StopsAt(t, trail)

\* broken_at_sequence of a trail with a reported break
BrokenAt(t, trail) == trail[StopsAt(t, trail)].sequence

-----------------------------------------------------------------------------
\* What is left of a trail after a crash or a rollback.
Committed(t) == SubSeq(rows[t], 1, durable[t])
OnDisk == [t \in Tenants |-> Committed(t)]
AllRows == [t \in Tenants |-> Len(rows[t])]

AnyRequest == CHOOSE r \in Requests : TRUE
NoLink == [sequence |-> 0, previous_hash |-> GENESIS]

Init ==
  /\ rows = [t \in Tenants |-> << >>]
  /\ durable = [t \in Tenants |-> 0]
  /\ lock = NoThread
  /\ pc = [th \in Threads |-> "idle"]
  /\ request = [th \in Threads |-> AnyRequest]
  /\ link = [th \in Threads |-> NoLink]
  /\ acknowledged = {}

\* `with self._lock:` ends, however the block is left.
Release(th) ==
  /\ lock' = NoThread
  /\ pc' = [pc EXCEPT ![th] = "idle"]
  /\ request' = [request EXCEPT ![th] = AnyRequest]
  /\ link' = [link EXCEPT ![th] = NoLink]

\* Mutant: the rollback takes committed rows away.
AfterError_LosesCommitted == rows' = rows \/ rows' = [t \in Tenants |-> << >>]

\* The open transaction after an error: still open, or rolled back by SQLite.
AfterError == rows' = rows \/ rows' = OnDisk

\* Mutant: record() does not wait for the lock.
Acquire_NoLock(th, r) ==
  /\ pc[th] = "idle"
  /\ Len(rows[r.tenant]) < MaxRows
  /\ lock' = th
  /\ pc' = [pc EXCEPT ![th] = "select"]
  /\ request' = [request EXCEPT ![th] = r]
  /\ UNCHANGED <<rows, durable, link, acknowledged>>

Acquire(th, r) ==
  /\ pc[th] = "idle"
  /\ lock = NoThread
  /\ Len(rows[r.tenant]) < MaxRows
  /\ lock' = th
  /\ pc' = [pc EXCEPT ![th] = "select"]
  /\ request' = [request EXCEPT ![th] = r]
  /\ UNCHANGED <<rows, durable, link, acknowledged>>

Select(th) ==
  /\ pc[th] = "select"
  /\ pc' = [pc EXCEPT ![th] = "insert"]
  /\ link' = [link EXCEPT ![th] = NextLink(rows[request[th].tenant])]
  /\ UNCHANGED <<rows, durable, lock, request, acknowledged>>

\* The INSERT succeeds, or the UNIQUE constraint raises IntegrityError.
Insert(th) ==
  /\ pc[th] = "insert"
  /\ LET t == request[th].tenant
     IN IF Unique(rows[t], link[th].sequence)
        THEN /\ rows' = [rows EXCEPT ![t] = Append(@, RowFor(request[th], link[th]))]
             /\ pc' = [pc EXCEPT ![th] = "commit"]
             /\ UNCHANGED <<lock, request, link>>
        ELSE /\ Release(th)
             /\ UNCHANGED rows
  /\ UNCHANGED <<durable, acknowledged>>

InsertFails(th) ==
  /\ pc[th] = "insert"
  /\ AfterError
  /\ Release(th)
  /\ UNCHANGED <<durable, acknowledged>>

\* Mutant: the caller is told the number of the row before.
Receipt_OffByOne(r, l) == [tenant |-> r.tenant, sequence |-> l.sequence - 1, event |-> r.event]

Receipt(r, l) == [tenant |-> r.tenant, sequence |-> l.sequence, event |-> r.event]

\* Mutant: record() returns without a commit.
Commit_Forgotten(th) ==
  /\ pc[th] = "commit"
  /\ acknowledged' = acknowledged \cup {Receipt(request[th], link[th])}
  /\ Release(th)
  /\ UNCHANGED <<rows, durable>>

Commit(th) ==
  /\ pc[th] = "commit"
  /\ durable' = AllRows
  /\ acknowledged' = acknowledged \cup {Receipt(request[th], link[th])}
  /\ Release(th)
  /\ UNCHANGED rows

\* Mutant: the exception leaves the lock taken.
CommitFails_KeepsLock(th) ==
  /\ pc[th] = "commit"
  /\ AfterError
  /\ pc' = [pc EXCEPT ![th] = "idle"]
  /\ UNCHANGED <<durable, lock, request, link, acknowledged>>

CommitFails(th) ==
  /\ pc[th] = "commit"
  /\ AfterError
  /\ Release(th)
  /\ UNCHANGED <<durable, acknowledged>>

\* meter(), store_decision() or remember_idempotency(): the audit rows are
\* untouched, but the commit (or its failure) is that of the same connection.
OtherWrite ==
  /\ lock = NoThread
  /\ \/ durable' = AllRows /\ UNCHANGED rows
     \/ AfterError /\ UNCHANGED durable
  /\ UNCHANGED <<lock, pc, request, link, acknowledged>>

\* The process dies and is restarted: a new connection sees the committed rows.
Crash ==
  /\ rows' = OnDisk
  /\ lock' = NoThread
  /\ pc' = [th \in Threads |-> "idle"]
  /\ request' = [th \in Threads |-> AnyRequest]
  /\ link' = [th \in Threads |-> NoLink]
  /\ UNCHANGED <<durable, acknowledged>>

ThreadStep(th) ==
  \/ Select(th)
  \/ Insert(th)
  \/ InsertFails(th)
  \/ Commit(th)
  \/ CommitFails(th)

Next ==
  \/ \E th \in Threads, r \in Requests : Acquire(th, r)
  \/ \E th \in Threads : ThreadStep(th)
  \/ OtherWrite
  \/ Crash

Spec == Init /\ [][Next]_vars

\* A thread inside record() keeps running; nothing obliges anyone to call it.
FairSpec == Spec /\ \A th \in Threads : WF_vars(ThreadStep(th))

-----------------------------------------------------------------------------
TypeOK ==
  /\ rows \in [Tenants -> Seq(Rows)]
  /\ durable \in [Tenants -> Nat]
  /\ \A t \in Tenants : durable[t] <= Len(rows[t])
  /\ lock \in Threads \cup {NoThread}
  /\ pc \in [Threads -> {"idle", "select", "insert", "commit"}]
  /\ request \in [Threads -> Requests]
  /\ link \in [Threads -> Links]
  /\ acknowledged \subseteq [tenant : Tenants, sequence : Nat, event : Events]

(* Ledger.record never breaks the chain it extends: whatever failed or      *)
(* crashed before, verify_chain reports every tenant's trail intact, both   *)
(* on the live connection and on what a restart would find.                 *)
ChainIntact ==
  \A t \in Tenants : Intact(t, rows[t]) /\ Intact(t, Committed(t))

(* The sequence numbers of a tenant are 1, 2, 3, ... without a gap, although *)
(* failed calls leave rows behind and rollbacks and crashes take them away. *)
GapFree ==
  \A t \in Tenants : \A i \in 1 .. Len(rows[t]) : rows[t][i].sequence = i

(* Under Ledger._lock no SELECT is stale: the UNIQUE constraint never       *)
(* rejects an audit row of this process.                                    *)
NeverRejected ==
  \A th \in Threads :
    pc[th] = "insert" => Unique(rows[request[th].tenant], link[th].sequence)

(* The three together: whatever threads, failures and crashes did, a trail  *)
(* verifies, is numbered 1, 2, 3, ... and is about to stay that way.        *)
TrailSound == ChainIntact /\ GapFree /\ NeverRejected

(* A receipt that record() returned is honoured for ever: the event is      *)
(* committed under the sequence number the caller was given.                *)
AcknowledgedIsDurable ==
  \A a \in acknowledged :
    /\ a.sequence \in 1 .. durable[a.tenant]
    /\ rows[a.tenant][a.sequence].event = a.event

(* Committed rows are never altered, removed or reordered by a step of the  *)
(* program, failed commits and crashes included.                            *)
AppendOnly ==
  [][\A t \in Tenants :
       /\ durable[t] <= durable'[t]
       /\ \A i \in 1 .. durable[t] : rows'[t][i] = rows[t][i]]_vars

(* The audit trail implements the abstract append-only log.                 *)
Log == INSTANCE AuditLog WITH
  log <- [t \in Tenants |-> [i \in 1 .. durable[t] |-> rows[t][i].event]]

ImplementsAuditLog == Log!Spec

(* However record() ends, it gives Ledger._lock back, so that no error can  *)
(* stop the ledger for everybody.                                           *)
LockIsReleased == []<>(lock = NoThread)

=============================================================================
