----------------------------- MODULE AuditProofs -----------------------------
(***************************************************************************)
(* Proofs about AuditChain and AuditTamper, for any tenants, threads,      *)
(* events and bounds, and for any number of edits of the file.             *)
(*                                                                         *)
(* ChainIntact is not inductive: it says nothing of the row a thread is    *)
(* about to insert.  The invariant IInv adds that only the holder of the   *)
(* lock is inside record(), that what it selected is still the end of the  *)
(* trail, and that the row it is about to commit is where it put it.       *)
(*                                                                         *)
(* IInv does not survive an edit: a trail need not be linked any more.     *)
(* What survives every edit is that a row carries the two hashes record()  *)
(* gave it (Honest).  From that alone it follows that a good report can be *)
(* trusted.  For where a bad report points, the second invariant also      *)
(* tells what one edit can have broken (OneEditOneBreak), and the link a   *)
(* thread selected before the edit is part of it: after the last row was   *)
(* deleted, that link is stale.                                            *)
(***************************************************************************)
EXTENDS AuditTamper, SequenceTheorems, WellFoundedInduction, TLAPS


\* Row i carries number i and the two hashes that verify_chain expects there.
Linked(t, trail) ==
  \A i \in 1 .. Len(trail) :
    /\ trail[i].sequence = i
    /\ trail[i].previous_hash = ExpectedPrevious(trail, i)
    /\ trail[i].entry_hash = Hash(ExpectedPrevious(trail, i), Body(t, i, trail[i].event))
    /\ trail[i].event \in Events

AllLinked == \A t \in Tenants : Linked(t, rows[t])

\* Mutual exclusion: a thread inside record() holds the lock.
Exclusive == \A th \in Threads : pc[th] # "idle" => lock = th

\* What the SELECT computed is not stale when the INSERT uses it.
SelectIsFresh ==
  \A th \in Threads :
    pc[th] = "insert" => link[th] = NextLink(rows[request[th].tenant])

\* The row of the thread that is about to commit is still in place.
InsertedInPlace ==
  \A th \in Threads :
    pc[th] = "commit" =>
      LET t == request[th].tenant
      IN /\ link[th].sequence \in 1 .. Len(rows[t])
         /\ rows[t][link[th].sequence].event = request[th].event

IInv ==
  /\ TypeOK
  /\ AllLinked
  /\ Exclusive
  /\ SelectIsFresh
  /\ InsertedInPlace
  /\ AcknowledgedIsDurable

-----------------------------------------------------------------------------
(* Lemmas about trails. *)

(* What survives a crash or a rollback is the beginning of the trail.       *)
LEMMA PrefixFacts ==
  ASSUME NEW S, NEW s \in Seq(S), NEW n \in Nat, n <= Len(s)
  PROVE  /\ SubSeq(s, 1, n) \in Seq(S)
         /\ Len(SubSeq(s, 1, n)) = n
         /\ \A i \in 1 .. n : SubSeq(s, 1, n)[i] = s[i]
  <1>1. n \in 0 .. Len(s) /\ Len(s) \in Nat
    BY LenProperties, SMT
  <1>2. \A i \in 1 .. n : s[i] \in S
    BY <1>1, ElementOfSeq, SMT
  <1>3. QED
    BY <1>1, <1>2, SubSeqProperties, SMT

(* Cutting rows off the end of a linked trail leaves a linked trail.        *)
LEMMA LinkedPrefix ==
  ASSUME NEW t \in Tenants, NEW trail \in Seq(Rows), NEW n \in Nat, n <= Len(trail),
         Linked(t, trail)
  PROVE  Linked(t, SubSeq(trail, 1, n))
  <1> DEFINE cut == SubSeq(trail, 1, n)
  <1>1. Len(cut) = n /\ \A i \in 1 .. n : cut[i] = trail[i]
    BY PrefixFacts, Zenon
  <1>2. Len(trail) \in Nat
    BY LenProperties
  <1> HIDE DEF cut
  <1>3. ASSUME NEW i \in 1 .. n
        PROVE  i \in 1 .. Len(trail) /\ ExpectedPrevious(cut, i) = ExpectedPrevious(trail, i)
    BY <1>1, <1>2 DEF ExpectedPrevious
  <1>4. Linked(t, cut)
    BY <1>1, <1>3 DEF Linked
  <1>5. QED
    BY <1>4 DEF cut

(* The next link of a trail is well typed and numbered Len + 1.             *)
LEMMA NextLinkType ==
  ASSUME NEW t \in Tenants, NEW trail \in Seq(Rows), Linked(t, trail)
  PROVE  NextLink(trail) \in Links /\ NextLink(trail).sequence = Len(trail) + 1
  <1>1. Len(trail) \in Nat /\ (trail = << >> => Len(trail) = 0)
    BY LenProperties
  <1>2. CASE trail = << >>
    BY <1>1, <1>2 DEF NextLink, Links, GENESIS, Hashes
  <1>3. CASE trail # << >>
    <2>1. Len(trail) \in 1 .. Len(trail) /\ trail[Len(trail)] \in Rows
      BY <1>1, <1>3, EmptySeq, ElementOfSeq
    <2>2. trail[Len(trail)].sequence = Len(trail)
      BY <2>1 DEF Linked
    <2>3. QED
      BY <1>1, <1>3, <2>1, <2>2 DEF NextLink, Links, Rows
  <1>4. QED
    BY <1>2, <1>3

(* The row built from a request and the next link is a row.                 *)
LEMMA RowForType ==
  ASSUME NEW r \in Requests, NEW l \in Links
  PROVE  RowFor(r, l) \in Rows
  <1>1. Body(r.tenant, l.sequence, r.event) \in Bodies
    BY DEF Body, Bodies, Requests, Links
  <1>2. Hash(l.previous_hash, Body(r.tenant, l.sequence, r.event)) \in Hashes
    BY <1>1, AppendProperties DEF Hash, Hashes, Links
  <1>3. QED
    BY <1>2 DEF RowFor, Rows, Payloads, Requests, Links

(* Appending the row that record() builds from a fresh SELECT keeps the     *)
(* trail linked.                                                            *)
LEMMA LinkedAppend ==
  ASSUME NEW t \in Tenants, NEW trail \in Seq(Rows), Linked(t, trail),
         NEW r \in Requests, r.tenant = t
  PROVE  Linked(t, Append(trail, RowFor(r, NextLink(trail))))
  <1> DEFINE l == NextLink(trail)
             row == RowFor(r, l)
             longer == Append(trail, row)
  <1>1. l \in Links /\ l.sequence = Len(trail) + 1
    BY NextLinkType
  <1>2. row \in Rows
    BY <1>1, RowForType
  <1>3. Len(trail) \in Nat /\ (trail = << >> <=> Len(trail) = 0)
    BY LenProperties, EmptySeq
  <1>4. /\ Len(longer) = Len(trail) + 1
        /\ \A i \in 1 .. Len(trail) : longer[i] = trail[i]
        /\ longer[Len(trail) + 1] = row
    BY <1>2, AppendProperties
  <1>5. l.previous_hash = ExpectedPrevious(longer, Len(trail) + 1)
    <2>1. CASE trail = << >>
      BY <1>3, <2>1 DEF NextLink, ExpectedPrevious
    <2>2. CASE trail # << >>
      <3>1. Len(trail) \in 1 .. Len(trail) /\ Len(trail) + 1 # 1 /\ (Len(trail) + 1) - 1 = Len(trail)
        BY <1>3, <2>2
      <3>2. longer[(Len(trail) + 1) - 1] = trail[Len(trail)]
        BY <1>4, <3>1
      <3>3. QED
        BY <2>2, <3>1, <3>2 DEF NextLink, ExpectedPrevious
    <2>3. QED
      BY <2>1, <2>2
  <1>6. /\ row.sequence = Len(trail) + 1
        /\ row.event = r.event /\ row.event \in Events
        /\ row.previous_hash = l.previous_hash
        /\ row.entry_hash = Hash(l.previous_hash, Body(t, Len(trail) + 1, r.event))
    BY <1>1 DEF RowFor, Requests
  <1> HIDE DEF l, row, longer
  <1>7. ASSUME NEW i \in 1 .. Len(longer)
        PROVE  /\ longer[i].sequence = i
               /\ longer[i].previous_hash = ExpectedPrevious(longer, i)
               /\ longer[i].entry_hash =
                    Hash(ExpectedPrevious(longer, i), Body(t, i, longer[i].event))
               /\ longer[i].event \in Events
    <2>1. CASE i = Len(trail) + 1
      BY <1>4, <1>5, <1>6, <2>1
    <2>2. CASE i # Len(trail) + 1
      <3>1. i \in 1 .. Len(trail)
        BY <1>3, <1>4, <2>2
      <3>2. ExpectedPrevious(longer, i) = ExpectedPrevious(trail, i)
        BY <1>3, <1>4, <3>1 DEF ExpectedPrevious
      <3>3. longer[i] = trail[i]
        BY <1>4, <3>1
      <3>4. QED
        BY <3>1, <3>2, <3>3 DEF Linked
    <2>3. QED
      BY <2>1, <2>2
  <1>8. Linked(t, longer)
    BY <1>7 DEF Linked
  <1>9. QED
    BY <1>8 DEF l, row, longer

(* A linked trail passes verify_chain.                                      *)
LEMMA LinkedIsIntact ==
  ASSUME NEW t \in Tenants, NEW trail, Linked(t, trail)
  PROVE  Intact(t, trail)
  BY ConstantsAssumption DEF Linked, Intact, Broken

(* The next number of a linked trail is not taken.                          *)
LEMMA NextIsUnique ==
  ASSUME NEW t \in Tenants, NEW trail \in Seq(Rows), Linked(t, trail)
  PROVE  Unique(trail, NextLink(trail).sequence)
  <1>1. NextLink(trail).sequence = Len(trail) + 1 /\ Len(trail) \in Nat
    BY NextLinkType, LenProperties
  <1>2. QED
    BY <1>1 DEF Unique, Linked

-----------------------------------------------------------------------------
(* What a crash or a rollback does to the invariant. *)

(* Going back to the committed rows keeps every trail typed and linked, and *)
(* keeps what is committed.                                                 *)
LEMMA BackToDisk ==
  ASSUME TypeOK, AllLinked, rows' = OnDisk, durable' = durable
  PROVE  /\ rows' \in [Tenants -> Seq(Rows)]
         /\ \A t \in Tenants : /\ Len(rows'[t]) = durable[t]
                               /\ Linked(t, rows'[t])
                               /\ \A i \in 1 .. durable[t] : rows'[t][i] = rows[t][i]
  <1>1. ASSUME NEW t \in Tenants
        PROVE  /\ rows'[t] \in Seq(Rows)
               /\ Len(rows'[t]) = durable[t]
               /\ Linked(t, rows'[t])
               /\ \A i \in 1 .. durable[t] : rows'[t][i] = rows[t][i]
    <2>1. rows[t] \in Seq(Rows) /\ durable[t] \in Nat /\ durable[t] <= Len(rows[t])
      BY DEF TypeOK
    <2>2. rows'[t] = SubSeq(rows[t], 1, durable[t])
      BY DEF OnDisk, Committed
    <2>3. Linked(t, rows[t])
      BY DEF AllLinked
    <2>4. Linked(t, SubSeq(rows[t], 1, durable[t]))
      BY <2>1, <2>3, LinkedPrefix
    <2>5. QED
      BY <2>1, <2>2, <2>4, PrefixFacts
  <1>2. rows' = [t \in Tenants |-> Committed(t)]
    BY DEF OnDisk
  <1>3. QED
    BY <1>1, <1>2

(* An error leaves the trails typed, linked and at least as long as what is *)
(* committed, whichever way SQLite treats the open transaction.             *)
LEMMA AfterErrorFacts ==
  ASSUME TypeOK, AllLinked, AfterError, durable' = durable
  PROVE  /\ rows' \in [Tenants -> Seq(Rows)]
         /\ \A t \in Tenants : /\ durable[t] <= Len(rows'[t])
                               /\ Linked(t, rows'[t])
                               /\ \A i \in 1 .. durable[t] : rows'[t][i] = rows[t][i]
  <1>1. CASE rows' = rows
    BY <1>1 DEF TypeOK, AllLinked
  <1>2. CASE rows' = OnDisk
    <2>1. \A t \in Tenants : durable[t] \in Nat
      BY DEF TypeOK
    <2>2. QED
      BY <1>2, <2>1, BackToDisk
  <1>3. QED
    BY <1>1, <1>2 DEF AfterError

(* A thread that leaves record() leaves nothing of it behind.               *)
LEMMA ReleaseFacts ==
  ASSUME TypeOK, Exclusive, NEW th \in Threads, Release(th), lock = th
  PROVE  /\ lock' \in Threads \cup {NoThread}
         /\ pc' = [x \in Threads |-> "idle"]
         /\ request' \in [Threads -> Requests]
         /\ link' \in [Threads -> Links]
  <1>1. AnyRequest \in Requests
    <2>1. \E r \in Requests : TRUE
      <3>1. PICK t \in Tenants, e \in Events : TRUE
        BY ConstantsAssumption
      <3>2. [tenant |-> t, event |-> e] \in Requests
        BY DEF Requests
      <3>3. QED
        BY <3>2
    <2>2. QED
      BY <2>1 DEF AnyRequest
  <1>2. NoLink \in Links
    BY DEF NoLink, Links, GENESIS, Hashes
  <1>3. \A x \in Threads : x # th => pc[x] = "idle"
    BY DEF Exclusive
  <1>4. pc' = [x \in Threads |-> "idle"]
    BY <1>3 DEF Release, TypeOK
  <1>5. QED
    BY <1>1, <1>2, <1>4 DEF Release, TypeOK

-----------------------------------------------------------------------------
(* The invariant: initially, and through every action. *)

(* An empty ledger satisfies the invariant.                                 *)
LEMMA InitEstablishesIInv == Init => IInv
  <1> SUFFICES ASSUME Init PROVE IInv
    OBVIOUS
  <1>1. AnyRequest \in Requests
    <2>1. PICK t \in Tenants, e \in Events : TRUE
      BY ConstantsAssumption
    <2>2. [tenant |-> t, event |-> e] \in Requests
      BY DEF Requests
    <2>3. QED
      BY <2>2 DEF AnyRequest
  <1>2. NoLink \in Links
    BY DEF NoLink, Links, GENESIS, Hashes
  <1>3. \A t \in Tenants : rows[t] = << >> /\ Len(rows[t]) = 0 /\ rows[t] \in Seq(Rows)
    <2>1. << >> \in Seq(Rows) /\ Len(<< >>) = 0
      BY EmptySeq
    <2>2. QED
      BY <2>1 DEF Init
  <1>4. TypeOK
    BY <1>1, <1>2, <1>3 DEF Init, TypeOK
  <1>5. AllLinked
    BY <1>3 DEF AllLinked, Linked
  <1>6. Exclusive /\ SelectIsFresh /\ InsertedInPlace /\ AcknowledgedIsDurable
    BY DEF Init, Exclusive, SelectIsFresh, InsertedInPlace, AcknowledgedIsDurable
  <1>7. QED
    BY <1>4, <1>5, <1>6 DEF IInv

\* No committed row is lost or changed by a step.
KeepsCommitted ==
  \A t \in Tenants :
    /\ durable[t] <= durable'[t]
    /\ \A i \in 1 .. durable[t] : rows'[t][i] = rows[t][i]

(* A step after which no thread is inside record(), and which adds no row,  *)
(* keeps the invariant: a failed call, another write, a crash.              *)
LEMMA SettledStep ==
  ASSUME IInv,
         rows' \in [Tenants -> Seq(Rows)],
         \A t \in Tenants : /\ durable[t] <= Len(rows'[t])
                            /\ Linked(t, rows'[t])
                            /\ \A i \in 1 .. durable[t] : rows'[t][i] = rows[t][i],
         durable' = durable,
         acknowledged' = acknowledged,
         lock' \in Threads \cup {NoThread},
         pc' = [th \in Threads |-> "idle"],
         request' \in [Threads -> Requests],
         link' \in [Threads -> Links]
  PROVE  IInv' /\ KeepsCommitted
  <1>1. TypeOK'
    BY DEF IInv, TypeOK
  <1>2. AllLinked'
    BY DEF AllLinked
  <1>3. Exclusive' /\ SelectIsFresh' /\ InsertedInPlace'
    BY DEF Exclusive, SelectIsFresh, InsertedInPlace
  <1>4. AcknowledgedIsDurable'
    BY DEF IInv, TypeOK, AcknowledgedIsDurable
  <1>5. KeepsCommitted
    <2>1. \A t \in Tenants : durable[t] \in Nat /\ durable'[t] = durable[t]
      BY DEF IInv, TypeOK
    <2>2. \A t \in Tenants : durable[t] <= durable'[t]
      BY <2>1
    <2>3. QED
      BY <2>2 DEF KeepsCommitted
  <1>6. QED
    BY <1>1, <1>2, <1>3, <1>4, <1>5 DEF IInv

(* Taking the lock keeps the invariant: no other thread is inside record(). *)
LEMMA AcquireStep ==
  ASSUME IInv, NEW th \in Threads, NEW r \in Requests, Acquire(th, r)
  PROVE  IInv' /\ KeepsCommitted
  <1> USE DEF IInv, Acquire
  <1>1. TypeOK'
    BY DEF TypeOK
  <1>2. AllLinked'
    BY DEF AllLinked
  <1>3. \A x \in Threads : pc[x] = "idle"
    BY ConstantsAssumption DEF Exclusive
  <1>4. Exclusive' /\ SelectIsFresh' /\ InsertedInPlace'
    BY <1>3 DEF TypeOK, Exclusive, SelectIsFresh, InsertedInPlace
  <1>5. AcknowledgedIsDurable'
    BY DEF AcknowledgedIsDurable
  <1>6. KeepsCommitted
    BY DEF TypeOK, KeepsCommitted
  <1>7. QED
    BY <1>1, <1>2, <1>4, <1>5, <1>6

(* SELECT under the lock keeps the invariant: the link is that of the trail. *)
LEMMA SelectStep ==
  ASSUME IInv, NEW th \in Threads, Select(th)
  PROVE  IInv' /\ KeepsCommitted
  <1> USE DEF IInv, Select
  <1>1. NextLink(rows[request[th].tenant]) \in Links
    BY NextLinkType DEF TypeOK, AllLinked, Requests
  <1>2. TypeOK'
    BY <1>1 DEF TypeOK
  <1>3. AllLinked'
    BY DEF AllLinked
  <1>4. Exclusive'
    BY DEF TypeOK, Exclusive
  <1>5. \A x \in Threads : x # th => pc[x] = "idle"
    BY DEF Exclusive
  <1>6. SelectIsFresh' /\ InsertedInPlace'
    BY <1>5 DEF TypeOK, SelectIsFresh, InsertedInPlace
  <1>7. AcknowledgedIsDurable'
    BY DEF AcknowledgedIsDurable
  <1>8. KeepsCommitted
    BY DEF TypeOK, KeepsCommitted
  <1>9. QED
    BY <1>2, <1>3, <1>4, <1>6, <1>7, <1>8

(* INSERT keeps the invariant: the row continues the trail it was made for. *)
LEMMA InsertStep ==
  ASSUME IInv, NEW th \in Threads, Insert(th)
  PROVE  IInv' /\ KeepsCommitted
  <1> DEFINE t == request[th].tenant
             row == RowFor(request[th], link[th])
  <1>1. t \in Tenants /\ rows[t] \in Seq(Rows) /\ link[th] \in Links /\ request[th] \in Requests
    BY DEF IInv, TypeOK, Requests
  <1>2. Linked(t, rows[t]) /\ link[th] = NextLink(rows[t])
    BY <1>1 DEF IInv, AllLinked, SelectIsFresh, Insert
  <1>3. link[th].sequence = Len(rows[t]) + 1 /\ Unique(rows[t], link[th].sequence)
    BY <1>1, <1>2, NextLinkType, NextIsUnique
  <1>4. /\ rows' = [rows EXCEPT ![t] = Append(@, row)]
        /\ pc' = [pc EXCEPT ![th] = "commit"]
        /\ UNCHANGED <<lock, request, link, durable, acknowledged>>
    BY <1>3 DEF Insert
  <1>5. row \in Rows /\ row.event = request[th].event
    BY <1>1, RowForType DEF RowFor
  <1>6. /\ rows'[t] = Append(rows[t], row)
        /\ \A u \in Tenants : u # t => rows'[u] = rows[u]
        /\ rows' \in [Tenants -> Seq(Rows)]
    BY <1>1, <1>4, <1>5, AppendProperties DEF IInv, TypeOK
  <1>7. Linked(t, rows'[t])
    BY <1>1, <1>2, <1>6, LinkedAppend
  <1>8. /\ Len(rows'[t]) = Len(rows[t]) + 1
        /\ \A i \in 1 .. Len(rows[t]) : rows'[t][i] = rows[t][i]
        /\ rows'[t][Len(rows[t]) + 1] = row
        /\ Len(rows[t]) \in Nat
    BY <1>1, <1>5, <1>6, AppendProperties, LenProperties
  <1> HIDE DEF row
  <1>9. ASSUME NEW u \in Tenants
        PROVE  /\ Len(rows[u]) \in Nat
               /\ Len(rows[u]) <= Len(rows'[u])
               /\ \A i \in 1 .. Len(rows[u]) : rows'[u][i] = rows[u][i]
    <2>1. rows[u] \in Seq(Rows)
      BY DEF IInv, TypeOK
    <2>2. Len(rows[u]) \in Nat
      BY <2>1, LenProperties
    <2>3. CASE u = t
      BY <1>8, <2>3
    <2>4. CASE u # t
      BY <1>6, <2>2, <2>4
    <2>5. QED
      BY <2>2, <2>3, <2>4
  <1>10. TypeOK'
    <2>1. \A u \in Tenants : durable'[u] <= Len(rows'[u])
      <3> TAKE u \in Tenants
      <3>1. durable[u] \in Nat /\ durable[u] <= Len(rows[u])
        BY DEF IInv, TypeOK
      <3>2. Len(rows[u]) \in Nat /\ Len(rows'[u]) \in Nat
        BY <1>6, <1>9, LenProperties
      <3>3. QED
        BY <1>4, <1>9, <3>1, <3>2
    <2>2. QED
      BY <1>4, <1>6, <2>1 DEF IInv, TypeOK
  <1>11. AllLinked'
    BY <1>6, <1>7 DEF IInv, AllLinked
  <1>12. Exclusive'
    BY <1>4 DEF IInv, TypeOK, Exclusive, Insert
  <1>13. \A x \in Threads : x # th => pc[x] = "idle"
    BY DEF IInv, Exclusive, Insert
  <1>14. SelectIsFresh'
    BY <1>4, <1>13 DEF IInv, TypeOK, SelectIsFresh
  <1>15. InsertedInPlace'
    <2>1. link[th].sequence \in 1 .. Len(rows'[t]) /\ rows'[t][link[th].sequence].event = request[th].event
      BY <1>3, <1>5, <1>8
    <2>2. \A x \in Threads : pc'[x] = "commit" => x = th
      BY <1>4, <1>13 DEF IInv, TypeOK
    <2>3. QED
      BY <1>4, <2>1, <2>2 DEF InsertedInPlace
  <1>16. KeepsCommitted
    BY <1>4, <1>9 DEF IInv, TypeOK, KeepsCommitted
  <1>17. AcknowledgedIsDurable'
    BY <1>4, <1>16 DEF IInv, TypeOK, AcknowledgedIsDurable, KeepsCommitted
  <1>18. QED
    BY <1>10, <1>11, <1>12, <1>14, <1>15, <1>16, <1>17 DEF IInv

(* COMMIT keeps the invariant: the receipt describes a row now durable.     *)
LEMMA CommitStep ==
  ASSUME IInv, NEW th \in Threads, Commit(th)
  PROVE  IInv' /\ KeepsCommitted
  <1> DEFINE t == request[th].tenant
             receipt == Receipt(request[th], link[th])
  <1>1. /\ lock' \in Threads \cup {NoThread}
        /\ pc' = [x \in Threads |-> "idle"]
        /\ request' \in [Threads -> Requests]
        /\ link' \in [Threads -> Links]
    BY ReleaseFacts DEF IInv, Exclusive, Commit
  <1>2. /\ rows' = rows
        /\ durable' = AllRows
        /\ acknowledged' = acknowledged \cup {receipt}
    BY DEF Commit
  <1>3. \A u \in Tenants : /\ rows[u] \in Seq(Rows)
                           /\ Len(rows[u]) \in Nat
                           /\ durable'[u] = Len(rows[u])
                           /\ durable[u] \in Nat
                           /\ durable[u] <= durable'[u]
    <2> TAKE u \in Tenants
    <2>1. rows[u] \in Seq(Rows) /\ durable[u] \in Nat /\ durable[u] <= Len(rows[u])
      BY DEF IInv, TypeOK
    <2>2. Len(rows[u]) \in Nat
      BY <2>1, LenProperties
    <2>3. durable'[u] = Len(rows[u])
      BY <1>2 DEF AllRows
    <2>4. QED
      BY <2>1, <2>2, <2>3
  <1>4. /\ receipt \in [tenant : Tenants, sequence : Nat, event : Events]
        /\ receipt.sequence \in 1 .. Len(rows[receipt.tenant])
        /\ rows[receipt.tenant][receipt.sequence].event = receipt.event
    BY DEF Receipt, IInv, TypeOK, Requests, Links, InsertedInPlace, Commit
  <1> HIDE DEF receipt
  <1>5. TypeOK'
    <2>1. durable' \in [Tenants -> Nat]
      BY <1>2, <1>3 DEF AllRows
    <2>2. \A u \in Tenants : durable'[u] <= Len(rows'[u])
      BY <1>2, <1>3
    <2>3. QED
      BY <1>1, <1>2, <1>4, <2>1, <2>2 DEF IInv, TypeOK
  <1>6. AllLinked'
    BY <1>2 DEF IInv, AllLinked
  <1>7. Exclusive' /\ SelectIsFresh' /\ InsertedInPlace'
    BY <1>1 DEF Exclusive, SelectIsFresh, InsertedInPlace
  <1>8. AcknowledgedIsDurable'
    <2> SUFFICES ASSUME NEW a \in acknowledged'
                 PROVE  /\ a.sequence \in 1 .. durable'[a.tenant]
                        /\ rows'[a.tenant][a.sequence].event = a.event
      BY DEF AcknowledgedIsDurable
    <2>1. CASE a = receipt
      BY <1>2, <1>3, <1>4, <2>1
    <2>2. CASE a \in acknowledged
      <3>1. /\ a.tenant \in Tenants
            /\ a.sequence \in 1 .. durable[a.tenant]
            /\ rows[a.tenant][a.sequence].event = a.event
        BY <2>2 DEF IInv, TypeOK, AcknowledgedIsDurable
      <3>2. QED
        BY <1>2, <1>3, <3>1
    <2>3. QED
      BY <1>2, <2>1, <2>2
  <1>9. KeepsCommitted
    BY <1>2, <1>3 DEF KeepsCommitted
  <1>10. QED
    BY <1>5, <1>6, <1>7, <1>8, <1>9 DEF IInv

(* The INSERT or the COMMIT of a record() raises.                           *)
LEMMA FailedStep ==
  ASSUME IInv, NEW th \in Threads, InsertFails(th) \/ CommitFails(th)
  PROVE  IInv' /\ KeepsCommitted
  <1>1. lock = th /\ Release(th) /\ AfterError /\ UNCHANGED <<durable, acknowledged>>
    BY DEF IInv, Exclusive, InsertFails, CommitFails
  <1>2. /\ rows' \in [Tenants -> Seq(Rows)]
        /\ \A t \in Tenants : /\ durable[t] <= Len(rows'[t])
                              /\ Linked(t, rows'[t])
                              /\ \A i \in 1 .. durable[t] : rows'[t][i] = rows[t][i]
    BY <1>1, AfterErrorFacts DEF IInv
  <1>3. /\ lock' \in Threads \cup {NoThread}
        /\ pc' = [x \in Threads |-> "idle"]
        /\ request' \in [Threads -> Requests]
        /\ link' \in [Threads -> Links]
    BY <1>1, ReleaseFacts DEF IInv
  <1>4. QED
    BY <1>1, <1>2, <1>3, SettledStep

(* The write of another table, or its failure, keeps the invariant.         *)
LEMMA OtherWriteStep ==
  ASSUME IInv, OtherWrite
  PROVE  IInv' /\ KeepsCommitted
  <1>1. \A x \in Threads : pc[x] = "idle"
    BY ConstantsAssumption DEF IInv, Exclusive, OtherWrite
  <1>2. pc' = [x \in Threads |-> "idle"] /\ UNCHANGED <<lock, pc, request, link, acknowledged>>
    BY <1>1 DEF IInv, TypeOK, OtherWrite
  <1>3. CASE AfterError /\ UNCHANGED durable
    <2>1. /\ rows' \in [Tenants -> Seq(Rows)]
          /\ \A t \in Tenants : /\ durable[t] <= Len(rows'[t])
                                /\ Linked(t, rows'[t])
                                /\ \A i \in 1 .. durable[t] : rows'[t][i] = rows[t][i]
      BY <1>3, AfterErrorFacts DEF IInv
    <2>2. /\ lock' \in Threads \cup {NoThread}
          /\ request' \in [Threads -> Requests]
          /\ link' \in [Threads -> Links]
      BY <1>2 DEF IInv, TypeOK
    <2>3. QED
      BY <1>2, <1>3, <2>1, <2>2, SettledStep
  <1>4. CASE durable' = AllRows /\ UNCHANGED rows
    <2>1. \A u \in Tenants : /\ rows[u] \in Seq(Rows)
                             /\ Len(rows[u]) \in Nat
                             /\ durable'[u] = Len(rows[u])
                             /\ durable[u] \in Nat
                             /\ durable[u] <= durable'[u]
      <3> TAKE u \in Tenants
      <3>1. rows[u] \in Seq(Rows) /\ durable[u] \in Nat /\ durable[u] <= Len(rows[u])
        BY DEF IInv, TypeOK
      <3>2. Len(rows[u]) \in Nat
        BY <3>1, LenProperties
      <3>3. durable'[u] = Len(rows[u])
        BY <1>4 DEF AllRows
      <3>4. QED
        BY <3>1, <3>2, <3>3
    <2>2. durable' \in [Tenants -> Nat]
      BY <1>4, <2>1 DEF AllRows
    <2>3. \A u \in Tenants : durable'[u] <= Len(rows'[u])
      BY <1>4, <2>1
    <2>4. TypeOK'
      BY <1>2, <1>4, <2>2, <2>3 DEF IInv, TypeOK
    <2>5. AllLinked'
      BY <1>4 DEF IInv, AllLinked
    <2>6. Exclusive' /\ SelectIsFresh' /\ InsertedInPlace'
      BY <1>2 DEF Exclusive, SelectIsFresh, InsertedInPlace
    <2>7. KeepsCommitted
      BY <1>4, <2>1 DEF KeepsCommitted
    <2>8. AcknowledgedIsDurable'
      BY <1>2, <1>4, <2>1 DEF IInv, TypeOK, AcknowledgedIsDurable
    <2>9. QED
      BY <2>4, <2>5, <2>6, <2>7, <2>8 DEF IInv
  <1>5. QED
    BY <1>3, <1>4 DEF OtherWrite

(* A crash and restart keeps the invariant.                                 *)
LEMMA CrashStep ==
  ASSUME IInv, Crash
  PROVE  IInv' /\ KeepsCommitted
  <1>1. rows' = OnDisk /\ durable' = durable /\ acknowledged' = acknowledged
    BY DEF Crash
  <1>2. AfterError
    BY <1>1 DEF AfterError
  <1>3. /\ rows' \in [Tenants -> Seq(Rows)]
        /\ \A t \in Tenants : /\ durable[t] <= Len(rows'[t])
                              /\ Linked(t, rows'[t])
                              /\ \A i \in 1 .. durable[t] : rows'[t][i] = rows[t][i]
    BY <1>1, <1>2, AfterErrorFacts DEF IInv
  <1>4. AnyRequest \in Requests /\ NoLink \in Links
    <2>1. PICK t \in Tenants, e \in Events : TRUE
      BY ConstantsAssumption
    <2>2. [tenant |-> t, event |-> e] \in Requests
      BY DEF Requests
    <2>3. QED
      BY <2>2 DEF AnyRequest, NoLink, Links, GENESIS, Hashes
  <1>5. /\ lock' \in Threads \cup {NoThread}
        /\ pc' = [x \in Threads |-> "idle"]
        /\ request' \in [Threads -> Requests]
        /\ link' \in [Threads -> Links]
    BY <1>4 DEF Crash
  <1>6. QED
    BY <1>1, <1>3, <1>5, SettledStep

(* Every step, stuttering included.                                         *)
LEMMA NextKeepsIInv ==
  ASSUME IInv, [Next]_vars
  PROVE  IInv' /\ KeepsCommitted
  <1>1. CASE \E th \in Threads, r \in Requests : Acquire(th, r)
    BY <1>1, AcquireStep
  <1>2. CASE \E th \in Threads : ThreadStep(th)
    <2>1. PICK th \in Threads : ThreadStep(th)
      BY <1>2
    <2>2. CASE Select(th)
      BY <2>2, SelectStep
    <2>3. CASE Insert(th)
      BY <2>3, InsertStep
    <2>4. CASE InsertFails(th) \/ CommitFails(th)
      BY <2>4, FailedStep
    <2>5. CASE Commit(th)
      BY <2>5, CommitStep
    <2>6. QED
      BY <2>1, <2>2, <2>3, <2>4, <2>5 DEF ThreadStep
  <1>3. CASE OtherWrite
    BY <1>3, OtherWriteStep
  <1>4. CASE Crash
    BY <1>4, CrashStep
  <1>5. CASE UNCHANGED vars
    <2>1. IInv'
      BY <1>5 DEF vars, IInv, TypeOK, AllLinked, Exclusive, SelectIsFresh, InsertedInPlace,
                  AcknowledgedIsDurable
    <2>2. \A t \in Tenants : durable[t] \in Nat
      BY DEF IInv, TypeOK
    <2>3. KeepsCommitted
      BY <1>5, <2>2 DEF vars, KeepsCommitted
    <2>4. QED
      BY <2>1, <2>3
  <1>6. QED
    BY <1>1, <1>2, <1>3, <1>4, <1>5 DEF Next

-----------------------------------------------------------------------------
(* The theorems. *)

(* IInv holds in every reachable state of the audit chain.                  *)
THEOREM InductiveInvariant == Spec => []IInv
  <1>1. IInv /\ [Next]_vars => IInv'
    BY NextKeepsIInv
  <1>2. QED
    BY InitEstablishesIInv, <1>1, PTL DEF Spec

(* Types, and never more committed rows than rows.                          *)
THEOREM TypeCorrect == Spec => []TypeOK
  <1>1. IInv => TypeOK
    BY DEF IInv
  <1>2. QED
    BY InductiveInvariant, <1>1, PTL

(* Ledger.record never breaks a chain: verify_chain finds every trail       *)
(* intact, on the live connection and in the file.                          *)
THEOREM ChainStaysIntact == Spec => []ChainIntact
  <1>1. IInv => ChainIntact
    <2> SUFFICES ASSUME IInv, NEW t \in Tenants
                 PROVE  Intact(t, rows[t]) /\ Intact(t, Committed(t))
      BY DEF ChainIntact
    <2>1. rows[t] \in Seq(Rows) /\ durable[t] \in Nat /\ durable[t] <= Len(rows[t])
      BY DEF IInv, TypeOK
    <2>2. Linked(t, rows[t])
      BY DEF IInv, AllLinked
    <2>3. Linked(t, SubSeq(rows[t], 1, durable[t]))
      BY <2>1, <2>2, LinkedPrefix
    <2>4. QED
      BY <2>2, <2>3, LinkedIsIntact DEF Committed
  <1>2. QED
    BY InductiveInvariant, <1>1, PTL

(* Sequence numbers have no gaps.                                           *)
THEOREM NumberingHasNoGap == Spec => []GapFree
  <1>1. IInv => GapFree
    BY DEF IInv, AllLinked, Linked, GapFree
  <1>2. QED
    BY InductiveInvariant, <1>1, PTL

(* The lock makes every SELECT of record() fresh, so that UNIQUE never      *)
(* rejects a row.                                                           *)
THEOREM UniqueNeverRejects == Spec => []NeverRejected
  <1>1. IInv => NeverRejected
    <2> SUFFICES ASSUME IInv, NEW th \in Threads, pc[th] = "insert"
                 PROVE  Unique(rows[request[th].tenant], link[th].sequence)
      BY DEF NeverRejected
    <2>1. request[th].tenant \in Tenants
      BY DEF IInv, TypeOK, Requests
    <2>2. /\ rows[request[th].tenant] \in Seq(Rows)
          /\ Linked(request[th].tenant, rows[request[th].tenant])
          /\ link[th] = NextLink(rows[request[th].tenant])
      BY <2>1 DEF IInv, TypeOK, AllLinked, SelectIsFresh
    <2>3. QED
      BY <2>1, <2>2, NextIsUnique
  <1>2. QED
    BY InductiveInvariant, <1>1, PTL

(* The audit_chain run's invariant, for any number of threads and rows: all *)
(* trails verify, are numbered without gaps, and no row is rejected.        *)
THEOREM TrailStaysSound == Spec => []TrailSound
  <1>1. ChainIntact /\ GapFree /\ NeverRejected => TrailSound
    BY DEF TrailSound
  <1>2. QED
    BY ChainStaysIntact, NumberingHasNoGap, UniqueNeverRejects, <1>1, PTL

(* What record() has returned is committed, for ever.                       *)
THEOREM ReceiptsAreHonoured == Spec => []AcknowledgedIsDurable
  <1>1. IInv => AcknowledgedIsDurable
    BY DEF IInv
  <1>2. QED
    BY InductiveInvariant, <1>1, PTL

(* No step of the program alters or removes a committed row.                *)
THEOREM CommittedRowsStay == Spec => AppendOnly
  <1>1. IInv /\ [Next]_vars => [KeepsCommitted]_vars
    BY NextKeepsIInv
  <1>2. KeepsCommitted =>
          \A t \in Tenants :
            /\ durable[t] <= durable'[t]
            /\ \A i \in 1 .. durable[t] : rows'[t][i] = rows[t][i]
    BY DEF KeepsCommitted
  <1>3. QED
    BY InductiveInvariant, <1>1, <1>2, PTL DEF Spec, AppendOnly

-----------------------------------------------------------------------------
(* The refinement of AuditLog. *)

\* The committed events of trails tr of which the first d[t] rows are durable.
EventsOf(tr, d) == [t \in Tenants |-> [i \in 1 .. d[t] |-> tr[t][i].event]]

DurableEvents == EventsOf(rows, durable)

(* They are sequences of events, as long as what is durable.                *)
LEMMA EventsOfFacts ==
  ASSUME NEW tr \in [Tenants -> Seq(Rows)], NEW d \in [Tenants -> Nat],
         \A t \in Tenants : d[t] <= Len(tr[t]) /\ Linked(t, tr[t])
  PROVE  /\ EventsOf(tr, d) \in [Tenants -> Seq(Events)]
         /\ \A t \in Tenants : Len(EventsOf(tr, d)[t]) = d[t]
  <1>1. ASSUME NEW t \in Tenants
        PROVE  /\ [i \in 1 .. d[t] |-> tr[t][i].event] \in Seq(Events)
               /\ Len([i \in 1 .. d[t] |-> tr[t][i].event]) = d[t]
    <2>1. tr[t] \in Seq(Rows) /\ d[t] \in Nat /\ d[t] <= Len(tr[t])
      OBVIOUS
    <2>2. Linked(t, tr[t]) /\ Len(tr[t]) \in Nat
      BY <2>1, LenProperties
    <2>3. \A i \in 1 .. d[t] : tr[t][i].event \in Events
      BY <2>1, <2>2 DEF Linked
    <2>4. QED
      BY <2>1, <2>3, IsASeq
  <1>2. QED
    BY <1>1 DEF EventsOf

(* A receipt once given is never withdrawn.                                 *)
LEMMA ReceiptsAccumulate == [Next]_vars => acknowledged \subseteq acknowledged'
  BY DEF Next, vars, Acquire, ThreadStep, Select, Insert, InsertFails, Commit, CommitFails,
         OtherWrite, Crash

(* Every behaviour of the chain, seen through its committed events, is a    *)
(* behaviour of the abstract append-only log.                               *)
THEOREM ImplementsTheLog == Spec => ImplementsAuditLog
  <1>1. Init => Log!Init
    <2> SUFFICES ASSUME Init PROVE Log!Init
      OBVIOUS
    <2>1. TypeOK /\ AllLinked
      BY InitEstablishesIInv DEF IInv
    <2>2. \A t \in Tenants : /\ EventsOf(rows, durable)[t] \in Seq(Events)
                             /\ Len(EventsOf(rows, durable)[t]) = 0
      <3>1. /\ EventsOf(rows, durable) \in [Tenants -> Seq(Events)]
            /\ \A t \in Tenants : Len(EventsOf(rows, durable)[t]) = durable[t]
        BY <2>1, EventsOfFacts DEF TypeOK, AllLinked
      <3>2. \A t \in Tenants : durable[t] = 0
        BY DEF Init
      <3>3. QED
        BY <3>1, <3>2
    <2>3. \A t \in Tenants : EventsOf(rows, durable)[t] = << >>
      BY <2>2, EmptySeq
    <2>4. QED
      BY <2>3 DEF Init, Log!Init, EventsOf
  <1>2. IInv /\ IInv' /\ [Next]_vars => Log!Grow
    <2> SUFFICES ASSUME IInv, IInv', [Next]_vars PROVE Log!Grow
      OBVIOUS
    <2>1. KeepsCommitted
      BY NextKeepsIInv
    <2>2. TypeOK /\ TypeOK' /\ AllLinked /\ AllLinked'
      BY DEF IInv
    <2>3. /\ DurableEvents' \in [Tenants -> Seq(Events)]
          /\ \A t \in Tenants : Len(DurableEvents[t]) = durable[t]
          /\ \A t \in Tenants : Len(DurableEvents'[t]) = durable'[t]
      <3>1. /\ EventsOf(rows, durable) \in [Tenants -> Seq(Events)]
            /\ \A t \in Tenants : Len(EventsOf(rows, durable)[t]) = durable[t]
        BY <2>2, EventsOfFacts DEF TypeOK, AllLinked
      <3>2. /\ EventsOf(rows', durable') \in [Tenants -> Seq(Events)]
            /\ \A t \in Tenants : Len(EventsOf(rows', durable')[t]) = durable'[t]
        BY <2>2, EventsOfFacts DEF TypeOK, AllLinked
      <3>3. QED
        BY <3>1, <3>2 DEF DurableEvents
    <2>4. \A t \in Tenants : Log!Extends(DurableEvents[t], DurableEvents'[t])
      <3> SUFFICES ASSUME NEW t \in Tenants
                   PROVE  Log!Extends(DurableEvents[t], DurableEvents'[t])
        OBVIOUS
      <3>1. durable[t] \in Nat /\ durable'[t] \in Nat /\ durable[t] <= durable'[t]
        BY <2>1, <2>2 DEF TypeOK, KeepsCommitted
      <3>2. \A i \in 1 .. durable[t] : DurableEvents'[t][i] = DurableEvents[t][i]
        BY <2>1, <3>1 DEF DurableEvents, EventsOf, KeepsCommitted
      <3>3. QED
        BY <2>3, <3>1, <3>2 DEF Log!Extends
    <2>5. acknowledged \subseteq acknowledged'
      BY ReceiptsAccumulate
    <2>6. \A a \in acknowledged' : Log!Honours(DurableEvents', a)
      <3> SUFFICES ASSUME NEW a \in acknowledged'
                   PROVE  Log!Honours(DurableEvents', a)
        OBVIOUS
      <3>1. /\ a.tenant \in Tenants
            /\ a.sequence \in 1 .. durable'[a.tenant]
            /\ rows'[a.tenant][a.sequence].event = a.event
        BY DEF IInv, TypeOK, AcknowledgedIsDurable
      <3>2. DurableEvents'[a.tenant][a.sequence] = a.event
        BY <3>1 DEF DurableEvents, EventsOf
      <3>3. QED
        BY <2>3, <3>1, <3>2 DEF Log!Honours
    <2>7. QED
      BY <2>3, <2>4, <2>5, <2>6 DEF Log!Grow, DurableEvents, EventsOf
  <1>3. QED
    BY InductiveInvariant, <1>1, <1>2, PTL DEF Spec, ImplementsAuditLog, Log!Spec

-----------------------------------------------------------------------------
(* With edits of the file (AuditTamper).                                    *)


TamperTypes ==
  /\ TypeOK
  /\ sealed \in [Tenants -> Seq(Seals)]
  /\ \A t \in Tenants : Len(sealed[t]) = Len(rows[t])
  /\ edits \in Seq(Edits)

\* The hashes of a row are those of what record() inserted, and count its
\* predecessors.
HonestRow(t, row, event) ==
  /\ row.sequence = Len(row.previous_hash) + 1
  /\ row.entry_hash = Hash(row.previous_hash, Body(t, row.sequence, event))

Honest ==
  /\ \A t \in Tenants : \A i \in 1 .. Len(rows[t]) : HonestRow(t, rows[t][i], sealed[t][i].event)
  /\ \A th \in Threads : pc[th] = "insert" => link[th].sequence = Len(link[th].previous_hash) + 1

Fresh(th) == link[th] = NextLink(rows[request[th].tenant])

Edited(t) == \E k \in 1 .. Len(edits) : edits[k].tenant = t

\* A row whose hash is an editor's was rehashed.
ForgedIsEdited ==
  \A t \in Tenants : \A i \in 1 .. Len(rows[t]) :
    sealed[t][i].by = "editor" => Rehashed(t, rows[t][i].sequence)

\* A trail nobody edited has no broken row and gets none.
UneditedIsIntact ==
  \A t \in Tenants :
    ~Edited(t) =>
      /\ Broken(t, rows[t]) = {}
      /\ \A th \in Threads : pc[th] = "insert" /\ request[th].tenant = t => Fresh(th)

\* An edit that verify_chain cannot miss.
Detected(edit) == edit.kind \in {"altered", "garbled"} \/ ~edit.tail

\* The row is the one at which verify_chain stops after the edit, and it raises
\* there just if the edit left no JSON.
Blames(row, edit) ==
  /\ row.sequence = BreakOf(edit)
  /\ row.event = NotJson <=> edit.kind = "garbled"

\* At most row p of the trail is broken.
BreakIsAt(t, p, edit) ==
  /\ p <= durable[t] + 1
  /\ Broken(t, rows[t]) \subseteq {p}
  /\ p \in Broken(t, rows[t]) => Blames(rows[t][p], edit)
  /\ Detected(edit) => p \in Broken(t, rows[t]) /\ p <= durable[t]
  /\ \A th \in Threads :
       pc[th] = "insert" /\ request[th].tenant = t =>
         \/ Fresh(th)
         \/ /\ ~Detected(edit)
            /\ p = Len(rows[t]) + 1
            /\ link[th].sequence = BreakOf(edit)

OneEditOneBreak ==
  Len(edits) = 1 => \E p \in Nat : BreakIsAt(edits[1].tenant, p, edits[1])

TamperInv ==
  /\ TamperTypes
  /\ Exclusive
  /\ Honest
  /\ ForgedIsEdited
  /\ UneditedIsIntact
  /\ OneEditOneBreak

-----------------------------------------------------------------------------
(* Lemmas about trails and their broken rows. *)

(* A nonempty set of natural numbers has a least element.                   *)
LEMMA LeastOf ==
  ASSUME NEW T \in SUBSET Nat, T # {}
  PROVE  \E x \in T : \A y \in T : x <= y
  <1> DEFINE R == OpToRel(<, Nat)
  <1>1. IsWellFoundedOn(R, Nat)
    BY NatLessThanWellFounded, Zenon
  <1>2. PICK x \in T : \A y \in T : ~(<<y, x>> \in R)
    BY <1>1, WFMin, Zenon
  <1>3. \A y \in T : ~(y < x)
    BY <1>2 DEF OpToRel
  <1>4. QED
    BY <1>3

(* Every row of a typed trail is a row.                                     *)
LEMMA RowFacts ==
  ASSUME NEW trail \in Seq(Rows), NEW i \in 1 .. Len(trail)
  PROVE  /\ trail[i] \in Rows
         /\ trail[i].sequence \in Nat
         /\ trail[i].event \in Payloads
         /\ trail[i].previous_hash \in Seq(Bodies)
         /\ trail[i].entry_hash \in Seq(Bodies)
         /\ Len(trail[i].previous_hash) \in Nat
  <1>1. trail[i] \in Rows
    BY ElementOfSeq
  <1>2. QED
    BY <1>1, LenProperties DEF Rows, Hashes

(* What a row is sealed with is an event.                                   *)
LEMMA SealFacts ==
  ASSUME NEW seals \in Seq(Seals), NEW i \in 1 .. Len(seals)
  PROVE  seals[i] \in Seals /\ seals[i].event \in Events
  <1>1. seals[i] \in Seals
    BY ElementOfSeq
  <1>2. QED
    BY <1>1 DEF Seals

(* A hash determines what was hashed, and counts one more than the hash     *)
(* before it.                                                               *)
LEMMA HashFacts ==
  ASSUME NEW p \in Seq(Bodies), NEW b \in Bodies
  PROVE  /\ Hash(p, b) \in Seq(Bodies)
         /\ Len(Hash(p, b)) = Len(p) + 1
         /\ \A q \in Seq(Bodies), c \in Bodies : Hash(p, b) = Hash(q, c) => p = q /\ b = c
  <1>1. Hash(p, b) \in Seq(Bodies) /\ Len(Hash(p, b)) = Len(p) + 1
    BY AppendProperties DEF Hash
  <1>2. ASSUME NEW q \in Seq(Bodies), NEW c \in Bodies, Hash(p, b) = Hash(q, c)
        PROVE  p = q /\ b = c
    BY <1>2, AppendInjective DEF Hash
  <1>3. QED
    BY <1>1, <1>2

(* The body of a row is a body, and tells its event.                        *)
LEMMA BodyFacts ==
  ASSUME NEW t \in Tenants, NEW n \in Nat, NEW e \in Events, NEW f \in Events
  PROVE  Body(t, n, e) \in Bodies /\ (Body(t, n, e) = Body(t, n, f) => e = f)
  BY DEF Body, Bodies

(* The hash expected before a row is a hash.                                *)
LEMMA ExpectedType ==
  ASSUME NEW trail \in Seq(Rows), NEW i \in 1 .. Len(trail)
  PROVE  ExpectedPrevious(trail, i) \in Seq(Bodies)
  <1>1. CASE i = 1
    BY <1>1 DEF ExpectedPrevious, GENESIS
  <1>2. CASE i # 1
    <2>1. i - 1 \in 1 .. Len(trail)
      BY <1>2, LenProperties
    <2>2. QED
      BY <1>2, <2>1, RowFacts DEF ExpectedPrevious
  <1>3. QED
    BY <1>1, <1>2

(* The hash of an honest row counts it and its predecessors.                *)
LEMMA HonestCounts ==
  ASSUME NEW t \in Tenants, NEW trail \in Seq(Rows), NEW i \in 1 .. Len(trail),
         NEW e \in Events, HonestRow(t, trail[i], e)
  PROVE  Len(trail[i].entry_hash) = trail[i].sequence
  <1>1. /\ trail[i].previous_hash \in Seq(Bodies)
        /\ trail[i].sequence \in Nat
    BY RowFacts
  <1>2. Body(t, trail[i].sequence, e) \in Bodies
    BY <1>1, BodyFacts
  <1>3. QED
    BY <1>1, <1>2, HashFacts DEF HonestRow

(* For an honest row verify_chain's check comes down to two questions: is   *)
(* the link to the row before it right, and is the event still the one      *)
(* record() inserted?                                                       *)
LEMMA BrokenMeans ==
  ASSUME NEW t \in Tenants, NEW trail \in Seq(Rows), NEW i \in 1 .. Len(trail),
         NEW e \in Events, HonestRow(t, trail[i], e)
  PROVE  i \in Broken(t, trail) <=>
           trail[i].previous_hash # ExpectedPrevious(trail, i) \/ trail[i].event # e
  <1> DEFINE row == trail[i]
             b == Body(t, row.sequence, row.event)
             c == Body(t, row.sequence, e)
  <1>1. /\ row.previous_hash \in Seq(Bodies)
        /\ row.sequence \in Nat
        /\ row.event \in Payloads
    BY RowFacts
  <1>2. row.entry_hash = Hash(row.previous_hash, c)
    BY DEF HonestRow
  <1>3. i \in Broken(t, trail) <=>
          \/ row.event = NotJson
          \/ row.previous_hash # ExpectedPrevious(trail, i)
          \/ row.entry_hash # Hash(ExpectedPrevious(trail, i), b)
    BY DEF Broken
  <1>4. CASE row.event = NotJson
    BY <1>3, <1>4, ConstantsAssumption
  <1>5. CASE row.event # NotJson
    <2>1. row.event \in Events
      BY <1>1, <1>5 DEF Payloads
    <2>2. b \in Bodies /\ c \in Bodies /\ (b = c => row.event = e)
      BY <1>1, <2>1, BodyFacts
    <2>3. ASSUME Hash(row.previous_hash, b) = Hash(row.previous_hash, c)
          PROVE  row.event = e
      <3> HIDE DEF b, c
      <3>1. b = c
        BY <1>1, <2>2, <2>3, HashFacts
      <3>2. QED
        BY <2>2, <3>1
    <2>4. Hash(row.previous_hash, b) = Hash(row.previous_hash, c) <=> row.event = e
      BY <2>3
    <2>5. QED
      BY <1>2, <1>3, <1>5, <2>4
  <1>6. QED
    BY <1>4, <1>5

(* Whether a row is broken depends on it and on the row before it only.     *)
LEMMA BrokenIsLocal ==
  ASSUME NEW t \in Tenants, NEW one, NEW other,
         NEW i \in 1 .. Len(one), i \in 1 .. Len(other),
         one[i] = other[i], ExpectedPrevious(one, i) = ExpectedPrevious(other, i)
  PROVE  i \in Broken(t, one) <=> i \in Broken(t, other)
  BY DEF Broken

(* Cutting rows off the end breaks none of those that stay.                 *)
LEMMA BrokenPrefix ==
  ASSUME NEW t \in Tenants, NEW trail \in Seq(Rows), NEW n \in Nat, n <= Len(trail)
  PROVE  Broken(t, SubSeq(trail, 1, n)) = Broken(t, trail) \cap 1 .. n
  <1> DEFINE cut == SubSeq(trail, 1, n)
  <1>1. Len(cut) = n /\ \A i \in 1 .. n : cut[i] = trail[i]
    BY PrefixFacts, Zenon
  <1>2. Len(trail) \in Nat
    BY LenProperties
  <1> HIDE DEF cut
  <1>3. ASSUME NEW i \in 1 .. n
        PROVE  i \in Broken(t, cut) <=> i \in Broken(t, trail)
    <2>1. i \in 1 .. Len(trail) /\ i \in 1 .. Len(cut)
      BY <1>1, <1>2
    <2>2. ExpectedPrevious(cut, i) = ExpectedPrevious(trail, i)
      BY <1>1, <1>2 DEF ExpectedPrevious
    <2>3. QED
      BY <1>1, <2>1, <2>2, BrokenIsLocal
  <1>4. Broken(t, cut) \subseteq 1 .. n
    BY <1>1 DEF Broken
  <1>5. Broken(t, cut) = Broken(t, trail) \cap 1 .. n
    BY <1>3, <1>4
  <1>6. QED
    BY <1>5 DEF cut

(* A row that record() appends breaks nothing if the link it was built from *)
(* is that of the end of the trail, and can only be broken itself if not.   *)
LEMMA BrokenAppend ==
  ASSUME NEW t \in Tenants, NEW trail \in Seq(Rows),
         NEW r \in Requests, r.tenant = t, NEW l \in Links
  PROVE  LET longer == Append(trail, RowFor(r, l))
         IN  /\ Broken(t, longer) \subseteq Broken(t, trail) \cup {Len(trail) + 1}
             /\ Broken(t, trail) \subseteq Broken(t, longer)
             /\ l = NextLink(trail) => Broken(t, longer) = Broken(t, trail)
  <1> DEFINE row == RowFor(r, l)
             longer == Append(trail, row)
             n == Len(trail)
  <1>1. row \in Rows /\ n \in Nat /\ (trail = << >> <=> n = 0)
    BY RowForType, LenProperties, EmptySeq
  <1>2. /\ Len(longer) = n + 1
        /\ \A i \in 1 .. n : longer[i] = trail[i]
        /\ longer[n + 1] = row
    BY <1>1, AppendProperties
  <1>3. /\ row.sequence = l.sequence
        /\ row.event = r.event /\ row.event # NotJson
        /\ row.previous_hash = l.previous_hash
        /\ row.entry_hash = Hash(l.previous_hash, Body(t, l.sequence, r.event))
    BY ConstantsAssumption DEF RowFor, Requests
  <1> HIDE DEF row, longer, n
  <1>4. ASSUME NEW i \in 1 .. n
        PROVE  i \in Broken(t, longer) <=> i \in Broken(t, trail)
    <2>1. i \in 1 .. Len(longer) /\ i \in 1 .. Len(trail)
      BY <1>1, <1>2 DEF n
    <2>2. ExpectedPrevious(longer, i) = ExpectedPrevious(trail, i)
      BY <1>1, <1>2 DEF ExpectedPrevious
    <2>3. QED
      BY <1>2, <2>1, <2>2, BrokenIsLocal
  <1>5. Broken(t, longer) \subseteq 1 .. n + 1 /\ Broken(t, trail) \subseteq 1 .. n
    BY <1>2 DEF Broken, n
  <1>6. ASSUME l = NextLink(trail)
        PROVE  n + 1 \notin Broken(t, longer)
    <2>1. ExpectedPrevious(longer, n + 1) = l.previous_hash
      <3>1. CASE n = 0
        BY <1>1, <1>6, <3>1 DEF ExpectedPrevious, NextLink
      <3>2. CASE n # 0
        <4>1. longer[n] = trail[n] /\ (n + 1) - 1 = n /\ n + 1 # 1
          BY <1>1, <1>2, <3>2
        <4>2. QED
          BY <1>1, <1>6, <3>2, <4>1 DEF ExpectedPrevious, NextLink, n
      <3>3. QED
        BY <3>1, <3>2
    <2>2. QED
      BY <1>2, <1>3, <2>1 DEF Broken
  <1>7. /\ Broken(t, longer) \subseteq Broken(t, trail) \cup {n + 1}
        /\ Broken(t, trail) \subseteq Broken(t, longer)
        /\ l = NextLink(trail) => Broken(t, longer) = Broken(t, trail)
    <2>1. \A i \in 1 .. n + 1 : i \in 1 .. n \/ i = n + 1
      BY <1>1
    <2>2. /\ Broken(t, longer) \subseteq Broken(t, trail) \cup {n + 1}
          /\ Broken(t, trail) \subseteq Broken(t, longer)
      BY <1>4, <1>5, <2>1
    <2>3. QED
      BY <1>6, <2>2
  <1>8. QED
    BY <1>7 DEF longer, row, n

-----------------------------------------------------------------------------
(* What an edit does to a trail. *)

(* A sequence without its i-th element: those behind it move up by one.     *)
LEMMA WithoutFacts ==
  ASSUME NEW S, NEW s \in Seq(S), NEW i \in 1 .. Len(s)
  PROVE  /\ Without(s, i) \in Seq(S)
         /\ Len(Without(s, i)) = Len(s) - 1
         /\ \A j \in 1 .. Len(s) - 1 :
              Without(s, i)[j] = IF j < i THEN s[j] ELSE s[j + 1]
  <1> DEFINE front == SubSeq(s, 1, i - 1)
             back == SubSeq(s, i + 1, Len(s))
  <1>1. Len(s) \in Nat /\ i \in Nat /\ 1 <= i /\ i <= Len(s)
    BY LenProperties
  <1>2. \A j \in 1 .. Len(s) : s[j] \in S
    BY ElementOfSeq
  <1>3. /\ front \in Seq(S)
        /\ Len(front) = i - 1
        /\ \A j \in 1 .. i - 1 : front[j] = s[j]
    <2>1. \A j \in 1 .. i - 1 : s[j] \in S
      BY <1>1, <1>2
    <2>2. /\ front \in Seq(S)
          /\ Len(front) = IF 1 <= i - 1 THEN (i - 1) - 1 + 1 ELSE 0
          /\ \A j \in 1 .. (i - 1) - 1 + 1 : front[j] = s[1 + j - 1]
      BY <1>1, <2>1, SubSeqProperties
    <2> HIDE DEF front
    <2>3. \A j \in 1 .. i - 1 : 1 + j - 1 = j /\ j \in 1 .. (i - 1) - 1 + 1
      BY <1>1
    <2>4. QED
      BY <1>1, <2>2, <2>3
  <1>4. /\ back \in Seq(S)
        /\ Len(back) = Len(s) - i
        /\ \A j \in 1 .. Len(s) - i : back[j] = s[i + j]
    <2>1. \A j \in i + 1 .. Len(s) : s[j] \in S
      BY <1>1, <1>2
    <2>2. /\ back \in Seq(S)
          /\ Len(back) = IF i + 1 <= Len(s) THEN Len(s) - (i + 1) + 1 ELSE 0
          /\ \A j \in 1 .. Len(s) - (i + 1) + 1 : back[j] = s[(i + 1) + j - 1]
      BY <1>1, <2>1, SubSeqProperties
    <2> HIDE DEF back
    <2>3. \A j \in 1 .. Len(s) - i :
            (i + 1) + j - 1 = i + j /\ j \in 1 .. Len(s) - (i + 1) + 1
      BY <1>1
    <2>4. QED
      BY <1>1, <2>2, <2>3
  <1> HIDE DEF front, back
  <1>5. /\ front \o back \in Seq(S)
        /\ Len(front \o back) = (i - 1) + (Len(s) - i)
        /\ \A j \in 1 .. (i - 1) + (Len(s) - i) :
             (front \o back)[j] = IF j <= i - 1 THEN front[j] ELSE back[j - (i - 1)]
    <2>1. /\ front \o back \in Seq(S)
          /\ Len(front \o back) = Len(front) + Len(back)
          /\ \A j \in 1 .. Len(front) + Len(back) :
               (front \o back)[j] = IF j <= Len(front) THEN front[j] ELSE back[j - Len(front)]
      BY <1>3, <1>4, ConcatProperties
    <2>2. Len(front) = i - 1 /\ Len(back) = Len(s) - i
      BY <1>3, <1>4
    <2>3. QED
      BY <2>1, <2>2
  <1>6. (i - 1) + (Len(s) - i) = Len(s) - 1
    BY <1>1
  <1>7. ASSUME NEW j \in 1 .. Len(s) - 1
        PROVE  (front \o back)[j] = IF j < i THEN s[j] ELSE s[j + 1]
    <2>1. CASE j < i
      BY <1>1, <1>3, <1>5, <1>6, <2>1
    <2>2. CASE ~(j < i)
      <3>1. j - (i - 1) \in 1 .. Len(s) - i /\ i + (j - (i - 1)) = j + 1 /\ ~(j <= i - 1)
        BY <1>1, <2>2
      <3>2. (front \o back)[j] = back[j - (i - 1)]
        BY <1>5, <1>6, <3>1
      <3>3. QED
        BY <1>4, <2>2, <3>1, <3>2
    <2>3. QED
      BY <2>1, <2>2
  <1>8. Without(s, i) = front \o back
    BY DEF Without, front, back
  <1>9. QED
    BY <1>5, <1>6, <1>7, <1>8

\* The rows of a trail are those record() made of the sealed events.
HonestTrail(t, trail, seals) ==
  \A j \in 1 .. Len(trail) : HonestRow(t, trail[j], seals[j].event)

(* Deleting a row from an intact trail breaks exactly the row behind it,    *)
(* which carries the next number; deleting the last row breaks nothing.     *)
LEMMA BrokenWithout ==
  ASSUME NEW t \in Tenants, NEW trail \in Seq(Rows), NEW i \in 1 .. Len(trail),
         NEW seals \in Seq(Seals), Len(seals) = Len(trail),
         HonestTrail(t, trail, seals), Broken(t, trail) = {}
  PROVE  /\ Broken(t, Without(trail, i)) = (IF i < Len(trail) THEN {i} ELSE {})
         /\ i < Len(trail) =>
              /\ Without(trail, i)[i].sequence = trail[i].sequence + 1
              /\ NextLink(Without(trail, i)) = NextLink(trail)
  <1> DEFINE shorter == Without(trail, i)
             n == Len(trail)
  <1>1. n \in Nat /\ i \in Nat /\ 1 <= i /\ i <= n
    BY LenProperties
  <1>2. /\ shorter \in Seq(Rows)
        /\ Len(shorter) = n - 1
        /\ \A j \in 1 .. n - 1 : shorter[j] = IF j < i THEN trail[j] ELSE trail[j + 1]
    BY WithoutFacts
  <1> HIDE DEF shorter, n
  <1>3. \A j \in 1 .. n : seals[j].event \in Events /\ HonestRow(t, trail[j], seals[j].event)
    BY SealFacts DEF HonestTrail, n
  <1>4. \A j \in 1 .. n : trail[j].previous_hash = ExpectedPrevious(trail, j)
                          /\ trail[j].event = seals[j].event
    BY <1>3, BrokenMeans DEF n
  <1>5. Broken(t, shorter) \subseteq 1 .. n - 1
    BY <1>2 DEF Broken
  <1>6. ASSUME NEW j \in 1 .. n - 1, j < i
        PROVE  j \notin Broken(t, shorter)
    <2>1. j \in 1 .. n /\ j \in 1 .. Len(shorter) /\ shorter[j] = trail[j]
      BY <1>1, <1>2, <1>6
    <2>2. ExpectedPrevious(shorter, j) = ExpectedPrevious(trail, j)
      <3>1. CASE j = 1
        BY <3>1 DEF ExpectedPrevious
      <3>2. CASE j # 1
        <4>1. j - 1 \in 1 .. n - 1 /\ j - 1 < i
          BY <1>1, <1>6, <3>2
        <4>2. QED
          BY <1>2, <3>2, <4>1 DEF ExpectedPrevious
      <3>3. QED
        BY <3>1, <3>2
    <2>3. QED
      BY <2>1, <2>2, BrokenIsLocal DEF n
  <1>7. ASSUME NEW j \in 1 .. n - 1, i < j
        PROVE  j \notin Broken(t, shorter)
    <2>1. /\ j + 1 \in 1 .. n /\ j \in 1 .. Len(shorter) /\ shorter[j] = trail[j + 1]
          /\ j - 1 \in 1 .. n - 1 /\ ~(j - 1 < i) /\ (j - 1) + 1 = j /\ (j + 1) - 1 = j
          /\ j # 1 /\ j + 1 # 1
      BY <1>1, <1>2, <1>7
    <2>2. shorter[j - 1] = trail[j]
      BY <1>2, <2>1
    <2>3. ExpectedPrevious(shorter, j) = ExpectedPrevious(trail, j + 1)
      BY <2>1, <2>2 DEF ExpectedPrevious
    <2>4. seals[j + 1].event \in Events /\ HonestRow(t, shorter[j], seals[j + 1].event)
      BY <1>3, <2>1
    <2>5. /\ shorter[j].previous_hash = ExpectedPrevious(shorter, j)
          /\ shorter[j].event = seals[j + 1].event
      BY <1>4, <2>1, <2>3
    <2>6. QED
      BY <1>2, <2>1, <2>4, <2>5, BrokenMeans
  <1>8. ASSUME i < n
        PROVE  /\ i \in Broken(t, shorter)
               /\ shorter[i].sequence = trail[i].sequence + 1
    <2>1. /\ i + 1 \in 1 .. n /\ i \in 1 .. n /\ i \in 1 .. Len(shorter) /\ (i + 1) - 1 = i
          /\ shorter[i] = trail[i + 1] /\ i + 1 # 1
      BY <1>1, <1>2, <1>8
    <2>2. ExpectedPrevious(trail, i + 1) = trail[i].entry_hash
      BY <2>1 DEF ExpectedPrevious
    <2>3. shorter[i].previous_hash = trail[i].entry_hash
      BY <1>4, <2>1, <2>2
    <2>4. /\ Len(trail[i].entry_hash) = trail[i].sequence
          /\ trail[i].sequence = Len(trail[i].previous_hash) + 1
          /\ trail[i].sequence \in Nat /\ Len(trail[i].previous_hash) \in Nat
      BY <1>3, <2>1, HonestCounts, RowFacts DEF HonestRow, n
    <2>5. shorter[i].sequence = Len(shorter[i].previous_hash) + 1
      BY <1>3, <2>1 DEF HonestRow
    <2>6. ExpectedPrevious(shorter, i) = ExpectedPrevious(trail, i)
      <3>1. CASE i = 1
        BY <3>1 DEF ExpectedPrevious
      <3>2. CASE i # 1
        <4>1. i - 1 \in 1 .. n - 1 /\ i - 1 < i
          BY <1>1, <3>2
        <4>2. QED
          BY <1>2, <3>2, <4>1 DEF ExpectedPrevious
      <3>3. QED
        BY <3>1, <3>2
    <2>7. Len(ExpectedPrevious(shorter, i)) = Len(trail[i].previous_hash)
      BY <1>4, <2>1, <2>6
    <2>8. shorter[i].previous_hash # ExpectedPrevious(shorter, i)
      BY <2>3, <2>4, <2>7
    <2>9. QED
      BY <2>1, <2>3, <2>4, <2>5, <2>8 DEF Broken
  <1>9. ASSUME i < n
        PROVE  NextLink(shorter) = NextLink(trail)
    <2>1. n - 1 \in 1 .. n - 1 /\ ~(n - 1 < i) /\ (n - 1) + 1 = n /\ n # 0 /\ n - 1 # 0
      BY <1>1, <1>9
    <2>2. shorter # << >> /\ trail # << >>
      BY <1>2, <2>1, EmptySeq DEF n
    <2>3. shorter[Len(shorter)] = trail[Len(trail)]
      BY <1>2, <2>1 DEF n
    <2>4. QED
      BY <2>2, <2>3 DEF NextLink
  <1>10. Broken(t, shorter) = IF i < n THEN {i} ELSE {}
    <2>1. \A j \in 1 .. n - 1 : j < i \/ i < j \/ (j = i /\ i < n)
      BY <1>1
    <2>2. Broken(t, shorter) \subseteq {i} /\ (i \in Broken(t, shorter) => i < n)
      <3>1. \A j \in 1 .. n - 1 : j \in Broken(t, shorter) => j = i /\ i < n
        BY <1>6, <1>7, <2>1
      <3>2. QED
        BY <1>5, <3>1
    <2>3. QED
      BY <1>8, <2>2
  <1>11. QED
    BY <1>8, <1>9, <1>10 DEF shorter, n

(* No row that is left of an intact trail is garbled.                       *)
LEMMA DeletedIsReadable ==
  ASSUME NEW t \in Tenants, NEW trail \in Seq(Rows), NEW i \in 1 .. Len(trail),
         Broken(t, trail) = {}, i < Len(trail)
  PROVE  Without(trail, i)[i].event # NotJson
  <1>1. i \in 1 .. Len(trail) - 1 /\ i + 1 \in 1 .. Len(trail) /\ ~(i < i)
    BY LenProperties
  <1>2. Without(trail, i)[i] = trail[i + 1]
    BY <1>1, WithoutFacts
  <1>3. trail[i + 1].event # NotJson
    BY <1>1 DEF Broken
  <1>4. QED
    BY <1>2, <1>3

Altered(trail, i, e) == [trail EXCEPT ![i].event = e]

(* An altered row keeps its number and its hashes; the others stay as they  *)
(* are, and so does the link the next record() will select.                 *)
LEMMA AlteredRow ==
  ASSUME NEW trail \in Seq(Rows), NEW i \in 1 .. Len(trail), NEW e \in Payloads
  PROVE  LET forged == Altered(trail, i, e) IN
         /\ forged \in Seq(Rows)
         /\ Len(forged) = Len(trail)
         /\ \A j \in 1 .. Len(trail) :
              /\ forged[j].sequence = trail[j].sequence
              /\ forged[j].previous_hash = trail[j].previous_hash
              /\ forged[j].entry_hash = trail[j].entry_hash
              /\ forged[j].event = IF j = i THEN e ELSE trail[j].event
         /\ NextLink(forged) = NextLink(trail)
  <1> DEFINE row == [trail[i] EXCEPT !.event = e]
             forged == Altered(trail, i, e)
  <1>1. trail[i] \in Rows
    BY RowFacts
  <1>2. /\ row \in Rows
        /\ row.sequence = trail[i].sequence
        /\ row.previous_hash = trail[i].previous_hash
        /\ row.entry_hash = trail[i].entry_hash
        /\ row.event = e
    BY <1>1 DEF Rows
  <1> HIDE DEF row
  <1>3. forged = [trail EXCEPT ![i] = row]
    BY DEF row, Altered
  <1> HIDE DEF forged
  <1>4. /\ forged \in Seq(Rows)
        /\ Len(forged) = Len(trail)
        /\ \A j \in 1 .. Len(trail) : forged[j] = IF j = i THEN row ELSE trail[j]
    BY <1>2, <1>3, ExceptSeq
  <1>5. \A j \in 1 .. Len(trail) :
          /\ forged[j].sequence = trail[j].sequence
          /\ forged[j].previous_hash = trail[j].previous_hash
          /\ forged[j].entry_hash = trail[j].entry_hash
          /\ forged[j].event = IF j = i THEN e ELSE trail[j].event
    BY <1>2, <1>4
  <1>6. NextLink(forged) = NextLink(trail)
    <2>1. Len(trail) \in 1 .. Len(trail) /\ Len(trail) # 0
      BY LenProperties
    <2>2. forged # << >> /\ trail # << >>
      BY <1>4, <2>1, EmptySeq
    <2>3. QED
      BY <1>4, <1>5, <2>1, <2>2 DEF NextLink
  <1>7. QED
    BY <1>4, <1>5, <1>6 DEF forged

(* Altering the payload of a row of an intact trail breaks exactly it.      *)
LEMMA BrokenAlter ==
  ASSUME NEW t \in Tenants, NEW trail \in Seq(Rows), NEW i \in 1 .. Len(trail),
         NEW seals \in Seq(Seals), Len(seals) = Len(trail),
         HonestTrail(t, trail, seals), Broken(t, trail) = {},
         NEW e \in Payloads, trail[i].event # e
  PROVE  Broken(t, Altered(trail, i, e)) = {i}
  <1> DEFINE forged == Altered(trail, i, e)
  <1>1. Len(trail) \in Nat /\ DOMAIN trail = 1 .. Len(trail) /\ trail[i] \in Rows
    BY LenProperties, RowFacts
  <1>2. /\ forged \in Seq(Rows)
        /\ Len(forged) = Len(trail)
        /\ \A j \in 1 .. Len(trail) :
             /\ forged[j].sequence = trail[j].sequence
             /\ forged[j].previous_hash = trail[j].previous_hash
             /\ forged[j].entry_hash = trail[j].entry_hash
             /\ forged[j].event = IF j = i THEN e ELSE trail[j].event
    BY AlteredRow
  <1> HIDE DEF forged
  <1>3. \A j \in 1 .. Len(trail) : seals[j].event \in Events /\ HonestRow(t, trail[j], seals[j].event)
    BY SealFacts DEF HonestTrail
  <1>4. \A j \in 1 .. Len(trail) : trail[j].previous_hash = ExpectedPrevious(trail, j)
                                   /\ trail[j].event = seals[j].event
    BY <1>3, BrokenMeans
  <1>5. ASSUME NEW j \in 1 .. Len(trail)
        PROVE  j \in Broken(t, forged) <=> j = i
    <2>1. ExpectedPrevious(forged, j) = ExpectedPrevious(trail, j)
      <3>1. j = 1 \/ j - 1 \in 1 .. Len(trail)
        BY <1>1
      <3>2. QED
        BY <1>2, <3>1 DEF ExpectedPrevious
    <2>2. HonestRow(t, forged[j], seals[j].event)
      BY <1>2, <1>3 DEF HonestRow
    <2>3. j \in Broken(t, forged) <=>
            forged[j].previous_hash # ExpectedPrevious(forged, j) \/ forged[j].event # seals[j].event
      BY <1>2, <1>3, <2>2, BrokenMeans
    <2>4. QED
      BY <1>2, <1>4, <2>1, <2>3
  <1>6. Broken(t, forged) \subseteq 1 .. Len(trail)
    BY <1>2 DEF Broken
  <1>7. Broken(t, forged) = {i}
    BY <1>5, <1>6
  <1>8. QED
    BY <1>7 DEF forged

Rewritten(t, trail, i, e) == [trail EXCEPT ![i] = Resealed(t, trail[i], e)]

(* A rehashed row keeps its number and its link, tells the new event and    *)
(* carries the hash of that; the other rows stay as they are.               *)
LEMMA RewrittenRow ==
  ASSUME NEW t \in Tenants, NEW trail \in Seq(Rows), NEW i \in 1 .. Len(trail),
         NEW e \in Events
  PROVE  LET forged == Rewritten(t, trail, i, e) IN
         /\ forged \in Seq(Rows)
         /\ Len(forged) = Len(trail)
         /\ \A j \in 1 .. Len(trail) :
              /\ forged[j].sequence = trail[j].sequence
              /\ forged[j].previous_hash = trail[j].previous_hash
              /\ j # i => forged[j] = trail[j]
         /\ forged[i].event = e
         /\ forged[i].entry_hash = Hash(trail[i].previous_hash, Body(t, trail[i].sequence, e))
  <1> DEFINE h == Hash(trail[i].previous_hash, Body(t, trail[i].sequence, e))
             row == Resealed(t, trail[i], e)
             forged == Rewritten(t, trail, i, e)
  <1>1. trail[i] \in Rows
    BY RowFacts
  <1>2. h \in Hashes
    <2>1. /\ trail[i].previous_hash \in Seq(Bodies)
          /\ Body(t, trail[i].sequence, e) \in Bodies
      BY RowFacts, BodyFacts
    <2>2. QED
      BY <2>1, HashFacts DEF Hashes
  <1>3. row = [trail[i] EXCEPT !.event = e, !.entry_hash = h]
    BY DEF Resealed
  <1> HIDE DEF h, row
  <1>4. /\ row \in Rows
        /\ row.sequence = trail[i].sequence
        /\ row.previous_hash = trail[i].previous_hash
        /\ row.entry_hash = h
        /\ row.event = e
    BY <1>1, <1>2, <1>3 DEF Rows, Payloads
  <1>5. forged = [trail EXCEPT ![i] = row]
    BY DEF row, Rewritten
  <1> HIDE DEF forged
  <1>6. /\ forged \in Seq(Rows)
        /\ Len(forged) = Len(trail)
        /\ \A j \in 1 .. Len(trail) : forged[j] = IF j = i THEN row ELSE trail[j]
    BY <1>4, <1>5, ExceptSeq
  <1>7. QED
    BY <1>4, <1>6 DEF forged, h

(* Rehashing a row of an intact trail breaks exactly the row behind it,     *)
(* which carries the next number; rehashing the last row breaks nothing.    *)
LEMMA BrokenRewritten ==
  ASSUME NEW t \in Tenants, NEW trail \in Seq(Rows), NEW i \in 1 .. Len(trail),
         NEW seals \in Seq(Seals), Len(seals) = Len(trail),
         HonestTrail(t, trail, seals), Broken(t, trail) = {},
         NEW e \in Events, seals[i].event # e
  PROVE  /\ Broken(t, Rewritten(t, trail, i, e)) = (IF i < Len(trail) THEN {i + 1} ELSE {})
         /\ i < Len(trail) =>
              /\ Rewritten(t, trail, i, e)[i + 1].sequence = trail[i].sequence + 1
              /\ Rewritten(t, trail, i, e)[i + 1].event # NotJson
              /\ NextLink(Rewritten(t, trail, i, e)) = NextLink(trail)
  <1> DEFINE forged == Rewritten(t, trail, i, e)
             n == Len(trail)
             Sealed(j) == IF j = i THEN e ELSE seals[j].event
  <1>1. n \in Nat /\ i \in Nat /\ 1 <= i /\ i <= n
    BY LenProperties
  <1>2. /\ forged \in Seq(Rows)
        /\ Len(forged) = n
        /\ \A j \in 1 .. n : /\ forged[j].sequence = trail[j].sequence
                             /\ forged[j].previous_hash = trail[j].previous_hash
                             /\ j # i => forged[j] = trail[j]
        /\ forged[i].event = e
        /\ forged[i].entry_hash = Hash(trail[i].previous_hash, Body(t, trail[i].sequence, e))
    BY RewrittenRow
  <1> HIDE DEF forged, n
  <1>3. \A j \in 1 .. n : seals[j].event \in Events /\ HonestRow(t, trail[j], seals[j].event)
    BY SealFacts DEF HonestTrail, n
  <1>4. \A j \in 1 .. n : trail[j].previous_hash = ExpectedPrevious(trail, j)
                          /\ trail[j].event = seals[j].event
    BY <1>3, BrokenMeans DEF n
  <1>5. ASSUME NEW j \in 1 .. n
        PROVE  j \in Broken(t, forged) <=> forged[j].previous_hash # ExpectedPrevious(forged, j)
    <2>1. Sealed(j) \in Events /\ forged[j].event = Sealed(j)
      BY <1>2, <1>3, <1>4
    <2>2. HonestRow(t, forged[j], Sealed(j))
      BY <1>2, <1>3 DEF HonestRow
    <2> HIDE DEF Sealed
    <2>3. QED
      BY <1>2, <2>1, <2>2, BrokenMeans
  <1>6. ASSUME NEW j \in 1 .. n, j # i + 1
        PROVE  j \notin Broken(t, forged)
    <2>1. ExpectedPrevious(forged, j) = ExpectedPrevious(trail, j)
      <3>1. CASE j = 1
        BY <3>1 DEF ExpectedPrevious
      <3>2. CASE j # 1
        <4>1. j - 1 \in 1 .. n /\ j - 1 # i
          BY <1>1, <1>6, <3>2
        <4>2. QED
          BY <1>2, <3>2, <4>1 DEF ExpectedPrevious
      <3>3. QED
        BY <3>1, <3>2
    <2>2. QED
      BY <1>2, <1>4, <1>5, <2>1
  <1>7. ASSUME i < n
        PROVE  /\ i + 1 \in Broken(t, forged)
               /\ forged[i + 1].sequence = trail[i].sequence + 1
               /\ forged[i + 1].event # NotJson
    <2>1. i + 1 \in 1 .. n /\ i \in 1 .. n /\ (i + 1) - 1 = i /\ i + 1 # 1 /\ i + 1 # i
      BY <1>1, <1>7
    <2>2. /\ trail[i + 1].previous_hash = trail[i].entry_hash
          /\ ExpectedPrevious(forged, i + 1) = forged[i].entry_hash
      BY <1>4, <2>1 DEF ExpectedPrevious
    <2>3. /\ trail[i].previous_hash \in Seq(Bodies)
          /\ Body(t, trail[i].sequence, e) \in Bodies
          /\ Body(t, trail[i].sequence, seals[i].event) \in Bodies
          /\ Body(t, trail[i].sequence, e) # Body(t, trail[i].sequence, seals[i].event)
      BY <1>3, <2>1, RowFacts, BodyFacts DEF n
    <2>4. trail[i].entry_hash # forged[i].entry_hash
      <3>1. trail[i].entry_hash =
              Hash(trail[i].previous_hash, Body(t, trail[i].sequence, seals[i].event))
        BY <1>3, <2>1 DEF HonestRow
      <3>2. QED
        BY <1>2, <2>3, <3>1, HashFacts
    <2>5. i + 1 \in Broken(t, forged)
      BY <1>2, <1>5, <2>1, <2>2, <2>4
    <2>6. /\ Len(trail[i].entry_hash) = trail[i].sequence
          /\ trail[i + 1].sequence = Len(trail[i + 1].previous_hash) + 1
      BY <1>3, <2>1, HonestCounts DEF HonestRow, n
    <2>7. trail[i + 1].event # NotJson
      BY <1>3, <1>4, <2>1, ConstantsAssumption
    <2>8. QED
      BY <1>2, <2>1, <2>2, <2>5, <2>6, <2>7
  <1>8. ASSUME i < n
        PROVE  NextLink(forged) = NextLink(trail)
    <2>1. n \in 1 .. n /\ n # i /\ n # 0
      BY <1>1, <1>8
    <2>2. forged # << >> /\ trail # << >>
      BY <1>2, <2>1, EmptySeq DEF n
    <2>3. forged[Len(forged)] = trail[Len(trail)]
      BY <1>2, <2>1 DEF n
    <2>4. QED
      BY <2>2, <2>3 DEF NextLink
  <1>9. Broken(t, forged) \subseteq 1 .. n
    BY <1>2 DEF Broken
  <1>10. Broken(t, forged) = IF i < n THEN {i + 1} ELSE {}
    <2>1. CASE i < n
      BY <1>6, <1>7, <1>9, <2>1
    <2>2. CASE ~(i < n)
      <3>1. \A j \in 1 .. n : j # i + 1
        BY <1>1, <2>2
      <3>2. QED
        BY <1>6, <1>9, <2>2, <3>1
    <2>3. QED
      BY <2>1, <2>2
  <1>11. QED
    BY <1>7, <1>8, <1>10 DEF forged, n

-----------------------------------------------------------------------------
(* What a step of the program does to the trails and the links. *)

\* The trail of t stays, goes back to what is committed, or gets one row.
TrailEffect(t) ==
  /\ durable[t] <= durable'[t]
  /\ \/ rows'[t] = rows[t]
     \/ rows'[t] = Committed(t)
     \/ \E th \in Threads :
          /\ pc[th] = "insert"
          /\ request[th].tenant = t
          /\ rows'[t] = Append(rows[t], RowFor(request[th], link[th]))

\* A thread about to insert was so before the step, or has just selected.
LinkEffect ==
  \A th \in Threads :
    pc'[th] = "insert" =>
      /\ rows' = rows
      /\ request'[th] = request[th]
      /\ \/ pc[th] = "insert" /\ link'[th] = link[th]
         \/ link'[th] = NextLink(rows[request[th].tenant])

ProgramEffect == TypeOK' /\ Exclusive' /\ (\A t \in Tenants : TrailEffect(t)) /\ LinkEffect

(* The arguments of no call are of the right type.                          *)
LEMMA IdleArguments == AnyRequest \in Requests /\ NoLink \in Links
  <1>1. PICK t \in Tenants, e \in Events : TRUE
    BY ConstantsAssumption
  <1>2. [tenant |-> t, event |-> e] \in Requests
    BY DEF Requests
  <1>3. QED
    BY <1>2 DEF AnyRequest, NoLink, Links, GENESIS, Hashes

(* What SELECT computes is a link, whatever the trail looks like.           *)
LEMMA NextLinkIsLink ==
  ASSUME NEW trail \in Seq(Rows)
  PROVE  NextLink(trail) \in Links
  <1>1. CASE trail = << >>
    BY <1>1 DEF NextLink, Links, GENESIS, Hashes
  <1>2. CASE trail # << >>
    <2>1. Len(trail) \in 1 .. Len(trail)
      BY <1>2, EmptySeq
    <2>2. trail[Len(trail)].sequence \in Nat /\ trail[Len(trail)].entry_hash \in Seq(Bodies)
      BY <2>1, RowFacts
    <2>3. QED
      BY <1>2, <2>2 DEF NextLink, Links, Hashes
  <1>3. QED
    BY <1>1, <1>2

(* After an error, or a crash, every trail is what it was or what is        *)
(* committed of it.                                                         *)
LEMMA TrailsAfterError ==
  ASSUME TypeOK, AfterError, durable' = durable
  PROVE  /\ rows' \in [Tenants -> Seq(Rows)]
         /\ \A t \in Tenants : TrailEffect(t) /\ durable'[t] <= Len(rows'[t])
  <1>1. ASSUME NEW t \in Tenants
        PROVE  /\ rows[t] \in Seq(Rows)
               /\ durable[t] \in Nat
               /\ durable[t] <= Len(rows[t])
               /\ Committed(t) \in Seq(Rows)
               /\ Len(Committed(t)) = durable[t]
    BY <1>1, PrefixFacts DEF TypeOK, Committed
  <1>2. CASE rows' = rows
    BY <1>1, <1>2 DEF TypeOK, TrailEffect
  <1>3. CASE rows' = OnDisk
    <2>1. \A t \in Tenants : rows'[t] = Committed(t)
      BY <1>3 DEF OnDisk
    <2>2. rows' \in [Tenants -> Seq(Rows)]
      BY <1>1, <1>3 DEF OnDisk
    <2>3. QED
      BY <1>1, <2>1, <2>2 DEF TrailEffect
  <1>4. QED
    BY <1>2, <1>3 DEF AfterError

(* A commit leaves the trails alone and covers all of them.                 *)
LEMMA TrailsAfterCommit ==
  ASSUME TypeOK, rows' = rows, durable' = AllRows
  PROVE  /\ rows' \in [Tenants -> Seq(Rows)]
         /\ durable' \in [Tenants -> Nat]
         /\ \A t \in Tenants : TrailEffect(t) /\ durable'[t] <= Len(rows'[t])
  <1>1. ASSUME NEW t \in Tenants
        PROVE  /\ Len(rows[t]) \in Nat
               /\ durable[t] \in Nat
               /\ durable[t] <= Len(rows[t])
               /\ durable'[t] = Len(rows[t])
    <2>1. rows[t] \in Seq(Rows)
      BY DEF TypeOK
    <2>2. QED
      BY <2>1, LenProperties DEF TypeOK, AllRows
  <1>2. durable' \in [Tenants -> Nat]
    BY <1>1 DEF AllRows
  <1>3. QED
    BY <1>1, <1>2 DEF TypeOK, TrailEffect

(* A receipt is a receipt.                                                  *)
LEMMA ReceiptType ==
  ASSUME TypeOK, NEW th \in Threads
  PROVE  Receipt(request[th], link[th]) \in [tenant : Tenants, sequence : Nat, event : Events]
  <1>1. request[th] \in Requests /\ link[th] \in Links
    BY DEF TypeOK
  <1>2. QED
    BY <1>1 DEF Receipt, Requests, Links

(* A step after which nobody is inside record() has the effect described.   *)
LEMMA IdleEffect ==
  ASSUME TypeOK,
         rows' \in [Tenants -> Seq(Rows)],
         durable' \in [Tenants -> Nat],
         \A t \in Tenants : TrailEffect(t) /\ durable'[t] <= Len(rows'[t]),
         lock' \in Threads \cup {NoThread},
         pc' = [th \in Threads |-> "idle"],
         request' \in [Threads -> Requests],
         link' \in [Threads -> Links],
         acknowledged' \subseteq [tenant : Tenants, sequence : Nat, event : Events]
  PROVE  ProgramEffect
  <1>1. \A th \in Threads : pc'[th] = "idle"
    OBVIOUS
  <1>2. TypeOK'
    BY DEF TypeOK
  <1>3. Exclusive' /\ LinkEffect
    BY <1>1 DEF Exclusive, LinkEffect
  <1>4. QED
    BY <1>2, <1>3 DEF ProgramEffect

(* Taking the lock and selecting leave the trails alone.                    *)
LEMMA SelectEffect ==
  ASSUME TypeOK, Exclusive, NEW th \in Threads,
         (\E r \in Requests : Acquire(th, r)) \/ Select(th)
  PROVE  ProgramEffect
  <1>1. rows' = rows /\ durable' = durable /\ acknowledged' = acknowledged
    BY DEF Acquire, Select
  <1>2. \A t \in Tenants : TrailEffect(t)
    <2>1. \A t \in Tenants : durable[t] \in Nat
      BY DEF TypeOK
    <2>2. QED
      BY <1>1, <2>1 DEF TrailEffect
  <1>3. CASE \E r \in Requests : Acquire(th, r)
    <2>1. PICK r \in Requests : Acquire(th, r)
      BY <1>3
    <2>2. \A x \in Threads : pc[x] = "idle"
      BY <2>1, ConstantsAssumption DEF Acquire, Exclusive
    <2>3. TypeOK'
      BY <2>1 DEF TypeOK, Acquire
    <2>4. Exclusive' /\ LinkEffect
      BY <2>1, <2>2 DEF TypeOK, Acquire, Exclusive, LinkEffect
    <2>5. QED
      BY <1>2, <2>3, <2>4 DEF ProgramEffect
  <1>4. CASE Select(th)
    <2>1. NextLink(rows[request[th].tenant]) \in Links
      BY NextLinkIsLink DEF TypeOK, Requests
    <2>2. TypeOK'
      BY <1>4, <2>1 DEF TypeOK, Select
    <2>3. \A x \in Threads : x # th => pc[x] = "idle"
      BY <1>4 DEF Exclusive, Select
    <2>4. Exclusive' /\ LinkEffect
      BY <1>4, <2>3 DEF TypeOK, Select, Exclusive, LinkEffect
    <2>5. QED
      BY <1>2, <2>2, <2>4 DEF ProgramEffect
  <1>5. QED
    BY <1>3, <1>4

(* An INSERT that is accepted appends the row of its request.               *)
LEMMA InsertEffect ==
  ASSUME TypeOK, Exclusive, NEW th \in Threads, Insert(th)
  PROVE  ProgramEffect
  <1> DEFINE u == request[th].tenant
             row == RowFor(request[th], link[th])
  <1>1. /\ request[th] \in Requests /\ link[th] \in Links
        /\ u \in Tenants /\ rows[u] \in Seq(Rows)
        /\ lock = th /\ pc[th] = "insert"
        /\ durable' = durable /\ acknowledged' = acknowledged
        /\ \A x \in Threads : x # th => pc[x] = "idle"
    BY DEF TypeOK, Requests, Insert, Exclusive
  <1>2. CASE Unique(rows[u], link[th].sequence)
    <2>1. /\ rows' = [rows EXCEPT ![u] = Append(rows[u], row)]
          /\ pc' = [pc EXCEPT ![th] = "commit"]
          /\ UNCHANGED <<lock, request, link>>
      BY <1>2 DEF Insert
    <2>2. row \in Rows
      BY <1>1, RowForType
    <2>3. /\ Append(rows[u], row) \in Seq(Rows)
          /\ Len(Append(rows[u], row)) = Len(rows[u]) + 1
          /\ Len(rows[u]) \in Nat
      BY <1>1, <2>2, AppendProperties, LenProperties
    <2> HIDE DEF u, row
    <2>4. \A t \in Tenants : rows'[t] = IF t = u THEN Append(rows[u], row) ELSE rows[t]
      BY <2>1 DEF TypeOK
    <2>5. rows' \in [Tenants -> Seq(Rows)]
      BY <1>1, <2>1, <2>3 DEF TypeOK
    <2>6. \A t \in Tenants : durable[t] \in Nat /\ durable[t] <= Len(rows'[t])
      <3> TAKE t \in Tenants
      <3>1. durable[t] \in Nat /\ durable[t] <= Len(rows[t])
        BY DEF TypeOK
      <3>2. CASE t = u
        <4>1. rows'[t] = Append(rows[u], row)
          BY <2>4, <3>2
        <4>2. durable[t] <= Len(rows[u]) + 1
          BY <2>3, <3>1, <3>2
        <4>3. QED
          BY <2>3, <3>1, <4>1, <4>2
      <3>3. CASE t # u
        BY <2>4, <3>1, <3>3
      <3>4. QED
        BY <3>2, <3>3
    <2>7. TypeOK'
      BY <1>1, <2>1, <2>5, <2>6 DEF TypeOK
    <2>8. \A t \in Tenants : TrailEffect(t)
      <3> TAKE t \in Tenants
      <3>1. durable[t] <= durable'[t]
        BY <1>1, <2>6
      <3>2. CASE t = u
        BY <1>1, <2>4, <3>1, <3>2 DEF TrailEffect, u, row
      <3>3. CASE t # u
        BY <2>4, <3>1, <3>3 DEF TrailEffect
      <3>4. QED
        BY <3>2, <3>3
    <2>9. Exclusive' /\ LinkEffect
      BY <1>1, <2>1 DEF TypeOK, Exclusive, LinkEffect
    <2>10. QED
      BY <2>7, <2>8, <2>9 DEF ProgramEffect
  <1>3. CASE ~Unique(rows[u], link[th].sequence)
    <2>1. Release(th) /\ rows' = rows
      BY <1>3 DEF Insert
    <2>2. /\ lock' \in Threads \cup {NoThread}
          /\ pc' = [x \in Threads |-> "idle"]
          /\ request' \in [Threads -> Requests]
          /\ link' \in [Threads -> Links]
      BY <1>1, <2>1, ReleaseFacts
    <2>3. /\ rows' \in [Tenants -> Seq(Rows)]
          /\ \A t \in Tenants : TrailEffect(t) /\ durable'[t] <= Len(rows'[t])
      BY <1>1, <2>1, TrailsAfterError DEF AfterError
    <2>4. QED
      BY <1>1, <2>2, <2>3, IdleEffect DEF TypeOK
  <1>4. QED
    BY <1>2, <1>3

(* However record() ends, it leaves no row that is not in the trail it had. *)
LEMMA EndEffect ==
  ASSUME TypeOK, Exclusive, NEW th \in Threads,
         InsertFails(th) \/ Commit(th) \/ CommitFails(th)
  PROVE  ProgramEffect
  <1>1. lock = th /\ Release(th)
    BY DEF Exclusive, InsertFails, Commit, CommitFails
  <1>2. /\ lock' \in Threads \cup {NoThread}
        /\ pc' = [x \in Threads |-> "idle"]
        /\ request' \in [Threads -> Requests]
        /\ link' \in [Threads -> Links]
    BY <1>1, ReleaseFacts
  <1>3. CASE InsertFails(th) \/ CommitFails(th)
    <2>1. AfterError /\ durable' = durable /\ acknowledged' = acknowledged
      BY <1>3 DEF InsertFails, CommitFails
    <2>2. /\ rows' \in [Tenants -> Seq(Rows)]
          /\ \A t \in Tenants : TrailEffect(t) /\ durable'[t] <= Len(rows'[t])
      BY <2>1, TrailsAfterError
    <2>3. QED
      BY <1>2, <2>1, <2>2, IdleEffect DEF TypeOK
  <1>4. CASE Commit(th)
    <2>1. /\ rows' \in [Tenants -> Seq(Rows)]
          /\ durable' \in [Tenants -> Nat]
          /\ \A t \in Tenants : TrailEffect(t) /\ durable'[t] <= Len(rows'[t])
      BY <1>4, TrailsAfterCommit DEF Commit
    <2>2. acknowledged' \subseteq [tenant : Tenants, sequence : Nat, event : Events]
      BY <1>4, ReceiptType DEF TypeOK, Commit
    <2>3. QED
      BY <1>2, <2>1, <2>2, IdleEffect
  <1>5. QED
    BY <1>3, <1>4

(* Neither the write of another table nor a crash adds a row.               *)
LEMMA OutsideEffect ==
  ASSUME TypeOK, Exclusive, OtherWrite \/ Crash
  PROVE  ProgramEffect
  <1>1. CASE OtherWrite
    <2>1. \A x \in Threads : pc[x] = "idle"
      BY <1>1, ConstantsAssumption DEF Exclusive, OtherWrite
    <2>2. /\ lock' \in Threads \cup {NoThread}
          /\ pc' = [x \in Threads |-> "idle"]
          /\ request' \in [Threads -> Requests]
          /\ link' \in [Threads -> Links]
          /\ acknowledged' \subseteq [tenant : Tenants, sequence : Nat, event : Events]
      BY <1>1, <2>1 DEF TypeOK, OtherWrite
    <2>3. CASE durable' = AllRows /\ UNCHANGED rows
      BY <2>2, <2>3, TrailsAfterCommit, IdleEffect
    <2>4. CASE AfterError /\ UNCHANGED durable
      <3>1. durable' \in [Tenants -> Nat]
        BY <2>4 DEF TypeOK
      <3>2. QED
        BY <2>2, <2>4, <3>1, TrailsAfterError, IdleEffect
    <2>5. QED
      BY <1>1, <2>3, <2>4 DEF OtherWrite
  <1>2. CASE Crash
    <2>1. AfterError /\ durable' = durable /\ durable' \in [Tenants -> Nat]
      BY <1>2 DEF Crash, AfterError, TypeOK
    <2>2. /\ lock' \in Threads \cup {NoThread}
          /\ pc' = [x \in Threads |-> "idle"]
          /\ request' \in [Threads -> Requests]
          /\ link' \in [Threads -> Links]
          /\ acknowledged' \subseteq [tenant : Tenants, sequence : Nat, event : Events]
      BY <1>2, IdleArguments DEF TypeOK, Crash
    <2>3. QED
      BY <2>1, <2>2, TrailsAfterError, IdleEffect
  <1>3. QED
    BY <1>1, <1>2

(* Every step of the program, taken on a file that may have been edited.    *)
LEMMA NextEffect ==
  ASSUME TypeOK, Exclusive, Next
  PROVE  ProgramEffect
  <1>1. CASE \E th \in Threads, r \in Requests : Acquire(th, r)
    BY <1>1, SelectEffect
  <1>2. CASE \E th \in Threads : ThreadStep(th)
    BY <1>2, SelectEffect, InsertEffect, EndEffect DEF ThreadStep
  <1>3. QED
    BY <1>1, <1>2, OutsideEffect DEF Next

-----------------------------------------------------------------------------
(* The steps of the program keep the invariant. *)

(* What a SELECT computes counts the rows, if the rows are honest.          *)
LEMMA NextLinkCounts ==
  ASSUME NEW t \in Tenants, NEW trail \in Seq(Rows), NEW seals \in Seq(Seals),
         Len(seals) = Len(trail), HonestTrail(t, trail, seals)
  PROVE  NextLink(trail).sequence = Len(NextLink(trail).previous_hash) + 1
  <1>1. CASE trail = << >>
    BY <1>1, EmptySeq DEF NextLink, GENESIS
  <1>2. CASE trail # << >>
    <2>1. Len(trail) \in 1 .. Len(trail)
      BY <1>2, EmptySeq
    <2>2. HonestRow(t, trail[Len(trail)], seals[Len(trail)].event) /\ seals[Len(trail)].event \in Events
      BY <2>1, SealFacts DEF HonestTrail
    <2>3. Len(trail[Len(trail)].entry_hash) = trail[Len(trail)].sequence
      BY <2>1, <2>2, HonestCounts
    <2>4. QED
      BY <1>2, <2>3 DEF NextLink
  <1>3. QED
    BY <1>1, <1>2

(* Every trail is typed, and its rows are honest.                           *)
LEMMA TrailFacts ==
  ASSUME TamperTypes, Honest, NEW t \in Tenants
  PROVE  /\ rows[t] \in Seq(Rows) /\ sealed[t] \in Seq(Seals)
         /\ Len(rows[t]) \in Nat /\ Len(sealed[t]) = Len(rows[t])
         /\ durable[t] \in Nat /\ durable[t] <= Len(rows[t])
         /\ HonestTrail(t, rows[t], sealed[t])
  BY LenProperties DEF TamperTypes, TypeOK, Honest, HonestTrail

\* What the step does to the history variable sealed.
SealedEffect ==
  sealed' = [t \in Tenants |-> [i \in 1 .. Len(rows'[t]) |->
                 IF i <= Len(rows[t])
                 THEN sealed[t][i]
                 ELSE [event |-> rows'[t][i].event, by |-> "record"]]]

(* The rows of a trail stay honest: those that stay, and the one that comes. *)
LEMMA TrailStaysHonest ==
  ASSUME TamperTypes, Honest, ProgramEffect, SealedEffect, NEW t \in Tenants
  PROVE  /\ sealed'[t] \in Seq(Seals)
         /\ Len(sealed'[t]) = Len(rows'[t])
         /\ HonestTrail(t, rows'[t], sealed'[t])
  <1> DEFINE n == Len(rows'[t])
             Seal(i) == IF i <= Len(rows[t])
                        THEN sealed[t][i]
                        ELSE [event |-> rows'[t][i].event, by |-> "record"]
  <1>1. /\ rows[t] \in Seq(Rows) /\ sealed[t] \in Seq(Seals)
        /\ Len(rows[t]) \in Nat /\ Len(sealed[t]) = Len(rows[t])
        /\ durable[t] \in Nat /\ durable[t] <= Len(rows[t])
        /\ HonestTrail(t, rows[t], sealed[t])
    BY TrailFacts
  <1>2. rows'[t] \in Seq(Rows) /\ n \in Nat
    BY LenProperties DEF ProgramEffect, TypeOK
  <1>3. \A i \in 1 .. Len(rows[t]) : sealed[t][i] \in Seals
                                     /\ HonestRow(t, rows[t][i], sealed[t][i].event)
    BY <1>1, SealFacts DEF HonestTrail
  <1>4. sealed'[t] = [i \in 1 .. n |-> Seal(i)]
    BY DEF SealedEffect
  <1> HIDE DEF n
  <1>5. ASSUME NEW i \in 1 .. n
        PROVE  Seal(i) \in Seals /\ HonestRow(t, rows'[t][i], Seal(i).event)
    <2>1. ASSUME i \in 1 .. Len(rows[t]), rows'[t][i] = rows[t][i]
          PROVE  Seal(i) \in Seals /\ HonestRow(t, rows'[t][i], Seal(i).event)
      <3>1. Seal(i) = sealed[t][i]
        BY <1>1, <2>1
      <3> HIDE DEF Seal
      <3>2. QED
        BY <1>3, <2>1, <3>1
    <2>2. CASE rows'[t] = rows[t]
      BY <2>1, <2>2 DEF n
    <2>3. CASE rows'[t] = Committed(t)
      <3>1. n = durable[t] /\ rows'[t][i] = rows[t][i]
        BY <1>1, <2>3, PrefixFacts DEF Committed, n
      <3>2. i \in 1 .. Len(rows[t])
        BY <1>1, <3>1
      <3>3. QED
        BY <2>1, <3>1, <3>2
    <2>4. ASSUME NEW th \in Threads,
                 pc[th] = "insert", request[th].tenant = t,
                 rows'[t] = Append(rows[t], RowFor(request[th], link[th]))
          PROVE  Seal(i) \in Seals /\ HonestRow(t, rows'[t][i], Seal(i).event)
      <3> DEFINE row == RowFor(request[th], link[th])
      <3>1. /\ request[th] \in Requests /\ link[th] \in Links
            /\ link[th].sequence = Len(link[th].previous_hash) + 1
        BY <2>4 DEF TamperTypes, TypeOK, Honest
      <3>2. row \in Rows
        BY <3>1, RowForType
      <3>3. HonestRow(t, row, row.event) /\ row.event \in Events
        BY <2>4, <3>1 DEF RowFor, HonestRow, Requests
      <3> HIDE DEF row
      <3>4. /\ n = Len(rows[t]) + 1
            /\ \A j \in 1 .. Len(rows[t]) : rows'[t][j] = rows[t][j]
            /\ rows'[t][Len(rows[t]) + 1] = row
        BY <1>1, <2>4, <3>2, AppendProperties DEF n, row
      <3>5. CASE i = Len(rows[t]) + 1
        <4>1. ~(i <= Len(rows[t])) /\ rows'[t][i] = row
          BY <1>1, <3>4, <3>5
        <4>2. Seal(i) = [event |-> row.event, by |-> "record"]
          BY <4>1
        <4>3. Seal(i) \in Seals /\ Seal(i).event = row.event
          BY <3>3, <4>2 DEF Seals
        <4> HIDE DEF Seal
        <4>4. QED
          BY <3>3, <4>1, <4>3
      <3>6. CASE i # Len(rows[t]) + 1
        <4>1. i \in 1 .. Len(rows[t])
          BY <1>1, <3>4, <3>6
        <4>2. QED
          BY <2>1, <3>4, <4>1
      <3>7. QED
        BY <3>5, <3>6
    <2>5. QED
      BY <2>2, <2>3, <2>4 DEF ProgramEffect, TrailEffect
  <1> HIDE DEF Seal
  <1>6. /\ sealed'[t] \in Seq(Seals) /\ Len(sealed'[t]) = n
        /\ \A i \in 1 .. n : sealed'[t][i] = Seal(i)
    BY <1>2, <1>4, <1>5, IsASeq
  <1>7. QED
    BY <1>5, <1>6 DEF HonestTrail, n

(* The program computes the hashes of the rows it adds itself, and changes  *)
(* nothing in the others.                                                   *)
LEMMA ProgramKeepsForged ==
  ASSUME TamperTypes, Honest, ForgedIsEdited, ProgramEffect, SealedEffect, edits' = edits
  PROVE  ForgedIsEdited'
  <1> SUFFICES ASSUME NEW t \in Tenants, NEW i \in 1 .. Len(rows'[t]),
                      sealed'[t][i].by = "editor"
               PROVE  Rehashed(t, rows'[t][i].sequence)
    BY DEF ForgedIsEdited, Rehashed
  <1>1. /\ rows[t] \in Seq(Rows) /\ Len(rows[t]) \in Nat
        /\ durable[t] \in Nat /\ durable[t] <= Len(rows[t])
    BY TrailFacts
  <1>2. i \in 1 .. Len(rows[t]) /\ sealed'[t][i] = sealed[t][i]
    <2>1. sealed'[t][i] = IF i <= Len(rows[t])
                          THEN sealed[t][i]
                          ELSE [event |-> rows'[t][i].event, by |-> "record"]
      BY DEF SealedEffect
    <2>2. i <= Len(rows[t])
      <3>1. [event |-> rows'[t][i].event, by |-> "record"].by # "editor"
        OBVIOUS
      <3>2. QED
        BY <2>1, <3>1
    <2>3. Len(rows'[t]) \in Nat
      BY LenProperties DEF ProgramEffect, TypeOK
    <2>4. QED
      BY <1>1, <2>1, <2>2, <2>3
  <1>3. rows'[t][i] = rows[t][i]
    <2>1. CASE rows'[t] = Committed(t)
      BY <1>1, <2>1, PrefixFacts DEF Committed
    <2>2. ASSUME NEW th \in Threads, rows'[t] = Append(rows[t], RowFor(request[th], link[th]))
          PROVE  rows'[t][i] = rows[t][i]
      <3>1. RowFor(request[th], link[th]) \in Rows
        BY RowForType DEF TamperTypes, TypeOK
      <3>2. QED
        BY <1>1, <1>2, <2>2, <3>1, AppendProperties
    <2>3. QED
      BY <2>1, <2>2 DEF ProgramEffect, TrailEffect
  <1>4. QED
    BY <1>2, <1>3 DEF ForgedIsEdited

(* The program keeps types, mutual exclusion and honest rows and links.     *)
LEMMA ProgramKeepsHonest ==
  ASSUME TamperTypes, Honest, ProgramEffect, SealedEffect, edits' = edits
  PROVE  TamperTypes' /\ Exclusive' /\ Honest'
  <1>1. \A t \in Tenants : /\ sealed'[t] \in Seq(Seals)
                           /\ Len(sealed'[t]) = Len(rows'[t])
                           /\ HonestTrail(t, rows'[t], sealed'[t])
    BY TrailStaysHonest
  <1>2. sealed' \in [Tenants -> Seq(Seals)]
    BY <1>1 DEF SealedEffect
  <1>3. TamperTypes' /\ Exclusive'
    BY <1>1, <1>2 DEF TamperTypes, ProgramEffect
  <1>4. ASSUME NEW th \in Threads, pc'[th] = "insert"
        PROVE  link'[th].sequence = Len(link'[th].previous_hash) + 1
    <2>1. CASE pc[th] = "insert" /\ link'[th] = link[th]
      BY <2>1 DEF Honest
    <2>2. CASE link'[th] = NextLink(rows[request[th].tenant])
      <3>1. request[th].tenant \in Tenants
        BY DEF TamperTypes, TypeOK, Requests
      <3>2. QED
        BY <2>2, <3>1, TrailFacts, NextLinkCounts
    <2>3. QED
      BY <1>4, <2>1, <2>2 DEF ProgramEffect, LinkEffect
  <1>5. Honest'
    BY <1>1, <1>4 DEF Honest, HonestTrail
  <1>6. QED
    BY <1>3, <1>5

(* How the broken rows of a trail change when the program takes a step:     *)
(* only the row of a stale link can become broken.                          *)
LEMMA BrokenEffect ==
  ASSUME TamperTypes, Honest, ProgramEffect, NEW t \in Tenants
  PROVE  \/ rows'[t] = rows[t]
         \/ /\ Broken(t, rows'[t]) = Broken(t, rows[t]) \cap 1 .. durable[t]
            /\ \A i \in 1 .. durable[t] : rows'[t][i] = rows[t][i]
         \/ \E th \in Threads :
              /\ pc[th] = "insert" /\ request[th].tenant = t
              /\ Broken(t, rows[t]) \subseteq Broken(t, rows'[t])
              /\ Broken(t, rows'[t]) \subseteq Broken(t, rows[t]) \cup {Len(rows[t]) + 1}
              /\ Fresh(th) => Broken(t, rows'[t]) = Broken(t, rows[t])
              /\ \A i \in 1 .. Len(rows[t]) : rows'[t][i] = rows[t][i]
              /\ rows'[t][Len(rows[t]) + 1].sequence = link[th].sequence
              /\ rows'[t][Len(rows[t]) + 1].event # NotJson
  <1>1. /\ rows[t] \in Seq(Rows) /\ durable[t] \in Nat /\ durable[t] <= Len(rows[t])
    BY TrailFacts
  <1>2. CASE rows'[t] = Committed(t)
    BY <1>1, <1>2, BrokenPrefix, PrefixFacts DEF Committed
  <1>3. ASSUME NEW th \in Threads,
               pc[th] = "insert", request[th].tenant = t,
               rows'[t] = Append(rows[t], RowFor(request[th], link[th]))
        PROVE  /\ Broken(t, rows[t]) \subseteq Broken(t, rows'[t])
               /\ Broken(t, rows'[t]) \subseteq Broken(t, rows[t]) \cup {Len(rows[t]) + 1}
               /\ Fresh(th) => Broken(t, rows'[t]) = Broken(t, rows[t])
               /\ \A i \in 1 .. Len(rows[t]) : rows'[t][i] = rows[t][i]
               /\ rows'[t][Len(rows[t]) + 1].sequence = link[th].sequence
               /\ rows'[t][Len(rows[t]) + 1].event # NotJson
    <2>1. request[th] \in Requests /\ link[th] \in Links
      BY DEF TamperTypes, TypeOK
    <2>2. /\ Broken(t, rows[t]) \subseteq Broken(t, rows'[t])
          /\ Broken(t, rows'[t]) \subseteq Broken(t, rows[t]) \cup {Len(rows[t]) + 1}
          /\ link[th] = NextLink(rows[t]) => Broken(t, rows'[t]) = Broken(t, rows[t])
      BY <1>1, <1>3, <2>1, BrokenAppend
    <2>3. RowFor(request[th], link[th]) \in Rows
      BY <2>1, RowForType
    <2>4. /\ \A i \in 1 .. Len(rows[t]) : rows'[t][i] = rows[t][i]
          /\ rows'[t][Len(rows[t]) + 1] = RowFor(request[th], link[th])
      BY <1>1, <1>3, <2>3, AppendProperties
    <2>5. /\ RowFor(request[th], link[th]).sequence = link[th].sequence
          /\ RowFor(request[th], link[th]).event # NotJson
      BY <2>1, ConstantsAssumption DEF RowFor, Requests
    <2>6. QED
      BY <1>3, <2>2, <2>4, <2>5 DEF Fresh
  <1>4. QED
    BY <1>2, <1>3 DEF ProgramEffect, TrailEffect

(* A trail nobody edited stays intact.                                      *)
LEMMA ProgramKeepsUnedited ==
  ASSUME TamperTypes, Honest, UneditedIsIntact, ProgramEffect, edits' = edits
  PROVE  UneditedIsIntact'
  <1> SUFFICES ASSUME NEW t \in Tenants, ~Edited(t)
               PROVE  /\ Broken(t, rows'[t]) = {}
                      /\ \A th \in Threads :
                           pc'[th] = "insert" /\ request'[th].tenant = t => Fresh(th)'
    BY DEF UneditedIsIntact, Edited
  <1>1. /\ Broken(t, rows[t]) = {}
        /\ \A th \in Threads : pc[th] = "insert" /\ request[th].tenant = t => Fresh(th)
    BY DEF UneditedIsIntact
  <1>2. Broken(t, rows'[t]) = {}
    BY <1>1, BrokenEffect
  <1>3. ASSUME NEW th \in Threads, pc'[th] = "insert", request'[th].tenant = t
        PROVE  Fresh(th)'
    BY <1>1, <1>3 DEF ProgramEffect, LinkEffect, Fresh
  <1>4. QED
    BY <1>2, <1>3

(* After one edit the break stays where it is: new rows, rollbacks and      *)
(* crashes neither move it nor add another.                                 *)
LEMMA ProgramKeepsBreak ==
  ASSUME TamperTypes, Honest, ProgramEffect, NEW t \in Tenants, NEW p \in Nat,
         NEW edit \in Edits, BreakIsAt(t, p, edit)
  PROVE  BreakIsAt(t, p, edit)'
  <1>1. /\ durable[t] \in Nat /\ durable'[t] \in Nat /\ durable[t] <= durable'[t]
        /\ Len(rows[t]) \in Nat
    BY TrailFacts DEF ProgramEffect, TrailEffect, TypeOK
  <1>2. /\ p <= durable[t] + 1
        /\ Broken(t, rows[t]) \subseteq {p}
        /\ p \in Broken(t, rows[t]) => Blames(rows[t][p], edit)
        /\ Detected(edit) => p \in Broken(t, rows[t]) /\ p <= durable[t]
    BY DEF BreakIsAt
  <1>3. ASSUME NEW th \in Threads, pc[th] = "insert", request[th].tenant = t, ~Fresh(th)
        PROVE  /\ ~Detected(edit)
               /\ p = Len(rows[t]) + 1
               /\ link[th].sequence = BreakOf(edit)
    BY <1>3 DEF BreakIsAt
  <1>4. /\ Broken(t, rows'[t]) \subseteq {p}
        /\ p \in Broken(t, rows'[t]) => Blames(rows'[t][p], edit)
        /\ Detected(edit) => p \in Broken(t, rows'[t])
    <2>1. CASE rows'[t] = rows[t]
      BY <1>2, <2>1
    <2>2. CASE /\ Broken(t, rows'[t]) = Broken(t, rows[t]) \cap 1 .. durable[t]
               /\ \A i \in 1 .. durable[t] : rows'[t][i] = rows[t][i]
      <3>1. Broken(t, rows[t]) \subseteq 1 .. Len(rows[t])
        BY DEF Broken
      <3>2. p \in Broken(t, rows[t]) /\ p <= durable[t] => p \in 1 .. durable[t]
        BY <1>1, <3>1
      <3>3. QED
        BY <1>2, <2>2, <3>2
    <2>3. ASSUME NEW th \in Threads,
                 pc[th] = "insert", request[th].tenant = t,
                 Broken(t, rows[t]) \subseteq Broken(t, rows'[t]),
                 Broken(t, rows'[t]) \subseteq Broken(t, rows[t]) \cup {Len(rows[t]) + 1},
                 Fresh(th) => Broken(t, rows'[t]) = Broken(t, rows[t]),
                 \A i \in 1 .. Len(rows[t]) : rows'[t][i] = rows[t][i],
                 rows'[t][Len(rows[t]) + 1].sequence = link[th].sequence,
                 rows'[t][Len(rows[t]) + 1].event # NotJson
          PROVE  /\ Broken(t, rows'[t]) \subseteq {p}
                 /\ p \in Broken(t, rows'[t]) => Blames(rows'[t][p], edit)
                 /\ Detected(edit) => p \in Broken(t, rows'[t])
      <3>1. Broken(t, rows[t]) \subseteq 1 .. Len(rows[t])
        BY DEF Broken
      <3>2. CASE Fresh(th)
        BY <1>2, <2>3, <3>1, <3>2
      <3>3. CASE ~Fresh(th)
        BY <1>2, <1>3, <2>3, <3>3 DEF Blames, Detected
      <3>4. QED
        BY <3>2, <3>3
    <2>4. QED
      BY <2>1, <2>2, <2>3, BrokenEffect
  <1>5. ASSUME NEW th \in Threads, pc'[th] = "insert", request'[th].tenant = t
        PROVE  \/ Fresh(th)'
               \/ /\ ~Detected(edit)
                  /\ p = Len(rows'[t]) + 1
                  /\ link'[th].sequence = BreakOf(edit)
    <2>1. /\ rows' = rows /\ request'[th] = request[th]
          /\ \/ pc[th] = "insert" /\ link'[th] = link[th]
             \/ link'[th] = NextLink(rows[request[th].tenant])
      BY <1>5 DEF ProgramEffect, LinkEffect
    <2>2. QED
      BY <1>5, <2>1 DEF BreakIsAt, Fresh
  <1>6. p <= durable'[t] + 1 /\ (Detected(edit) => p <= durable'[t])
    BY <1>1, <1>2
  <1>7. QED
    BY <1>4, <1>5, <1>6 DEF BreakIsAt

(* Every step of the program keeps the invariant.                           *)
LEMMA ProgramKeepsInv ==
  ASSUME TamperInv, ProgramStep
  PROVE  TamperInv'
  <1>1. /\ TamperTypes /\ TypeOK /\ Exclusive /\ Honest /\ ForgedIsEdited
        /\ UneditedIsIntact /\ OneEditOneBreak
    BY DEF TamperInv, TamperTypes
  <1>2. ProgramEffect /\ SealedEffect /\ edits' = edits
    BY <1>1, NextEffect DEF ProgramStep, SealedEffect
  <1>3. TamperTypes' /\ Exclusive' /\ Honest' /\ ForgedIsEdited' /\ UneditedIsIntact'
    BY <1>1, <1>2, ProgramKeepsHonest, ProgramKeepsForged, ProgramKeepsUnedited
  <1>4. OneEditOneBreak'
    <2> SUFFICES ASSUME Len(edits) = 1
                 PROVE  \E p \in Nat : BreakIsAt(edits[1].tenant, p, edits[1])'
      BY <1>2 DEF OneEditOneBreak
    <2>1. edits[1] \in Edits
      <3>1. edits \in Seq(Edits) /\ 1 \in 1 .. Len(edits)
        BY <1>1 DEF TamperTypes
      <3>2. QED
        BY <3>1, ElementOfSeq
    <2>2. edits[1].tenant \in Tenants
      BY <2>1 DEF Edits
    <2>3. PICK p \in Nat : BreakIsAt(edits[1].tenant, p, edits[1])
      BY <1>1 DEF OneEditOneBreak
    <2>4. QED
      BY <1>1, <1>2, <2>1, <2>2, <2>3, ProgramKeepsBreak
  <1>5. QED
    BY <1>3, <1>4 DEF TamperInv

-----------------------------------------------------------------------------
(* The edits keep the invariant. *)

(* An edit is added to the history of edits, and concerns one tenant.       *)
LEMMA RecordedEdit ==
  ASSUME TamperTypes, NEW t \in Tenants, NEW kind \in EditKinds,
         NEW i \in 1 .. Len(rows[t]), RecordEdit(t, kind, i)
  PROVE  LET edit == [tenant |-> t, kind |-> kind, sequence |-> rows[t][i].sequence,
                      tail |-> i = Len(rows[t])]
         IN  /\ edit \in Edits
             /\ edits' \in Seq(Edits)
             /\ \A u \in Tenants : Edited(u)' <=> Edited(u) \/ u = t
             /\ \A u \in Tenants, n \in Nat : Rehashed(u, n) => Rehashed(u, n)'
             /\ kind = "rehashed" =>
                  \A m \in Nat : m = edit.sequence => Rehashed(t, m)'
             /\ Len(edits') = 1 => edits'[1] = edit /\ \A u \in Tenants : ~Edited(u)
  <1> DEFINE edit == [tenant |-> t, kind |-> kind, sequence |-> rows[t][i].sequence,
                      tail |-> i = Len(rows[t])]
             n == Len(edits)
  <1>1. rows[t] \in Seq(Rows) /\ edits \in Seq(Edits)
    BY DEF TamperTypes, TypeOK
  <1>2. edit \in Edits
    BY <1>1, RowFacts DEF Edits, EditKinds
  <1>3. n \in Nat
    BY <1>1, LenProperties
  <1>4. edit.tenant = t
    OBVIOUS
  <1>5. edits' = Append(edits, edit)
    BY DEF RecordEdit
  <1> HIDE DEF edit, n
  <1>6. /\ edits' \in Seq(Edits)
        /\ Len(edits') = n + 1
        /\ \A k \in 1 .. n : edits'[k] = edits[k]
        /\ edits'[n + 1] = edit
    BY <1>1, <1>2, <1>5, AppendProperties DEF n
  <1>7. ASSUME NEW u \in Tenants
        PROVE  Edited(u)' <=> Edited(u) \/ u = t
    <2>1. \A k \in 1 .. n + 1 : k \in 1 .. n \/ k = n + 1
      BY <1>3
    <2>2. 1 .. n \subseteq 1 .. n + 1 /\ n + 1 \in 1 .. n + 1
      BY <1>3
    <2>3. Edited(u)' <=> \E k \in 1 .. n + 1 : edits'[k].tenant = u
      BY <1>6 DEF Edited
    <2>4. Edited(u) <=> \E k \in 1 .. n : edits[k].tenant = u
      BY DEF Edited, n
    <2>5. QED
      BY <1>4, <1>6, <2>1, <2>2, <2>3, <2>4
  <1>8. ASSUME Len(edits') = 1
        PROVE  edits'[1] = edit /\ \A u \in Tenants : ~Edited(u)
    <2>1. n = 0
      <3>1. n + 1 = 1
        BY <1>6, <1>8
      <3>2. QED
        BY <1>3, <3>1
    <2>2. QED
      BY <1>6, <2>1 DEF Edited, n
  <1>9. \A u \in Tenants, m \in Nat : Rehashed(u, m) => Rehashed(u, m)'
    <2>1. 1 .. n \subseteq 1 .. n + 1
      BY <1>3
    <2>2. QED
      BY <1>6, <2>1 DEF Rehashed, n
  <1>10. ASSUME kind = "rehashed"
         PROVE  \A m \in Nat : m = edit.sequence => Rehashed(t, m)'
    <2>1. edit.kind = "rehashed" /\ edit.tenant = t
      BY <1>10 DEF edit
    <2>2. \E m \in 1 .. Len(edits') : edits'[m] = edit
      BY <1>3, <1>6
    <2>3. QED
      BY <2>1, <2>2 DEF Rehashed
  <1>11. QED
    BY <1>2, <1>6, <1>7, <1>8, <1>9, <1>10 DEF edit

AlteredKind(e) == IF e = NotJson THEN "garbled" ELSE "altered"

(* An altered row is recorded as altered or garbled.                        *)
LEMMA AlterIsRecorded ==
  ASSUME NEW t, NEW i, NEW e, AlterRow(t, i, e)
  PROVE  /\ AlteredKind(e) \in EditKinds
         /\ RecordEdit(t, AlteredKind(e), i)
         /\ AlteredKind(e) \in {"altered", "garbled"}
         /\ AlteredKind(e) = "garbled" <=> e = NotJson
  BY DEF AlterRow, AlteredKind, EditKinds

(* Altering a row keeps types and honesty: the hashes stay, and so does     *)
(* every link.                                                              *)
LEMMA AlterKeepsHonest ==
  ASSUME TamperTypes, Exclusive, Honest, ForgedIsEdited,
         NEW t \in Tenants, NEW i \in 1 .. Len(rows[t]), NEW e \in Payloads, AlterRow(t, i, e)
  PROVE  TamperTypes' /\ Exclusive' /\ Honest' /\ ForgedIsEdited'
  <1>1. /\ rows[t] \in Seq(Rows)
        /\ \A u \in Tenants : rows'[u] = IF u = t THEN Altered(rows[t], i, e) ELSE rows[u]
        /\ UNCHANGED <<durable, lock, pc, request, link, acknowledged, sealed>>
    BY DEF TamperTypes, TypeOK, AlterRow, Altered
  <1>2. /\ Altered(rows[t], i, e) \in Seq(Rows)
        /\ Len(Altered(rows[t], i, e)) = Len(rows[t])
        /\ \A j \in 1 .. Len(rows[t]) :
             /\ Altered(rows[t], i, e)[j].sequence = rows[t][j].sequence
             /\ Altered(rows[t], i, e)[j].previous_hash = rows[t][j].previous_hash
             /\ Altered(rows[t], i, e)[j].entry_hash = rows[t][j].entry_hash
    BY <1>1, AlteredRow
  <1>3. \A u \in Tenants : rows'[u] \in Seq(Rows) /\ Len(rows'[u]) = Len(rows[u])
    BY <1>1, <1>2 DEF TamperTypes, TypeOK
  <1>4. rows' \in [Tenants -> Seq(Rows)]
    BY <1>3 DEF TamperTypes, TypeOK, AlterRow
  <1>k. AlteredKind(e) \in EditKinds /\ RecordEdit(t, AlteredKind(e), i)
    BY AlterIsRecorded
  <1>5. edits' \in Seq(Edits)
    BY <1>k, RecordedEdit
  <1>6. TamperTypes' /\ Exclusive'
    BY <1>1, <1>3, <1>4, <1>5 DEF TamperTypes, TypeOK, Exclusive
  <1>7. \A u \in Tenants : \A j \in 1 .. Len(rows'[u]) :
          HonestRow(u, rows'[u][j], sealed'[u][j].event)
    <2> TAKE u \in Tenants
    <2> TAKE j \in 1 .. Len(rows'[u])
    <2>1. j \in 1 .. Len(rows[u]) /\ HonestRow(u, rows[u][j], sealed[u][j].event)
      BY <1>3 DEF Honest
    <2>2. CASE u = t
      BY <1>1, <1>2, <2>1, <2>2 DEF HonestRow
    <2>3. CASE u # t
      BY <1>1, <2>1, <2>3
    <2>4. QED
      BY <2>2, <2>3
  <1>8. Honest'
    BY <1>1, <1>7 DEF Honest
  <1>9. ForgedIsEdited'
    <2> SUFFICES ASSUME NEW u \in Tenants, NEW j \in 1 .. Len(rows'[u]),
                        sealed'[u][j].by = "editor"
                 PROVE  Rehashed(u, rows[u][j].sequence)'
      BY DEF ForgedIsEdited
    <2>1. j \in 1 .. Len(rows[u]) /\ Rehashed(u, rows[u][j].sequence)
      BY <1>1, <1>3 DEF ForgedIsEdited
    <2>2. rows[u][j].sequence \in Nat /\ rows'[u][j].sequence = rows[u][j].sequence
      BY <1>1, <1>2, <2>1, RowFacts DEF TamperTypes, TypeOK
    <2>3. \A m \in Nat : Rehashed(u, m) => Rehashed(u, m)'
      BY <1>k, RecordedEdit
    <2>4. QED
      BY <2>1, <2>2, <2>3 DEF Rehashed
  <1>10. QED
    BY <1>6, <1>8, <1>9

(* Altering a row breaks that row; other trails are not touched.            *)
LEMMA AlterKeepsInv ==
  ASSUME TamperInv,
         NEW t \in Tenants, NEW i \in 1 .. Len(rows[t]), NEW e \in Payloads, AlterRow(t, i, e)
  PROVE  TamperInv'
  <1>1. /\ TamperTypes /\ Exclusive /\ Honest /\ ForgedIsEdited
        /\ UneditedIsIntact /\ OneEditOneBreak
    BY DEF TamperInv
  <1>k. AlteredKind(e) \in EditKinds /\ RecordEdit(t, AlteredKind(e), i)
    BY AlterIsRecorded
  <1>e. PICK edit \in Edits :
          /\ edit = [tenant |-> t, kind |-> AlteredKind(e), sequence |-> rows[t][i].sequence,
                     tail |-> i = Len(rows[t])]
          /\ RecordEdit(t, AlteredKind(e), i)
    BY <1>1, <1>k, RecordedEdit
  <1>2. TamperTypes' /\ Exclusive' /\ Honest' /\ ForgedIsEdited'
    BY <1>1, AlterKeepsHonest
  <1>3. /\ rows[t] \in Seq(Rows) /\ Len(rows[t]) \in Nat
        /\ sealed[t] \in Seq(Seals) /\ Len(sealed[t]) = Len(rows[t])
        /\ HonestTrail(t, rows[t], sealed[t])
        /\ durable[t] = Len(rows[t])
        /\ rows[t][i].event # e
        /\ UNCHANGED <<durable, lock, pc, request, link, acknowledged, sealed>>
    BY <1>1, TrailFacts DEF AlterRow, FileIsFree
  <1>4. \A u \in Tenants : rows'[u] = IF u = t THEN Altered(rows[t], i, e) ELSE rows[u]
    BY <1>1 DEF TamperTypes, TypeOK, AlterRow, Altered
  <1>5. /\ \A u \in Tenants : Edited(u)' <=> Edited(u) \/ u = t
        /\ Len(edits') = 1 => edits'[1] = edit /\ \A u \in Tenants : ~Edited(u)
    BY <1>e, <1>1, <1>k, RecordedEdit
  <1>6. UneditedIsIntact'
    <2> SUFFICES ASSUME NEW u \in Tenants, ~Edited(u)'
                 PROVE  /\ Broken(u, rows'[u]) = {}
                        /\ \A th \in Threads :
                             pc'[th] = "insert" /\ request'[th].tenant = u => Fresh(th)'
      BY DEF UneditedIsIntact
    <2>1. ~Edited(u) /\ u # t /\ rows'[u] = rows[u]
      BY <1>4, <1>5
    <2>2. QED
      BY <1>1, <1>3, <2>1 DEF UneditedIsIntact, Fresh
  <1>7. ASSUME Len(edits') = 1
        PROVE  BreakIsAt(t, i, edit)'
    <2>1. /\ Broken(t, rows[t]) = {}
          /\ \A th \in Threads : pc[th] = "insert" /\ request[th].tenant = t => Fresh(th)
      BY <1>1, <1>5, <1>7 DEF UneditedIsIntact
    <2>2. Broken(t, Altered(rows[t], i, e)) = {i}
      BY <1>3, <2>1, BrokenAlter
    <2>3. /\ NextLink(Altered(rows[t], i, e)) = NextLink(rows[t])
          /\ Altered(rows[t], i, e)[i].sequence = rows[t][i].sequence
      BY <1>3, AlteredRow
    <2>4. rows'[t] = Altered(rows[t], i, e)
      BY <1>4
    <2>5. /\ edit.sequence = rows[t][i].sequence
          /\ edit.kind \in {"altered", "garbled"}
          /\ edit.kind = "garbled" <=> e = NotJson
      BY <1>e, AlterIsRecorded
    <2>6. Blames(rows'[t][i], edit)
      <3>1. Altered(rows[t], i, e)[i].event = e
        BY <1>3, AlteredRow
      <3>2. QED
        BY <2>3, <2>4, <2>5, <3>1 DEF Blames, BreakOf
    <2>7. i <= durable'[t] /\ i <= durable'[t] + 1
      BY <1>3
    <2>8. \A th \in Threads : pc'[th] = "insert" /\ request'[th].tenant = t => Fresh(th)'
      BY <1>3, <2>1, <2>3, <2>4 DEF Fresh
    <2>9. QED
      BY <1>3, <2>2, <2>4, <2>6, <2>7, <2>8 DEF BreakIsAt
  <1>8. OneEditOneBreak'
    <2>1. edit.tenant = t /\ i \in Nat
      BY <1>e
    <2> SUFFICES ASSUME Len(edits') = 1
                 PROVE  \E p \in Nat : BreakIsAt(edits[1].tenant, p, edits[1])'
      BY DEF OneEditOneBreak
    <2>2. edits'[1] = edit
      BY <1>5
    <2>3. BreakIsAt(t, i, edit)'
      BY <1>7
    <2>4. BreakIsAt(edits[1].tenant, i, edits[1])'
      BY <2>1, <2>2, <2>3 DEF BreakIsAt
    <2>5. QED
      BY <2>1, <2>4
  <1>9. QED
    BY <1>2, <1>6, <1>8 DEF TamperInv

(* Rehashing a row changes one trail, and that as described.                *)
LEMMA RehashedRows ==
  ASSUME TamperTypes,
         NEW t \in Tenants, NEW i \in 1 .. Len(rows[t]), NEW e \in Events, RehashRow(t, i, e)
  PROVE  \A u \in Tenants : rows'[u] = IF u = t THEN Rewritten(t, rows[t], i, e) ELSE rows[u]
  <1>1. rows' = [rows EXCEPT ![t] = Rewritten(t, rows[t], i, e)]
    BY DEF RehashRow, Rewritten
  <1> HIDE DEF Rewritten
  <1>2. QED
    BY <1>1 DEF TamperTypes, TypeOK

(* Rehashing a row keeps types and honesty: the row is one record() might   *)
(* have written behind the same row, and every thread keeps its link.       *)
LEMMA RehashKeepsHonest ==
  ASSUME TamperTypes, Exclusive, Honest, ForgedIsEdited,
         NEW t \in Tenants, NEW i \in 1 .. Len(rows[t]), NEW e \in Events, RehashRow(t, i, e)
  PROVE  TamperTypes' /\ Exclusive' /\ Honest' /\ ForgedIsEdited'
  <1> DEFINE forged == Rewritten(t, rows[t], i, e)
             seal == [event |-> e, by |-> "editor"]
  <1>1. /\ rows[t] \in Seq(Rows) /\ sealed[t] \in Seq(Seals)
        /\ Len(sealed[t]) = Len(rows[t]) /\ i \in 1 .. Len(sealed[t])
    BY TrailFacts
  <1>2. /\ \A u \in Tenants :
             /\ rows'[u] = IF u = t THEN forged ELSE rows[u]
             /\ sealed'[u] = IF u = t THEN [sealed[t] EXCEPT ![i] = seal] ELSE sealed[u]
        /\ UNCHANGED <<durable, lock, pc, request, link, acknowledged>>
        /\ RecordEdit(t, "rehashed", i)
    <2>1. sealed' = [sealed EXCEPT ![t] = [sealed[t] EXCEPT ![i] = seal]]
      BY DEF RehashRow
    <2> HIDE DEF seal
    <2>2. \A u \in Tenants :
            sealed'[u] = IF u = t THEN [sealed[t] EXCEPT ![i] = seal] ELSE sealed[u]
      BY <2>1 DEF TamperTypes
    <2>3. QED
      BY <2>2, RehashedRows DEF RehashRow
  <1>3. /\ forged \in Seq(Rows)
        /\ Len(forged) = Len(rows[t])
        /\ \A j \in 1 .. Len(rows[t]) : /\ forged[j].sequence = rows[t][j].sequence
                                        /\ forged[j].previous_hash = rows[t][j].previous_hash
                                        /\ j # i => forged[j] = rows[t][j]
        /\ forged[i].event = e
        /\ forged[i].entry_hash =
             Hash(rows[t][i].previous_hash, Body(t, rows[t][i].sequence, e))
    BY <1>1, RewrittenRow
  <1>4. seal \in Seals /\ seal.event = e
    BY DEF Seals
  <1> HIDE DEF forged, seal
  <1>5. /\ [sealed[t] EXCEPT ![i] = seal] \in Seq(Seals)
        /\ Len([sealed[t] EXCEPT ![i] = seal]) = Len(rows[t])
        /\ \A j \in 1 .. Len(rows[t]) :
             [sealed[t] EXCEPT ![i] = seal][j] = IF j = i THEN seal ELSE sealed[t][j]
    BY <1>1, <1>4, ExceptSeq
  <1>6. ASSUME NEW u \in Tenants
        PROVE  /\ rows'[u] \in Seq(Rows) /\ sealed'[u] \in Seq(Seals)
               /\ Len(rows'[u]) = Len(rows[u]) /\ Len(sealed'[u]) = Len(rows'[u])
    <2>1. CASE u = t
      BY <1>2, <1>3, <1>5, <2>1
    <2>2. CASE u # t
      BY <1>2, <2>2, TrailFacts
    <2>3. QED
      BY <2>1, <2>2
  <1>7. rows' \in [Tenants -> Seq(Rows)] /\ sealed' \in [Tenants -> Seq(Seals)]
    BY <1>6 DEF TamperTypes, TypeOK, RehashRow
  <1>8. edits' \in Seq(Edits)
    BY <1>2, RecordedEdit DEF EditKinds
  <1>9. TamperTypes' /\ Exclusive'
    BY <1>2, <1>6, <1>7, <1>8 DEF TamperTypes, TypeOK, Exclusive
  <1>10. ASSUME NEW u \in Tenants, NEW j \in 1 .. Len(rows'[u])
         PROVE  HonestRow(u, rows'[u][j], sealed'[u][j].event)
    <2>1. j \in 1 .. Len(rows[u]) /\ HonestRow(u, rows[u][j], sealed[u][j].event)
      BY <1>6 DEF Honest
    <2>2. CASE u = t /\ j = i
      <3>1. rows'[u][j] = forged[i] /\ sealed'[u][j] = seal
        BY <1>2, <1>5, <2>1, <2>2
      <3>2. QED
        BY <1>3, <1>4, <2>1, <2>2, <3>1 DEF HonestRow
    <2>3. CASE u = t /\ j # i
      BY <1>2, <1>3, <1>5, <2>1, <2>3
    <2>4. CASE u # t
      BY <1>2, <2>1, <2>4
    <2>5. QED
      BY <2>2, <2>3, <2>4
  <1>11. Honest'
    BY <1>2, <1>10 DEF Honest
  <1>12. ForgedIsEdited'
    <2> SUFFICES ASSUME NEW u \in Tenants, NEW j \in 1 .. Len(rows'[u]),
                        sealed'[u][j].by = "editor"
                 PROVE  Rehashed(u, rows[u][j].sequence)'
      BY DEF ForgedIsEdited
    <2>1. j \in 1 .. Len(rows[u]) /\ rows[u][j].sequence \in Nat
      BY <1>6, RowFacts DEF TamperTypes, TypeOK
    <2>2. rows'[u][j].sequence = rows[u][j].sequence
      BY <1>2, <1>3, <2>1
    <2>3. /\ \A m \in Nat : Rehashed(u, m) => Rehashed(u, m)'
          /\ \A m \in Nat : m = rows[t][i].sequence => Rehashed(t, m)'
      BY <1>2, RecordedEdit DEF EditKinds
    <2>4. CASE u = t /\ j = i
      BY <2>1, <2>2, <2>3, <2>4 DEF Rehashed
    <2>5. CASE ~(u = t /\ j = i)
      <3>1. sealed'[u][j] = sealed[u][j]
        BY <1>2, <1>5, <2>1, <2>5
      <3>2. Rehashed(u, rows[u][j].sequence)
        BY <2>1, <3>1 DEF ForgedIsEdited
      <3>3. QED
        BY <2>1, <2>2, <2>3, <3>2 DEF Rehashed
    <2>6. QED
      BY <2>4, <2>5
  <1>13. QED
    BY <1>9, <1>11, <1>12

(* Rehashing a row breaks the row behind it; if it was the last one,        *)
(* nothing is broken yet, but a link selected before is stale.              *)
LEMMA RehashKeepsInv ==
  ASSUME TamperInv,
         NEW t \in Tenants, NEW i \in 1 .. Len(rows[t]), NEW e \in Events, RehashRow(t, i, e)
  PROVE  TamperInv'
  <1>1. /\ TamperTypes /\ Exclusive /\ Honest /\ ForgedIsEdited
        /\ UneditedIsIntact /\ OneEditOneBreak
    BY DEF TamperInv
  <1>e. PICK edit \in Edits :
          /\ edit = [tenant |-> t, kind |-> "rehashed", sequence |-> rows[t][i].sequence,
                     tail |-> i = Len(rows[t])]
          /\ RecordEdit(t, "rehashed", i)
    BY <1>1, RecordedEdit DEF RehashRow, EditKinds
  <1>2. TamperTypes' /\ Exclusive' /\ Honest' /\ ForgedIsEdited'
    BY <1>1, RehashKeepsHonest
  <1>3. /\ rows[t] \in Seq(Rows) /\ Len(rows[t]) \in Nat
        /\ sealed[t] \in Seq(Seals) /\ Len(sealed[t]) = Len(rows[t])
        /\ HonestTrail(t, rows[t], sealed[t])
        /\ durable[t] = Len(rows[t])
        /\ sealed[t][i].event # e
    BY <1>1, TrailFacts DEF RehashRow, FileIsFree
  <1>4. /\ \A u \in Tenants :
             rows'[u] = IF u = t THEN Rewritten(t, rows[t], i, e) ELSE rows[u]
        /\ UNCHANGED <<durable, lock, pc, request, link, acknowledged>>
    BY <1>1, RehashedRows DEF RehashRow
  <1>5. /\ \A u \in Tenants : Edited(u)' <=> Edited(u) \/ u = t
        /\ Len(edits') = 1 => edits'[1] = edit /\ \A u \in Tenants : ~Edited(u)
    BY <1>e, <1>1, RecordedEdit DEF EditKinds
  <1>6. UneditedIsIntact'
    <2> SUFFICES ASSUME NEW u \in Tenants, ~Edited(u)'
                 PROVE  /\ Broken(u, rows'[u]) = {}
                        /\ \A th \in Threads :
                             pc'[th] = "insert" /\ request'[th].tenant = u => Fresh(th)'
      BY DEF UneditedIsIntact
    <2>1. ~Edited(u) /\ u # t /\ rows'[u] = rows[u]
      BY <1>4, <1>5
    <2>2. QED
      BY <1>1, <1>4, <2>1 DEF UneditedIsIntact, Fresh
  <1>7. ASSUME Len(edits') = 1
        PROVE  BreakIsAt(t, i + 1, edit)'
    <2>1. /\ Broken(t, rows[t]) = {}
          /\ \A th \in Threads : pc[th] = "insert" /\ request[th].tenant = t => Fresh(th)
      BY <1>1, <1>5, <1>7 DEF UneditedIsIntact
    <2>2. rows'[t] = Rewritten(t, rows[t], i, e) /\ Len(rows'[t]) = Len(rows[t])
      BY <1>3, <1>4, RewrittenRow
    <2>3. /\ Broken(t, rows'[t]) = (IF i < Len(rows[t]) THEN {i + 1} ELSE {})
          /\ i < Len(rows[t]) =>
               /\ rows'[t][i + 1].sequence = rows[t][i].sequence + 1
               /\ rows'[t][i + 1].event # NotJson
               /\ NextLink(rows'[t]) = NextLink(rows[t])
      <3> DEFINE forged == Rewritten(t, rows[t], i, e)
      <3>1. /\ Broken(t, forged) = (IF i < Len(rows[t]) THEN {i + 1} ELSE {})
            /\ i < Len(rows[t]) =>
                 /\ forged[i + 1].sequence = rows[t][i].sequence + 1
                 /\ forged[i + 1].event # NotJson
                 /\ NextLink(forged) = NextLink(rows[t])
        BY <1>3, <2>1, BrokenRewritten
      <3>2. rows'[t] = forged
        BY <2>2
      <3> HIDE DEF forged
      <3>3. QED
        BY <3>1, <3>2
    <2>4. edit.sequence = rows[t][i].sequence /\ edit.kind = "rehashed"
      BY <1>e
    <2>5. edit.tail <=> i = Len(rows[t])
      BY <1>e
    <2>6. BreakOf(edit) = rows[t][i].sequence + 1 /\ edit.kind # "garbled"
      BY <2>4 DEF BreakOf
    <2>7. Detected(edit) <=> i < Len(rows[t])
      <3>1. i < Len(rows[t]) <=> i # Len(rows[t])
        BY <1>3
      <3>2. QED
        BY <2>4, <2>5, <3>1 DEF Detected
    <2>8. /\ i + 1 <= durable'[t] + 1
          /\ i < Len(rows[t]) => i + 1 <= durable'[t]
      BY <1>3, <1>4
    <2>9. ASSUME NEW th \in Threads, pc'[th] = "insert", request'[th].tenant = t
          PROVE  \/ Fresh(th)'
                 \/ /\ ~Detected(edit)
                    /\ i + 1 = Len(rows'[t]) + 1
                    /\ link'[th].sequence = BreakOf(edit)
      <3>1. link'[th] = NextLink(rows[t]) /\ request'[th] = request[th]
        BY <1>4, <2>1, <2>9 DEF Fresh
      <3>2. CASE i < Len(rows[t])
        BY <2>3, <2>9, <3>1, <3>2 DEF Fresh
      <3>3. CASE ~(i < Len(rows[t]))
        <4>1. i = Len(rows[t]) /\ Len(rows[t]) # 0
          BY <1>3, <3>3
        <4>2. rows[t] # << >>
          BY <4>1, EmptySeq
        <4>3. link'[th].sequence = rows[t][i].sequence + 1
          BY <3>1, <4>1, <4>2 DEF NextLink
        <4>4. QED
          BY <2>2, <2>6, <2>7, <3>3, <4>1, <4>3
      <3>4. QED
        BY <3>2, <3>3
    <2>10. QED
      BY <2>3, <2>6, <2>7, <2>8, <2>9 DEF BreakIsAt, Blames
  <1>8. OneEditOneBreak'
    <2>1. edit.tenant = t /\ i + 1 \in Nat
      BY <1>e
    <2> SUFFICES ASSUME Len(edits') = 1
                 PROVE  \E p \in Nat : BreakIsAt(edits[1].tenant, p, edits[1])'
      BY DEF OneEditOneBreak
    <2>2. edits'[1] = edit
      BY <1>5
    <2>3. BreakIsAt(t, i + 1, edit)'
      BY <1>7
    <2>4. BreakIsAt(edits[1].tenant, i + 1, edits[1])'
      BY <2>1, <2>2, <2>3 DEF BreakIsAt
    <2>5. QED
      BY <2>1, <2>4
  <1>9. QED
    BY <1>2, <1>6, <1>8 DEF TamperInv

(* Deleting a row keeps types and honesty: the rows that stay keep their    *)
(* hashes, and every thread keeps the link it has selected.                 *)
LEMMA DeleteKeepsHonest ==
  ASSUME TamperTypes, Exclusive, Honest, ForgedIsEdited,
         NEW t \in Tenants, NEW i \in 1 .. Len(rows[t]), DeleteRow(t, i)
  PROVE  TamperTypes' /\ Exclusive' /\ Honest' /\ ForgedIsEdited'
  <1>1. /\ rows[t] \in Seq(Rows) /\ sealed[t] \in Seq(Seals)
        /\ Len(rows[t]) \in Nat /\ Len(sealed[t]) = Len(rows[t])
        /\ HonestTrail(t, rows[t], sealed[t])
        /\ durable[t] = Len(rows[t]) /\ i \in 1 .. Len(sealed[t])
    BY TrailFacts DEF DeleteRow, FileIsFree
  <1>2. /\ \A u \in Tenants : /\ rows'[u] = IF u = t THEN Without(rows[t], i) ELSE rows[u]
                              /\ sealed'[u] =
                                   IF u = t THEN Without(sealed[t], i) ELSE sealed[u]
                              /\ durable'[u] = IF u = t THEN durable[t] - 1 ELSE durable[u]
        /\ UNCHANGED <<lock, pc, request, link, acknowledged>>
        /\ RecordEdit(t, "deleted", i)
    BY DEF TamperTypes, TypeOK, DeleteRow
  <1>3. /\ Without(rows[t], i) \in Seq(Rows)
        /\ Len(Without(rows[t], i)) = Len(rows[t]) - 1
        /\ \A j \in 1 .. Len(rows[t]) - 1 :
             Without(rows[t], i)[j] = IF j < i THEN rows[t][j] ELSE rows[t][j + 1]
    BY <1>1, WithoutFacts
  <1>4. /\ Without(sealed[t], i) \in Seq(Seals)
        /\ Len(Without(sealed[t], i)) = Len(rows[t]) - 1
        /\ \A j \in 1 .. Len(rows[t]) - 1 :
             Without(sealed[t], i)[j] = IF j < i THEN sealed[t][j] ELSE sealed[t][j + 1]
    BY <1>1, WithoutFacts
  <1>5. ASSUME NEW u \in Tenants
        PROVE  /\ rows'[u] \in Seq(Rows) /\ sealed'[u] \in Seq(Seals)
               /\ Len(sealed'[u]) = Len(rows'[u])
               /\ durable'[u] \in Nat /\ durable'[u] <= Len(rows'[u])
    <2>1. CASE u = t
      BY <1>1, <1>2, <1>3, <1>4, <2>1
    <2>2. CASE u # t
      BY <1>2, <2>2, TrailFacts
    <2>3. QED
      BY <2>1, <2>2
  <1>6. /\ rows' \in [Tenants -> Seq(Rows)]
        /\ sealed' \in [Tenants -> Seq(Seals)]
        /\ durable' \in [Tenants -> Nat]
    BY <1>5 DEF TamperTypes, TypeOK, DeleteRow
  <1>7. edits' \in Seq(Edits)
    BY <1>2, RecordedEdit DEF EditKinds
  <1>8. TamperTypes' /\ Exclusive'
    BY <1>2, <1>5, <1>6, <1>7 DEF TamperTypes, TypeOK, Exclusive
  <1>9. \A u \in Tenants : \A j \in 1 .. Len(rows'[u]) :
          HonestRow(u, rows'[u][j], sealed'[u][j].event)
    <2> TAKE u \in Tenants
    <2> TAKE j \in 1 .. Len(rows'[u])
    <2>1. CASE u = t
      <3>1. j \in 1 .. Len(rows[t]) - 1
        BY <1>2, <1>3, <2>1
      <3>2. j \in 1 .. Len(rows[t]) /\ j + 1 \in 1 .. Len(rows[t])
        BY <1>1, <3>1
      <3>3. /\ HonestRow(t, rows[t][j], sealed[t][j].event)
            /\ HonestRow(t, rows[t][j + 1], sealed[t][j + 1].event)
        BY <3>2 DEF Honest
      <3>4. CASE j < i
        BY <1>2, <1>3, <1>4, <2>1, <3>1, <3>3, <3>4
      <3>5. CASE ~(j < i)
        BY <1>2, <1>3, <1>4, <2>1, <3>1, <3>3, <3>5
      <3>6. QED
        BY <3>4, <3>5
    <2>2. CASE u # t
      BY <1>2, <2>2 DEF Honest
    <2>3. QED
      BY <2>1, <2>2
  <1>10. Honest'
    BY <1>2, <1>9 DEF Honest
  <1>11. ForgedIsEdited'
    <2> SUFFICES ASSUME NEW u \in Tenants, NEW j \in 1 .. Len(rows'[u]),
                        sealed'[u][j].by = "editor"
                 PROVE  Rehashed(u, rows[u][j].sequence)'
      BY DEF ForgedIsEdited
    <2>1. PICK k \in 1 .. Len(rows[u]) :
            rows'[u][j] = rows[u][k] /\ sealed'[u][j] = sealed[u][k]
      <3>1. CASE u # t
        BY <1>2, <3>1
      <3>2. CASE u = t
        <4>1. j \in 1 .. Len(rows[t]) - 1
          BY <1>2, <1>3, <3>2
        <4>2. j \in 1 .. Len(rows[t]) /\ j + 1 \in 1 .. Len(rows[t])
          BY <1>1, <4>1
        <4>3. CASE j < i
          BY <1>2, <1>3, <1>4, <3>2, <4>1, <4>2, <4>3
        <4>4. CASE ~(j < i)
          BY <1>2, <1>3, <1>4, <3>2, <4>1, <4>2, <4>4
        <4>5. QED
          BY <4>3, <4>4
      <3>3. QED
        BY <3>1, <3>2
    <2>2. rows[u][k].sequence \in Nat /\ Rehashed(u, rows[u][k].sequence)
      BY <2>1, RowFacts DEF ForgedIsEdited, TamperTypes, TypeOK
    <2>3. \A m \in Nat : Rehashed(u, m) => Rehashed(u, m)'
      BY <1>2, RecordedEdit DEF EditKinds
    <2>4. QED
      BY <2>1, <2>2, <2>3 DEF Rehashed
  <1>12. QED
    BY <1>8, <1>10, <1>11

(* Deleting a row breaks the row behind it; if it was the last one, nothing *)
(* is broken yet, but a link selected before is stale.                      *)
LEMMA DeleteKeepsInv ==
  ASSUME TamperInv, NEW t \in Tenants, NEW i \in 1 .. Len(rows[t]), DeleteRow(t, i)
  PROVE  TamperInv'
  <1>1. /\ TamperTypes /\ Exclusive /\ Honest /\ ForgedIsEdited
        /\ UneditedIsIntact /\ OneEditOneBreak
    BY DEF TamperInv
  <1>e. PICK edit \in Edits :
          /\ edit = [tenant |-> t, kind |-> "deleted", sequence |-> rows[t][i].sequence,
                     tail |-> i = Len(rows[t])]
          /\ RecordEdit(t, "deleted", i)
    BY <1>1, RecordedEdit DEF DeleteRow, EditKinds
  <1>2. TamperTypes' /\ Exclusive' /\ Honest' /\ ForgedIsEdited'
    BY <1>1, DeleteKeepsHonest
  <1>3. /\ rows[t] \in Seq(Rows) /\ Len(rows[t]) \in Nat
        /\ sealed[t] \in Seq(Seals) /\ Len(sealed[t]) = Len(rows[t])
        /\ HonestTrail(t, rows[t], sealed[t])
        /\ durable[t] = Len(rows[t])
    BY <1>1, TrailFacts DEF DeleteRow, FileIsFree
  <1>4. /\ \A u \in Tenants : /\ rows'[u] = IF u = t THEN Without(rows[t], i) ELSE rows[u]
                              /\ durable'[u] = IF u = t THEN durable[t] - 1 ELSE durable[u]
        /\ UNCHANGED <<lock, pc, request, link, acknowledged>>
        /\ RecordEdit(t, "deleted", i)
    BY <1>1 DEF TamperTypes, TypeOK, DeleteRow
  <1>5. /\ \A u \in Tenants : Edited(u)' <=> Edited(u) \/ u = t
        /\ Len(edits') = 1 => edits'[1] = edit /\ \A u \in Tenants : ~Edited(u)
    BY <1>e, <1>1, RecordedEdit DEF EditKinds
  <1>6. UneditedIsIntact'
    <2> SUFFICES ASSUME NEW u \in Tenants, ~Edited(u)'
                 PROVE  /\ Broken(u, rows'[u]) = {}
                        /\ \A th \in Threads :
                             pc'[th] = "insert" /\ request'[th].tenant = u => Fresh(th)'
      BY DEF UneditedIsIntact
    <2>1. ~Edited(u) /\ u # t /\ rows'[u] = rows[u]
      BY <1>4, <1>5
    <2>2. QED
      BY <1>1, <1>4, <2>1 DEF UneditedIsIntact, Fresh
  <1>7. ASSUME Len(edits') = 1
        PROVE  BreakIsAt(t, i, edit)'
    <2>1. /\ Broken(t, rows[t]) = {}
          /\ \A th \in Threads : pc[th] = "insert" /\ request[th].tenant = t => Fresh(th)
      BY <1>1, <1>5, <1>7 DEF UneditedIsIntact
    <2>2. /\ rows'[t] = Without(rows[t], i) /\ durable'[t] = Len(rows[t]) - 1
          /\ Len(rows'[t]) = Len(rows[t]) - 1
      BY <1>3, <1>4, WithoutFacts
    <2>3. /\ Broken(t, rows'[t]) = (IF i < Len(rows[t]) THEN {i} ELSE {})
          /\ i < Len(rows[t]) =>
               /\ rows'[t][i].sequence = rows[t][i].sequence + 1
               /\ NextLink(rows'[t]) = NextLink(rows[t])
      BY <1>3, <2>1, <2>2, BrokenWithout
    <2>4. edit.sequence = rows[t][i].sequence /\ edit.kind = "deleted"
      BY <1>e
    <2>5. edit.tail <=> i = Len(rows[t])
      BY <1>e
    <2>6. BreakOf(edit) = rows[t][i].sequence + 1 /\ edit.kind # "garbled"
      BY <2>4 DEF BreakOf
    <2>7. Detected(edit) <=> i < Len(rows[t])
      <3>1. i < Len(rows[t]) <=> i # Len(rows[t])
        BY <1>3
      <3>2. QED
        BY <2>4, <2>5, <3>1 DEF Detected
    <2>8. i <= durable'[t] + 1 /\ (i < Len(rows[t]) => i <= durable'[t])
      BY <1>3, <2>2
    <2>9. ASSUME NEW th \in Threads, pc'[th] = "insert", request'[th].tenant = t
          PROVE  \/ Fresh(th)'
                 \/ /\ ~Detected(edit)
                    /\ i = Len(rows'[t]) + 1
                    /\ link'[th].sequence = BreakOf(edit)
      <3>1. link'[th] = NextLink(rows[t]) /\ request'[th] = request[th]
        BY <1>4, <2>1, <2>9 DEF Fresh
      <3>2. CASE i < Len(rows[t])
        BY <2>3, <2>9, <3>1, <3>2 DEF Fresh
      <3>3. CASE ~(i < Len(rows[t]))
        <4>1. i = Len(rows[t]) /\ i = Len(rows'[t]) + 1 /\ Len(rows[t]) # 0
          BY <1>3, <2>2, <3>3
        <4>2. rows[t] # << >>
          BY <4>1, EmptySeq
        <4>3. link'[th].sequence = rows[t][i].sequence + 1
          BY <3>1, <4>1, <4>2 DEF NextLink
        <4>4. QED
          BY <2>6, <2>7, <3>3, <4>1, <4>3
      <3>4. QED
        BY <3>2, <3>3
    <2>10. i < Len(rows[t]) => rows'[t][i].event # NotJson
      BY <1>3, <2>1, <2>2, DeletedIsReadable
    <2>11. QED
      BY <2>3, <2>6, <2>7, <2>8, <2>9, <2>10 DEF BreakIsAt, Blames
  <1>8. OneEditOneBreak'
    <2>1. edit.tenant = t /\ i \in Nat
      BY <1>e
    <2> SUFFICES ASSUME Len(edits') = 1
                 PROVE  \E p \in Nat : BreakIsAt(edits[1].tenant, p, edits[1])'
      BY DEF OneEditOneBreak
    <2>2. edits'[1] = edit
      BY <1>5
    <2>3. BreakIsAt(t, i, edit)'
      BY <1>7
    <2>4. BreakIsAt(edits[1].tenant, i, edits[1])'
      BY <2>1, <2>2, <2>3 DEF BreakIsAt
    <2>5. QED
      BY <2>1, <2>4
  <1>9. QED
    BY <1>2, <1>6, <1>8 DEF TamperInv

-----------------------------------------------------------------------------
(* The invariant, and the theorems. *)

(* An empty ledger that nobody edited satisfies the invariant.              *)
LEMMA TamperInitInv == TamperInit => TamperInv
  <1> SUFFICES ASSUME TamperInit PROVE TamperInv
    OBVIOUS
  <1>1. TypeOK /\ Exclusive
    BY InitEstablishesIInv DEF TamperInit, IInv
  <1>2. \A t \in Tenants : /\ rows[t] = << >> /\ Len(rows[t]) = 0
                           /\ sealed[t] = << >> /\ sealed[t] \in Seq(Seals)
    BY EmptySeq DEF TamperInit, Init
  <1>3. edits \in Seq(Edits) /\ Len(edits) = 0
    BY EmptySeq DEF TamperInit
  <1>4. TamperTypes
    BY <1>1, <1>2, <1>3 DEF TamperInit, TamperTypes
  <1>5. \A th \in Threads : pc[th] = "idle"
    BY DEF TamperInit, Init
  <1>6. Honest /\ ForgedIsEdited /\ UneditedIsIntact
    BY <1>2, <1>5 DEF Honest, ForgedIsEdited, UneditedIsIntact, Broken
  <1>7. OneEditOneBreak
    BY <1>3 DEF OneEditOneBreak
  <1>8. QED
    BY <1>1, <1>4, <1>6, <1>7 DEF TamperInv

(* The invariant holds whatever the program and the editor do.              *)
THEOREM TamperInvHolds == TamperSpec => []TamperInv
  <1>1. TamperInv /\ [TamperNext]_tamperVars => TamperInv'
    <2> SUFFICES ASSUME TamperInv, [TamperNext]_tamperVars PROVE TamperInv'
      OBVIOUS
    <2>1. CASE ProgramStep
      BY <2>1, ProgramKeepsInv
    <2>2. CASE \E t \in Tenants : \E i \in 1 .. Len(rows[t]), e \in Payloads : AlterRow(t, i, e)
      BY <2>2, AlterKeepsInv
    <2>3. CASE \E t \in Tenants : \E i \in 1 .. Len(rows[t]) : DeleteRow(t, i)
      BY <2>3, DeleteKeepsInv
    <2>4. CASE \E t \in Tenants : \E i \in 1 .. Len(rows[t]), e \in Events : RehashRow(t, i, e)
      BY <2>4, RehashKeepsInv
    <2>5. CASE UNCHANGED tamperVars
      <3>1. TamperTypes' /\ Exclusive' /\ Honest' /\ UneditedIsIntact'
        BY <2>5 DEF tamperVars, TamperInv, TamperTypes, TypeOK, Exclusive, Honest,
                    UneditedIsIntact, Fresh, Edited
      <3>2. ForgedIsEdited'
        BY <2>5 DEF tamperVars, TamperInv, ForgedIsEdited, Rehashed
      <3>3. OneEditOneBreak'
        BY <2>5 DEF tamperVars, TamperInv, OneEditOneBreak, BreakIsAt, Fresh
      <3>4. QED
        BY <3>1, <3>2, <3>3 DEF TamperInv
    <2>6. QED
      BY <2>1, <2>2, <2>3, <2>4, <2>5 DEF TamperNext
  <1>2. QED
    BY TamperInitInv, <1>1, PTL DEF TamperSpec

(* A good report of verify_chain can be trusted, however often and however  *)
(* the file was edited, as far as a hash without a key allows: the rows of  *)
(* an intact trail are numbered 1, 2, 3, ... without a gap, and each is     *)
(* word for word what record() inserted unless an editor rehashed it.       *)
THEOREM GoodReportsAreTrue == TamperSpec => []IntactMeansRecorded
  <1>1. TamperInv => IntactMeansRecorded
    <2> SUFFICES ASSUME TamperInv, NEW t \in Tenants, Intact(t, rows[t])
                 PROVE  \A i \in 1 .. Len(rows[t]) :
                          /\ rows[t][i].sequence = i
                          /\ rows[t][i].event = sealed[t][i].event
                          /\ sealed[t][i].by = "editor" => Rehashed(t, i)
      BY DEF IntactMeansRecorded
    <2> DEFINE n == Len(rows[t])
               wrong == {i \in 1 .. n : Len(rows[t][i].previous_hash) # i - 1}
    <2>1. /\ rows[t] \in Seq(Rows) /\ sealed[t] \in Seq(Seals)
          /\ n \in Nat /\ Len(sealed[t]) = n
          /\ HonestTrail(t, rows[t], sealed[t])
      BY TrailFacts DEF TamperInv
    <2>2. \A i \in 1 .. n :
            /\ rows[t][i].previous_hash = ExpectedPrevious(rows[t], i)
            /\ rows[t][i].event = sealed[t][i].event
            /\ rows[t][i].sequence = Len(rows[t][i].previous_hash) + 1
            /\ Len(rows[t][i].entry_hash) = rows[t][i].sequence
      <3> TAKE i \in 1 .. n
      <3>1. sealed[t][i].event \in Events /\ HonestRow(t, rows[t][i], sealed[t][i].event)
        BY <2>1, SealFacts DEF HonestTrail
      <3>2. Len(rows[t][i].entry_hash) = rows[t][i].sequence
        BY <2>1, <3>1, HonestCounts
      <3>3. i \notin Broken(t, rows[t])
        BY DEF Intact
      <3>4. QED
        BY <2>1, <3>1, <3>2, <3>3, BrokenMeans DEF HonestRow
    <2>3. wrong = {}
      <3> SUFFICES ASSUME wrong # {} PROVE FALSE
        OBVIOUS
      <3>1. wrong \in SUBSET Nat
        OBVIOUS
      <3>2. PICK x \in wrong : \A y \in wrong : x <= y
        <4> HIDE DEF wrong
        <4>1. QED
          BY <3>1, LeastOf
      <3>3. x \in 1 .. n /\ Len(rows[t][x].previous_hash) # x - 1
        OBVIOUS
      <3>4. CASE x = 1
        BY <2>2, <3>3, <3>4, EmptySeq DEF ExpectedPrevious, GENESIS
      <3>5. CASE x # 1
        <4>1. x - 1 \in 1 .. n /\ ~(x <= x - 1)
          BY <2>1, <3>3, <3>5
        <4>2. x - 1 \notin wrong
          BY <3>2, <4>1
        <4>3. Len(rows[t][x - 1].previous_hash) = (x - 1) - 1
          BY <4>1, <4>2
        <4>4. Len(rows[t][x - 1].entry_hash) = x - 1
          <5>1. Len(rows[t][x - 1].entry_hash) = Len(rows[t][x - 1].previous_hash) + 1
            BY <2>2, <4>1
          <5>2. ((x - 1) - 1) + 1 = x - 1
            BY <3>3
          <5>3. QED
            BY <4>3, <5>1, <5>2
        <4>5. rows[t][x].previous_hash = rows[t][x - 1].entry_hash
          BY <2>2, <3>3, <3>5 DEF ExpectedPrevious
        <4>6. QED
          BY <3>3, <4>4, <4>5
      <3>6. QED
        BY <3>4, <3>5
    <2>4. ASSUME NEW i \in 1 .. n
          PROVE  /\ rows[t][i].sequence = i
                 /\ rows[t][i].event = sealed[t][i].event
                 /\ sealed[t][i].by = "editor" => Rehashed(t, i)
      <3>1. Len(rows[t][i].previous_hash) = i - 1
        BY <2>3
      <3>2. rows[t][i].sequence = i
        BY <2>2, <3>1
      <3>3. sealed[t][i].by = "editor" => Rehashed(t, rows[t][i].sequence)
        BY DEF TamperInv, ForgedIsEdited
      <3>4. QED
        BY <2>2, <3>2, <3>3
    <2>5. QED
      BY <2>4
  <1>2. QED
    BY TamperInvHolds, <1>1, PTL

(* A bad report points at the edit: after a single edit, and whatever was   *)
(* recorded, rolled back or lost in a crash since, verify_chain reports the *)
(* altered row under its own number, or the first row behind the deleted or *)
(* rehashed one; it misses neither an alteration nor a deletion or          *)
(* rehashing, but those of the last row; and it raises, without a report,   *)
(* just if the edit left a payload that is not JSON.                        *)
THEOREM BadReportsPointAtTheEdit == TamperSpec => []BreakIsAtTheEdit
  <1>1. TamperInv => BreakIsAtTheEdit
    <2> SUFFICES ASSUME TamperInv, Len(edits) = 1 PROVE BreakIsAtTheEdit
      BY DEF BreakIsAtTheEdit
    <2> DEFINE edit == edits[1]
               t    == edit.tenant
    <2>1. PICK p \in Nat : BreakIsAt(t, p, edit)
      BY DEF TamperInv, OneEditOneBreak
    <2> HIDE DEF t, edit
    <2>2. /\ Broken(t, rows[t]) \subseteq {p}
          /\ p \in Broken(t, rows[t]) => Blames(rows[t][p], edit)
          /\ Detected(edit) => p \in Broken(t, rows[t])
      BY <2>1 DEF BreakIsAt
    <2>3. Detected(edit) => ~Intact(t, rows[t])
      BY <2>2 DEF Intact
    <2>4. ASSUME ~Intact(t, rows[t])
          PROVE  /\ BrokenAt(t, rows[t]) = BreakOf(edit)
                 /\ Raises(t, rows[t]) <=> edit.kind = "garbled"
                 /\ ReportsBreak(t, rows[t]) <=> edit.kind # "garbled"
      <3>1. Broken(t, rows[t]) = {p}
        BY <2>2, <2>4 DEF Intact
      <3>2. StopsAt(t, rows[t]) = p
        <4>1. \E i \in Broken(t, rows[t]) : \A j \in Broken(t, rows[t]) : i <= j
          BY <2>1, <3>1
        <4>2. QED
          BY <3>1, <4>1 DEF StopsAt
      <3>3. QED
        BY <2>2, <2>4, <3>1, <3>2 DEF BrokenAt, Raises, ReportsBreak, Blames
    <2>5. /\ edit.kind = "garbled" <=> Raises(t, rows[t])
          /\ edit.kind = "altered" \/ (edit.kind # "garbled" /\ ~edit.tail)
               => ReportsBreak(t, rows[t])
          /\ ReportsBreak(t, rows[t]) => BrokenAt(t, rows[t]) = BreakOf(edit)
      BY <2>3, <2>4 DEF Detected, Raises, ReportsBreak
    <2>6. QED
      BY <2>5 DEF t, edit, BreakIsAtTheEdit
  <1>2. QED
    BY TamperInvHolds, <1>1, PTL

(* No false alarm: the trail of a tenant whose rows nobody edited is        *)
(* reported intact, whatever happens to the trails of the others.           *)
THEOREM UneditedTrailsAreIntact ==
  TamperSpec => [](\A t \in Tenants : ~Edited(t) => Intact(t, rows[t]))
  <1>1. TamperInv => \A t \in Tenants : ~Edited(t) => Intact(t, rows[t])
    BY DEF TamperInv, UneditedIsIntact, Intact
  <1>2. QED
    BY TamperInvHolds, <1>1, PTL

=============================================================================
