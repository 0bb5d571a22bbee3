------------------------ MODULE DecisionServiceProofs ------------------------
(***************************************************************************)
(* DecisionService for any number of calls, tenants, keys, partners,       *)
(* failing writes and crashes.  The argument: a row is only written when   *)
(* everything its decision had to leave before is committed, and what is   *)
(* committed stays.                                                        *)
(***************************************************************************)
EXTENDS DecisionService, SequenceTheorems, FiniteSetTheorems, TLAPS

-----------------------------------------------------------------------------
\* Whether table b may be written right after table a.
Follows(a, b) ==
  \/ a = "decisions" /\ b = "APPLICATION_DECISION"
  \/ a \in {"APPLICATION_DECISION"} \cup Partners /\ b \in Partners \cup {"audit_events"}
  \/ a = "audit_events" /\ b = "idempotency"

Linked(seq) ==
  /\ seq \in Seq(Tables)
  /\ \A i \in 1 .. Len(seq) : i < Len(seq) => Follows(seq[i], seq[i + 1])

InOrder(seq) == Linked(seq) /\ seq # << >> /\ seq[Len(seq)] \in {"audit_events", "idempotency"}

\* What is on disk of decision d before the given table gets its row.
Prepared(table, d) ==
  /\ table # "decisions" => Row("decisions", d) \in disk
  /\ table \notin {"decisions", "APPLICATION_DECISION"} => Row("APPLICATION_DECISION", d) \in disk
  /\ table = "idempotency" => Row("audit_events", d) \in disk

\* Whatever the connection sees of a decision, its predecessors are on disk.
Backed == \A row \in view : Prepared(row.table, row.decision)

\* A call that writes holds the lock, what it inserted is still in place and
\* what it writes is prepared; what a call returns, or is about to, is settled.
CallReady(c) ==
  /\ pc[c] = "commit" => lock = c
  /\ pc[c] \in {"write", "commit"} => InOrder(todo[c]) /\ Prepared(Head(todo[c]), c)
  /\ pc[c] = "commit" /\ Head(todo[c]) # "idempotency" => Row(Head(todo[c]), c) \in view
  /\ pc[c] = "fetch" => found[c] \in Calls /\ Settled(disk, found[c])
  /\ pc[c] = "reply" => Settled(disk, c)
  /\ pc[c] = "answered" => answer[c] \in Calls /\ Settled(disk, answer[c])

ServiceInv == TypeOK /\ Backed /\ \A c \in Calls : CallReady(c)

-----------------------------------------------------------------------------
(* Platform.decide: the writes of a decision in their order.                *)

(* Two runs of writes make one, if the second may follow the first.         *)
LEMMA LinkedRuns ==
  ASSUME NEW s, Linked(s), s # << >>, NEW t, Linked(t),
         t # << >> => Follows(s[Len(s)], t[1])
  PROVE  /\ Linked(s \o t) /\ s \o t # << >> /\ (s \o t)[1] = s[1]
         /\ t # << >> => (s \o t)[Len(s \o t)] = t[Len(t)]
         /\ t = << >> => (s \o t)[Len(s \o t)] = s[Len(s)]
<1>1. s \in Seq(Tables) /\ t \in Seq(Tables) /\ Len(s) \in Nat \ {0} /\ Len(t) \in Nat
  BY EmptySeq, LenProperties DEF Linked
<1>2. /\ s \o t \in Seq(Tables) /\ Len(s \o t) = Len(s) + Len(t)
      /\ \A i \in 1 .. Len(s) + Len(t) : (s \o t)[i] = IF i <= Len(s) THEN s[i] ELSE t[i - Len(s)]
  BY <1>1, ConcatProperties
<1>3. t # << >> => Len(t) > 0
  BY <1>1, EmptySeq
<1>4. t = << >> => Len(t) = 0
  OBVIOUS
<1>5. ASSUME NEW i \in 1 .. Len(s \o t), i < Len(s \o t)
      PROVE  Follows((s \o t)[i], (s \o t)[i + 1])
  <2>1. CASE i < Len(s)
    <3>1. (s \o t)[i] = s[i] /\ (s \o t)[i + 1] = s[i + 1]
      BY <1>1, <1>2, <1>5, <2>1
    <3> QED BY <1>1, <1>2, <2>1, <3>1 DEF Linked
  <2>2. CASE i = Len(s)
    <3>1. (s \o t)[i] = s[Len(s)] /\ (s \o t)[i + 1] = t[1] /\ t # << >>
      BY <1>1, <1>2, <1>4, <1>5, <2>2
    <3> QED BY <3>1
  <2>3. CASE i > Len(s)
    <3>1. (s \o t)[i] = t[i - Len(s)] /\ (s \o t)[i + 1] = t[(i - Len(s)) + 1]
      BY <1>1, <1>2, <1>5, <2>3
    <3>2. i - Len(s) \in 1 .. Len(t) /\ i - Len(s) < Len(t)
      BY <1>1, <1>2, <1>5, <2>3
    <3> QED BY <3>1, <3>2 DEF Linked
  <2>4. i < Len(s) \/ i = Len(s) \/ i > Len(s)
    BY <1>1
  <2> QED BY <2>1, <2>2, <2>3, <2>4
<1>6. Linked(s \o t)
  BY <1>2, <1>5 DEF Linked
<1>7. (s \o t)[1] = s[1]
  BY <1>1, <1>2
<1>8. s \o t # << >>
  BY <1>1, <1>2
<1>9. t # << >> => (s \o t)[Len(s \o t)] = t[Len(t)]
  BY <1>1, <1>2, <1>3
<1>10. t = << >> => (s \o t)[Len(s \o t)] = s[Len(s)]
  BY <1>1, <1>2, <1>4
<1> QED BY <1>6, <1>7, <1>8, <1>9, <1>10

(* Api.decide: decision, billing event, partners, audit row, key.           *)
LEMMA WritesAreInOrder ==
  ASSUME NEW c \in Calls, NEW order \in PartnerOrders
  PROVE  InOrder(WritesFor(c, order)) /\ Head(WritesFor(c, order)) = "decisions"
<1> DEFINE start == <<"decisions", "APPLICATION_DECISION">>
           audit == <<"audit_events">>
           key == IF arg[c].key = NoKey THEN << >> ELSE <<"idempotency">>
<1>1. PICK n \in Nat : order \in [1 .. n -> Partners]
  <2>1. Cardinality(Partners) \in Nat
    BY ServiceAssumption, FS_CardinalityType
  <2> QED BY <2>1 DEF PartnerOrders
<1>2. order \in Seq(Partners) /\ Len(order) = n
  BY <1>1
<1>3. Linked(order) /\ \A i \in 1 .. Len(order) : order[i] \in Partners
  BY <1>1, <1>2, ServiceAssumption DEF Linked, Follows, Tables
<1>4. Linked(start) /\ start # << >> /\ start[Len(start)] = "APPLICATION_DECISION" /\ start[1] = "decisions"
  BY DEF Linked, Follows, Tables
<1>5. Linked(audit) /\ audit # << >> /\ audit[1] = "audit_events" /\ audit[Len(audit)] = "audit_events"
  BY DEF Linked, Follows, Tables
<1>6. Linked(key) /\ (key # << >> => key[1] = "idempotency" /\ key[Len(key)] = "idempotency")
  <2>1. CASE arg[c].key = NoKey
    <3>1. key = << >>
      BY <2>1
    <3> HIDE DEF key
    <3> QED BY <3>1 DEF Linked
  <2>2. CASE arg[c].key # NoKey
    <3>1. key = <<"idempotency">>
      BY <2>2
    <3> HIDE DEF key
    <3> QED BY <3>1 DEF Linked, Tables
  <2> QED BY <2>1, <2>2
<1>7. /\ Linked(start \o order) /\ start \o order # << >> /\ (start \o order)[1] = "decisions"
      /\ (start \o order)[Len(start \o order)] \in Partners \cup {"APPLICATION_DECISION"}
  <2>1. order # << >> => order[1] \in Partners /\ order[Len(order)] \in Partners
    BY <1>2, <1>3
  <2>2. order # << >> => Follows(start[Len(start)], order[1])
    BY <1>4, <2>1 DEF Follows
  <2> QED BY <1>3, <1>4, <2>1, <2>2, LinkedRuns
<1>8. LET s == (start \o order) \o audit
      IN Linked(s) /\ s # << >> /\ s[1] = "decisions" /\ s[Len(s)] = "audit_events"
  <2>1. Follows((start \o order)[Len(start \o order)], audit[1])
    BY <1>5, <1>7, ServiceAssumption DEF Follows
  <2> QED BY <1>5, <1>7, <2>1, LinkedRuns
<1>9. LET s == ((start \o order) \o audit) \o key
      IN Linked(s) /\ s # << >> /\ s[1] = "decisions" /\ s[Len(s)] \in {"audit_events", "idempotency"}
  <2>1. key # << >> => Follows("audit_events", key[1])
    BY <1>6 DEF Follows
  <2> QED BY <1>6, <1>8, <2>1, LinkedRuns
<1>10. WritesFor(c, order) = ((start \o order) \o audit) \o key
  BY DEF WritesFor
<1> QED BY <1>9, <1>10 DEF InOrder

(* The writes that are left after one of them are in order, and prepared by *)
(* it, or the decision is settled.                                          *)
LEMMA TailStaysInOrder ==
  ASSUME NEW seq, InOrder(seq)
  PROVE  /\ Head(seq) = seq[1] /\ Head(seq) \in Tables /\ Tail(seq) \in Seq(Tables) /\ Len(seq) \in Nat
         /\ Len(seq) = 1 => Head(seq) \in {"audit_events", "idempotency"}
         /\ Len(seq) # 1 => /\ InOrder(Tail(seq)) /\ Follows(Head(seq), Head(Tail(seq)))
                            /\ Tail(seq)[Len(Tail(seq))] = seq[Len(seq)]
<1>1. seq \in Seq(Tables) /\ seq # << >> /\ Len(seq) \in Nat \ {0}
  BY EmptySeq, LenProperties DEF InOrder, Linked
<1>2. /\ Head(seq) = seq[1] /\ Head(seq) \in Tables /\ Tail(seq) \in Seq(Tables)
      /\ Len(Tail(seq)) = Len(seq) - 1
      /\ \A i \in 1 .. Len(Tail(seq)) : Tail(seq)[i] = seq[i + 1]
  BY <1>1, HeadTailProperties
<1>3. Len(seq) = 1 => Head(seq) \in {"audit_events", "idempotency"}
  BY <1>2 DEF InOrder
<1>4. ASSUME Len(seq) # 1
      PROVE  /\ InOrder(Tail(seq)) /\ Follows(Head(seq), Head(Tail(seq)))
             /\ Tail(seq)[Len(Tail(seq))] = seq[Len(seq)]
  <2>0. Len(Tail(seq)) \in Nat \ {0}
    BY <1>1, <1>2, <1>4
  <2>1. Len(Tail(seq)) \in Nat \ {0} /\ Tail(seq) # << >>
    BY <1>2, <2>0, EmptySeq
  <2>2. Head(Tail(seq)) = Tail(seq)[1]
    BY <1>2, <2>1, HeadTailProperties
  <2>3. Follows(Head(seq), Head(Tail(seq)))
    BY <1>1, <1>2, <1>4, <2>1, <2>2 DEF InOrder, Linked
  <2>4. \A i \in 1 .. Len(Tail(seq)) : i < Len(Tail(seq)) => Follows(Tail(seq)[i], Tail(seq)[i + 1])
    <3> SUFFICES ASSUME NEW i \in 1 .. Len(Tail(seq)), i < Len(Tail(seq))
                 PROVE  Follows(Tail(seq)[i], Tail(seq)[i + 1])
      OBVIOUS
    <3>1. Tail(seq)[i] = seq[i + 1] /\ Tail(seq)[i + 1] = seq[(i + 1) + 1]
      BY <1>1, <1>2
    <3>2. i + 1 \in 1 .. Len(seq) /\ i + 1 < Len(seq)
      BY <1>1, <1>2
    <3> QED BY <3>1, <3>2 DEF InOrder, Linked
  <2>5. Tail(seq)[Len(Tail(seq))] = seq[Len(seq)]
    BY <1>1, <1>2, <2>1
  <2> QED BY <1>2, <2>1, <2>3, <2>4, <2>5 DEF InOrder, Linked
<1> QED BY <1>1, <1>2, <1>3, <1>4

-----------------------------------------------------------------------------
(* Before the first request there is nothing to be prepared.                *)
LEMMA ServiceInit == Init => ServiceInv
<1> SUFFICES ASSUME Init PROVE ServiceInv
  OBVIOUS
<1>1. (CHOOSE a \in Args : TRUE) \in Args
  <2>1. PICK t \in Tenants, k \in Correlations : TRUE
    BY ServiceAssumption
  <2>2. [tenant |-> t, key |-> NoKey, correlation |-> k] \in Args
    BY DEF Args
  <2> QED BY <2>2
<1>2. TypeOK
  BY <1>1, ServiceAssumption DEF Init, TypeOK, Ended
<1>3. Backed /\ \A c \in Calls : CallReady(c)
  BY DEF Init, Backed, CallReady
<1> QED BY <1>2, <1>3 DEF ServiceInv

(* A row that the connection does not see before one write is the row of    *)
(* that write.                                                              *)
LEMMA InsertedRows ==
  ASSUME NEW c \in Calls
  PROVE  /\ view \subseteq Inserted(view, c)
         /\ Inserted(view, c) \subseteq view \cup {Row(Head(todo[c]), c)}
         /\ Head(todo[c]) # "idempotency" => Row(Head(todo[c]), c) \in Inserted(view, c)
BY DEF Inserted

(* Every step keeps the types.                                              *)
LEMMA ServiceTypes == ServiceInv /\ [Next]_vars => TypeOK'
<1> SUFFICES ASSUME ServiceInv, [Next]_vars PROVE TypeOK'
  OBVIOUS
<1> USE ServiceAssumption DEF TypeOK, Ended
<1>0. TypeOK
  BY DEF ServiceInv
<1>1. ASSUME NEW c \in Calls, NEW a \in Args, Arrive(c, a) PROVE TypeOK'
  <2>1. clashed' \subseteq Tenants \X Keys
    BY <1>0, <1>1 DEF Arrive, Rivals, Args
  <2> QED BY <1>0, <1>1, <2>1 DEF Arrive
<1>2. ASSUME NEW c \in Calls, Reject(c) PROVE TypeOK'
  BY <1>0, <1>2 DEF Reject
<1>3. ASSUME NEW c \in Calls, Lookup(c) PROVE TypeOK'
  <2> DEFINE known == Remembered(view, arg[c].tenant, arg[c].key)
  <2>1. known \subseteq Calls
    BY DEF Remembered
  <2>2. found' \in [Calls -> Calls \cup {NoCall}]
    <3>1. CASE known = {}
      BY <1>0, <1>3, <3>1 DEF Lookup
    <3>2. CASE known # {}
      <4>1. PICK d \in known : found' = [found EXCEPT ![c] = d]
        BY <1>3, <3>2 DEF Lookup
      <4> QED BY <1>0, <2>1, <4>1
    <3> QED BY <3>1, <3>2
  <2>3. pc' \in [Calls -> {"new", "lookup", "fetch", "decide", "write", "commit", "reply"} \cup Ended]
    BY <1>0, <1>3 DEF Lookup
  <2> QED BY <1>0, <1>3, <2>2, <2>3 DEF Lookup
<1>4. ASSUME NEW c \in Calls, Fetch(c) PROVE TypeOK'
  <2>1. found[c] \in DecisionsOf(view, arg[c].tenant) => found[c] \in Calls
    BY DEF DecisionsOf
  <2> QED BY <1>0, <1>4, <2>1 DEF Fetch, Return
<1>5. ASSUME NEW c \in Calls, Decide(c) PROVE TypeOK'
  <2>1. \A order \in PartnerOrders : WritesFor(c, order) \in Seq(Tables)
    BY WritesAreInOrder DEF InOrder, Linked
  <2> QED BY <1>0, <1>5, <2>1 DEF Decide
<1>6. ASSUME NEW c \in Calls, Write(c) PROVE TypeOK'
  <2>1. Head(todo[c]) \in Tables
    BY <1>6, TailStaysInOrder DEF Write, ServiceInv, CallReady
  <2>2. Row(Head(todo[c]), c) \in LedgerRows
    BY <2>1 DEF Row, LedgerRows
  <2>3. disk' \subseteq view' /\ view' \subseteq LedgerRows
    BY <1>0, <1>6, <2>2, InsertedRows DEF Write
  <2> QED BY <1>0, <1>6, <2>3 DEF Write
<1>7. ASSUME NEW c \in Calls, Commit(c) PROVE TypeOK'
  <2>1. Tail(todo[c]) \in Seq(Tables)
    BY <1>7, TailStaysInOrder DEF Commit, ServiceInv, CallReady
  <2> QED BY <1>0, <1>7, <2>1 DEF Commit
<1>8. ASSUME NEW c \in Calls, Reply(c) PROVE TypeOK'
  BY <1>0, <1>8 DEF Reply, Return
<1>9. ASSUME NEW c \in Calls, WriteFails(c) PROVE TypeOK'
  BY <1>0, <1>9 DEF WriteFails
<1>10. CASE Crash
  BY <1>0, <1>10 DEF Crash, Running
<1>11. CASE UNCHANGED vars
  BY <1>0, <1>11 DEF vars
<1> QED
  BY <1>1, <1>2, <1>3, <1>4, <1>5, <1>6, <1>7, <1>8, <1>9, <1>10, <1>11 DEF Next, CallStep

-----------------------------------------------------------------------------
(* What is committed stays, and with it whatever rests on it.               *)
LEMMA CallsKeep ==
  ASSUME NEW d \in Calls, CallReady(d), disk \subseteq disk',
         pc'[d] = pc[d], todo'[d] = todo[d], found'[d] = found[d], answer'[d] = answer[d],
         pc[d] = "commit" => lock' = lock /\ view \subseteq view'
  PROVE  CallReady(d)'
BY DEF CallReady, Prepared, Settled

LEMMA RowsKeep ==
  ASSUME Backed, disk \subseteq disk', view' \subseteq view
  PROVE  Backed'
BY DEF Backed, Prepared

(* A step of a call that neither writes nor fails keeps the invariant, if   *)
(* the call itself is ready for what comes next.                            *)
LEMMA QuietCall ==
  ASSUME ServiceInv, TypeOK', NEW c \in Calls,
         UNCHANGED <<view, disk, lock>>,
         \A d \in Calls \ {c} : /\ pc'[d] = pc[d] /\ todo'[d] = todo[d]
                                /\ found'[d] = found[d] /\ answer'[d] = answer[d],
         CallReady(c)'
  PROVE  ServiceInv'
<1>1. \A d \in Calls : CallReady(d)'
  BY CallsKeep DEF ServiceInv
<1>2. Backed'
  BY RowsKeep DEF ServiceInv
<1> QED BY <1>1, <1>2 DEF ServiceInv

(* ledger.replay: the key row that is found has its decision settled.       *)
LEMMA LookupKeeps ==
  ASSUME ServiceInv, TypeOK', NEW c \in Calls, Lookup(c)
  PROVE  ServiceInv'
<1> DEFINE known == Remembered(view, arg[c].tenant, arg[c].key)
<1>1. \A d \in known : d \in Calls /\ Settled(disk, d)
  <2> SUFFICES ASSUME NEW d \in known PROVE d \in Calls /\ Settled(disk, d)
    OBVIOUS
  <2>1. Row("idempotency", d) \in view /\ d \in Calls
    BY DEF Remembered
  <2>2. Prepared("idempotency", d)
    <3>1. Row("idempotency", d).table = "idempotency" /\ Row("idempotency", d).decision = d
      BY DEF Row
    <3> QED BY <2>1, <3>1 DEF ServiceInv, Backed
  <2> QED BY <2>1, <2>2 DEF Prepared, Settled
<1>2. CallReady(c)'
  <2>1. CASE known = {}
    <3>1. pc'[c] = "decide"
      BY <2>1 DEF Lookup, ServiceInv, TypeOK
    <3> QED BY <3>1 DEF CallReady
  <2>2. CASE known # {}
    <3>1. PICK d \in known : found' = [found EXCEPT ![c] = d]
      BY <2>2 DEF Lookup
    <3>2. pc'[c] = "fetch" /\ found'[c] = d /\ disk' = disk
      BY <2>2, <3>1 DEF Lookup, ServiceInv, TypeOK
    <3> QED BY <1>1, <3>2 DEF CallReady, Settled
  <2> QED BY <2>1, <2>2
<1>3. \A d \in Calls \ {c} : /\ pc'[d] = pc[d] /\ todo'[d] = todo[d]
                               /\ found'[d] = found[d] /\ answer'[d] = answer[d]
  <2>1. \A d \in Calls \ {c} : pc'[d] = pc[d] /\ todo'[d] = todo[d] /\ answer'[d] = answer[d]
    BY DEF Lookup, ServiceInv, TypeOK
  <2>2. \A d \in Calls \ {c} : found'[d] = found[d]
    <3>1. CASE known = {}
      BY <3>1 DEF Lookup
    <3>2. CASE known # {}
      <4>1. PICK e \in known : found' = [found EXCEPT ![c] = e]
        BY <3>2 DEF Lookup
      <4> QED BY <4>1 DEF ServiceInv, TypeOK
    <3> QED BY <3>1, <3>2
  <2> QED BY <2>1, <2>2
<1>4. UNCHANGED <<view, disk, lock>>
  BY DEF Lookup
<1> QED BY <1>2, <1>3, <1>4, QuietCall

(* Api.decide, replay: what is returned was settled when the key was found. *)
LEMMA FetchKeeps ==
  ASSUME ServiceInv, TypeOK', NEW c \in Calls, Fetch(c)
  PROVE  ServiceInv'
<1>1. found[c] \in Calls /\ Settled(disk, found[c])
  BY DEF Fetch, ServiceInv, CallReady
<1>2. pc'[c] = "decide" \/ (pc'[c] = "answered" /\ answer'[c] = found[c])
  BY DEF Fetch, Return, ServiceInv, TypeOK
<1>3. UNCHANGED <<view, disk, lock, todo, found>>
  BY DEF Fetch
<1>4. CallReady(c)'
  BY <1>1, <1>2, <1>3 DEF CallReady, Settled
<1>5. \A d \in Calls \ {c} : pc'[d] = pc[d] /\ answer'[d] = answer[d]
  BY DEF Fetch, Return, ServiceInv, TypeOK
<1> QED BY <1>3, <1>4, <1>5, QuietCall

(* Platform.decide: nothing has to be on disk for the first write.          *)
LEMMA DecideKeeps ==
  ASSUME ServiceInv, TypeOK', NEW c \in Calls, Decide(c)
  PROVE  ServiceInv'
<1>1. PICK order \in PartnerOrders : todo' = [todo EXCEPT ![c] = WritesFor(c, order)]
  BY DEF Decide
<1>2. pc'[c] = "write" /\ todo'[c] = WritesFor(c, order)
  BY <1>1 DEF Decide, ServiceInv, TypeOK
<1>3. InOrder(todo'[c]) /\ Head(todo'[c]) = "decisions"
  BY <1>2, WritesAreInOrder
<1>4. CallReady(c)'
  BY <1>2, <1>3 DEF CallReady, Prepared, InOrder, Linked, Follows, Tables
<1>5. \A d \in Calls \ {c} : /\ pc'[d] = pc[d] /\ todo'[d] = todo[d]
                               /\ found'[d] = found[d] /\ answer'[d] = answer[d]
  BY <1>1 DEF Decide, ServiceInv, TypeOK
<1>6. UNCHANGED <<view, disk, lock>>
  BY DEF Decide
<1> QED BY <1>4, <1>5, <1>6, QuietCall

(* record, meter, store_decision, remember_idempotency: what is inserted is *)
(* prepared.                                                                *)
LEMMA WriteKeeps ==
  ASSUME ServiceInv, TypeOK', NEW c \in Calls, Write(c)
  PROVE  ServiceInv'
<1>1. InOrder(todo[c]) /\ Prepared(Head(todo[c]), c)
  BY DEF Write, ServiceInv, CallReady
<1>2. view \subseteq view' /\ view' \subseteq view \cup {Row(Head(todo[c]), c)} /\ disk' = disk
  BY InsertedRows DEF Write
<1>3. Backed'
  <2> SUFFICES ASSUME NEW row \in view' PROVE Prepared(row.table, row.decision)'
    BY DEF Backed
  <2>1. CASE row \in view
    BY <1>2, <2>1 DEF ServiceInv, Backed, Prepared
  <2>2. CASE row = Row(Head(todo[c]), c)
    <3>1. row.table = Head(todo[c]) /\ row.decision = c
      BY <2>2 DEF Row
    <3> QED BY <1>1, <1>2, <3>1 DEF Prepared
  <2> QED BY <1>2, <2>1, <2>2
<1>4. CallReady(c)'
  <2>1. pc'[c] = "commit" /\ lock' = c /\ todo' = todo
    BY DEF Write, ServiceInv, TypeOK
  <2>2. Head(todo[c]) # "idempotency" => Row(Head(todo[c]), c) \in view'
    BY InsertedRows DEF Write
  <2> QED BY <1>1, <1>2, <2>1, <2>2 DEF CallReady, Prepared
<1>5. \A d \in Calls \ {c} : CallReady(d)'
  <2> SUFFICES ASSUME NEW d \in Calls \ {c} PROVE CallReady(d)'
    OBVIOUS
  <2>1. pc[d] # "commit"
    BY ServiceAssumption DEF Write, ServiceInv, CallReady
  <2>2. pc'[d] = pc[d] /\ todo'[d] = todo[d] /\ found'[d] = found[d] /\ answer'[d] = answer[d]
    BY DEF Write, ServiceInv, TypeOK
  <2>3. CallReady(d) /\ disk \subseteq disk'
    BY <1>2 DEF ServiceInv
  <2> QED BY <2>1, <2>2, <2>3, CallsKeep
<1> QED BY <1>3, <1>4, <1>5 DEF ServiceInv

(* The commit: the next write is prepared, or the decision is settled.      *)
LEMMA CommitKeeps ==
  ASSUME ServiceInv, TypeOK', NEW c \in Calls, Commit(c)
  PROVE  ServiceInv'
<1>1. /\ lock = c /\ InOrder(todo[c]) /\ Prepared(Head(todo[c]), c)
      /\ Head(todo[c]) # "idempotency" => Row(Head(todo[c]), c) \in view
  BY DEF Commit, ServiceInv, CallReady
<1>2. disk' = view /\ view' = view /\ disk \subseteq disk'
  BY DEF Commit, ServiceInv, TypeOK
<1>3. Backed'
  BY <1>2, RowsKeep DEF ServiceInv
<1>4. CallReady(c)'
  <2>1. todo'[c] = Tail(todo[c]) /\ pc'[c] = IF Len(todo[c]) = 1 THEN "reply" ELSE "write"
    BY DEF Commit, ServiceInv, TypeOK
  <2>2. CASE Len(todo[c]) = 1
    <3>1. Head(todo[c]) \in {"audit_events", "idempotency"}
      BY <1>1, <2>2, TailStaysInOrder
    <3>2. Settled(disk, c)'
      BY <1>1, <1>2, <3>1 DEF Settled, Prepared
    <3> QED BY <2>1, <2>2, <3>2 DEF CallReady
  <2>3. CASE Len(todo[c]) # 1
    <3>1. InOrder(todo'[c]) /\ Follows(Head(todo[c]), Head(todo'[c]))
      BY <1>1, <2>1, <2>3, TailStaysInOrder
    <3>2. Prepared(Head(todo[c]), c)'
      BY <1>1, <1>2, <3>1, ServiceAssumption DEF Prepared, Follows
    <3>3. pc'[c] = "write"
      BY <2>1, <2>3
    <3>4. InOrder(todo[c])'
      BY <3>1 DEF InOrder, Linked, Follows, Tables
    <3> QED BY <3>2, <3>3, <3>4 DEF CallReady
  <2> QED BY <2>2, <2>3
<1>5. \A d \in Calls \ {c} : CallReady(d)'
  <2> SUFFICES ASSUME NEW d \in Calls \ {c} PROVE CallReady(d)'
    OBVIOUS
  <2>1. CallReady(d) /\ pc[d] # "commit"
    BY <1>1 DEF ServiceInv, CallReady
  <2>2. pc'[d] = pc[d] /\ todo'[d] = todo[d] /\ found'[d] = found[d] /\ answer'[d] = answer[d]
    BY DEF Commit, ServiceInv, TypeOK
  <2> QED BY <1>2, <2>1, <2>2, CallsKeep
<1> QED BY <1>3, <1>4, <1>5 DEF ServiceInv

(* A failed write loses nothing that is committed, and nobody else's row.   *)
LEMMA WriteFailsKeeps ==
  ASSUME ServiceInv, TypeOK', NEW c \in Calls, WriteFails(c)
  PROVE  ServiceInv'
<1>1. disk' = disk /\ view' \subseteq view
  BY DEF WriteFails, ServiceInv, TypeOK
<1>2. Backed'
  BY <1>1, RowsKeep DEF ServiceInv
<1>3. CallReady(c)'
  <2>1. pc'[c] = "error"
    BY DEF WriteFails, ServiceInv, TypeOK
  <2> QED BY <2>1 DEF CallReady
<1>4. \A d \in Calls \ {c} : CallReady(d)'
  <2> SUFFICES ASSUME NEW d \in Calls \ {c} PROVE CallReady(d)'
    OBVIOUS
  <2>1. CallReady(d) /\ pc[d] # "commit"
    BY ServiceAssumption DEF WriteFails, ServiceInv, CallReady
  <2>2. pc'[d] = pc[d] /\ todo'[d] = todo[d] /\ found'[d] = found[d] /\ answer'[d] = answer[d]
    BY DEF WriteFails, ServiceInv, TypeOK
  <2> QED BY <1>1, <2>1, <2>2, CallsKeep
<1> QED BY <1>2, <1>3, <1>4 DEF ServiceInv

(* A restart finds what is committed; calls under way are gone.             *)
LEMMA CrashKeeps ==
  ASSUME ServiceInv, TypeOK', Crash
  PROVE  ServiceInv'
<1>1. disk' = disk /\ view' \subseteq view
  BY DEF Crash, ServiceInv, TypeOK
<1>2. Backed'
  BY <1>1, RowsKeep DEF ServiceInv
<1>3. \A c \in Calls : CallReady(c)'
  <2> SUFFICES ASSUME NEW c \in Calls PROVE CallReady(c)'
    OBVIOUS
  <2>1. CallReady(c) /\ answer' = answer
    BY DEF Crash, ServiceInv
  <2>2. pc'[c] = "lost" \/ (pc'[c] = pc[c] /\ pc[c] \in Ended \cup {"new"})
    BY DEF Crash, Running
  <2> QED BY <1>1, <2>1, <2>2 DEF CallReady, Ended, Settled
<1> QED BY <1>2, <1>3 DEF ServiceInv

(* The inductive invariant is kept by every step.                           *)
LEMMA ServiceStepKeeps == ServiceInv /\ [Next]_vars => ServiceInv'
<1> SUFFICES ASSUME ServiceInv, [Next]_vars PROVE ServiceInv'
  OBVIOUS
<1>0. TypeOK'
  BY ServiceTypes
<1>1. ASSUME NEW c \in Calls, NEW a \in Args, Arrive(c, a) PROVE ServiceInv'
  <2>1. pc'[c] \in {"decide", "lookup"} /\ \A d \in Calls \ {c} : pc'[d] = pc[d]
    BY <1>1 DEF Arrive, ServiceInv, TypeOK
  <2>2. UNCHANGED <<view, disk, lock, todo, found, answer>>
    BY <1>1 DEF Arrive
  <2>3. CallReady(c)'
    BY <2>1 DEF CallReady
  <2> QED BY <1>0, <2>1, <2>2, <2>3, QuietCall
<1>2. ASSUME NEW c \in Calls, Reject(c) PROVE ServiceInv'
  <2>1. pc'[c] = "rejected" /\ \A d \in Calls \ {c} : pc'[d] = pc[d]
    BY <1>2 DEF Reject, ServiceInv, TypeOK
  <2>2. UNCHANGED <<view, disk, lock, todo, found, answer>>
    BY <1>2 DEF Reject
  <2>3. CallReady(c)'
    BY <2>1 DEF CallReady
  <2> QED BY <1>0, <2>1, <2>2, <2>3, QuietCall
<1>3. ASSUME NEW c \in Calls, CallStep(c) PROVE ServiceInv'
  <2>1. CASE Reply(c)
    <3>1. pc'[c] = "answered" /\ answer'[c] = c /\ Settled(disk, c)
      BY <2>1 DEF Reply, Return, ServiceInv, TypeOK, CallReady
    <3>2. UNCHANGED <<view, disk, lock, todo, found>>
      BY <2>1 DEF Reply
    <3>3. CallReady(c)'
      BY <3>1, <3>2 DEF CallReady, Settled
    <3>4. \A d \in Calls \ {c} : pc'[d] = pc[d] /\ answer'[d] = answer[d]
      BY <2>1 DEF Reply, Return, ServiceInv, TypeOK
    <3> QED BY <1>0, <3>2, <3>3, <3>4, QuietCall
  <2> QED
    BY <1>0, <1>3, <2>1, LookupKeeps, FetchKeeps, DecideKeeps, WriteKeeps, CommitKeeps, WriteFailsKeeps
       DEF CallStep
<1>4. CASE Crash
  BY <1>0, <1>4, CrashKeeps
<1>5. CASE UNCHANGED vars
  BY <1>5 DEF vars, ServiceInv, TypeOK, Backed, CallReady, Prepared, Settled, InOrder, Linked, Ended
<1> QED BY <1>1, <1>2, <1>3, <1>4, <1>5 DEF Next

(* DecisionService: every state has rows whose predecessors are committed.  *)
LEMMA ServiceInvHolds == Spec => []ServiceInv
BY ServiceInit, ServiceStepKeeps, PTL DEF Spec

-----------------------------------------------------------------------------
(* The variables keep their types, and what is committed is what the        *)
(* connection sees, whatever fails.                                         *)
THEOREM ServiceTypeCorrect == Spec => []TypeOK
<1>1. ServiceInv => TypeOK
  BY DEF ServiceInv
<1> QED BY <1>1, ServiceInvHolds, PTL

(* core/pipeline.py, lines 20-21: whatever a POST returned, new or          *)
(* replayed, is committed with its billing event and its audit row.         *)
THEOREM AnswersAreSettled == Spec => []AnsweredIsSettled
<1>1. ServiceInv => AnsweredIsSettled
  BY DEF ServiceInv, CallReady, AnsweredIsSettled
<1> QED BY <1>1, ServiceInvHolds, PTL

(* Whatever is committed has its predecessors committed, if every row that  *)
(* the connection sees has.                                                 *)
LEMMA BackedLacksNothing == ServiceInv => NothingWithoutItsDecision
<1> SUFFICES ASSUME ServiceInv, NEW row \in disk
             PROVE  /\ Row("decisions", row.decision) \in disk
                    /\ row.table \in Partners \cup {"audit_events", "idempotency"} =>
                         Row("APPLICATION_DECISION", row.decision) \in disk
                    /\ row.table = "idempotency" => Row("audit_events", row.decision) \in disk
  BY DEF NothingWithoutItsDecision
<1>1. row \in LedgerRows /\ Prepared(row.table, row.decision)
  BY DEF ServiceInv, TypeOK, Backed
<1>2. row.table = "decisions" => row = Row("decisions", row.decision)
  BY <1>1 DEF LedgerRows, Row
<1> QED BY <1>1, <1>2, ServiceAssumption DEF Prepared

(* A tenant is never charged for a decision that does not exist, and no key *)
(* or audit row outlives one.                                               *)
THEOREM NothingLacksItsDecision == Spec => []NothingWithoutItsDecision
BY BackedLacksNothing, ServiceInvHolds, PTL

-----------------------------------------------------------------------------
(* Keys and their decisions.  While nothing has failed, what the connection *)
(* sees is never taken back.                                                *)

NothingFailed == faults = 0 /\ crashes = 0

\* The steps of a call before it has written anything.
Fresh == {"new", "rejected", "lookup", "fetch", "decide"}

\* The decisions remembered under the key of call c.
KnownTo(c) == Remembered(view, arg[c].tenant, arg[c].key)

\* Decision d was remembered under the key of call c.
MadeFor(d, c) ==
  /\ arg[d].tenant = arg[c].tenant /\ arg[d].key = arg[c].key
  /\ NothingFailed => Row("idempotency", d) \in view

CallKeyed(c) ==
  /\ pc[c] \in Fresh => \A row \in view : row.decision # c
  /\ pc[c] \in {"write", "commit"} /\ arg[c].key # NoKey => todo[c][Len(todo[c])] = "idempotency"
  /\ pc[c] = "commit" /\ Head(todo[c]) = "idempotency" => KnownTo(c) # {}
  /\ pc[c] = "fetch" => MadeFor(found[c], c)
  /\ Replayed(c) => MadeFor(answer[c], c)
  /\ NothingFailed /\ Row("decisions", c) \in view /\ pc[c] \notin {"write", "commit"} =>
       Settled(disk, c) /\ (arg[c].key # NoKey => KnownTo(c) # {})

\* INSERT OR IGNORE: a key is remembered for one decision.
KeysAreUnique ==
  \A c, d \in Calls :
    /\ arg[c].tenant = arg[d].tenant /\ arg[c].key = arg[d].key
    /\ Row("idempotency", c) \in view /\ Row("idempotency", d) \in view
    => c = d

\* Two calls with a key that is not used by two at the same time.
Serial(c, d) == c # d /\ SameKey(c, d) /\ <<arg[c].tenant, arg[c].key>> \notin clashed

OneAtATime ==
  \A c, d \in Calls : Serial(c, d) =>
    /\ ~(Running(c) /\ Running(d))
    /\ NothingFailed /\ pc[d] \in {"decide", "write", "commit", "reply"} => Row("decisions", c) \notin view
    /\ NothingFailed => ~(Row("decisions", c) \in view /\ Row("decisions", d) \in view)

KeyInv == KeysAreUnique /\ OneAtATime /\ \A c \in Calls : CallKeyed(c)

(* Before the first request there are no rows and no keys.                  *)
LEMMA KeyInit == Init => KeyInv
BY DEF Init, KeyInv, KeysAreUnique, OneAtATime, CallKeyed, Running, Replayed

(* What a step may do to what others rely on: a call that has arrived keeps *)
(* its arguments, commits and clashes stay, and nothing is taken back while *)
(* nothing fails.                                                           *)
LEMMA StepFrame ==
  ASSUME ServiceInv, TypeOK', [Next]_vars
  PROVE  /\ disk \subseteq disk' /\ clashed \subseteq clashed'
         /\ NothingFailed' => NothingFailed /\ view \subseteq view'
         /\ \A d \in Calls : pc[d] # "new" => arg'[d] = arg[d]
<1> USE ServiceAssumption
<1>1. ASSUME NEW c \in Calls, NEW a \in Args, Arrive(c, a)
      PROVE  /\ UNCHANGED <<disk, view, faults, crashes>> /\ clashed \subseteq clashed'
             /\ \A d \in Calls : pc[d] # "new" => arg'[d] = arg[d]
  BY <1>1 DEF Arrive, ServiceInv, TypeOK
<1>2. ASSUME NEW c \in Calls, Reject(c) \/ Lookup(c) \/ Fetch(c) \/ Decide(c) \/ Reply(c)
      PROVE  UNCHANGED <<arg, disk, view, clashed, faults, crashes>>
  BY <1>2 DEF Reject, Lookup, Fetch, Decide, Reply
<1>3. ASSUME NEW c \in Calls, Write(c) \/ Commit(c)
      PROVE  UNCHANGED <<arg, clashed, faults, crashes>> /\ disk \subseteq disk' /\ view \subseteq view'
  BY <1>3 DEF Write, Commit, Inserted, ServiceInv, TypeOK
<1>4. ASSUME NEW c \in Calls, WriteFails(c)
      PROVE  UNCHANGED <<arg, clashed, disk>> /\ ~NothingFailed'
  BY <1>4 DEF WriteFails, NothingFailed, ServiceInv, TypeOK
<1>5. CASE Crash
  BY <1>5 DEF Crash, NothingFailed, ServiceInv, TypeOK
<1>6. CASE UNCHANGED vars
  BY <1>6 DEF vars, NothingFailed
<1> QED BY <1>1, <1>2, <1>3, <1>4, <1>5, <1>6 DEF Next, CallStep, NothingFailed

(* A key that is remembered stays remembered as long as rows stay.          *)
LEMMA KnownStays ==
  ASSUME KeyInv, NEW c \in Calls, arg'[c] = arg[c], view \subseteq view', KnownTo(c) # {},
         \A d \in Calls : pc[d] # "new" => arg'[d] = arg[d]
  PROVE  KnownTo(c)' # {}
<1>1. PICK d \in Calls : Row("idempotency", d) \in view /\ arg[d].tenant = arg[c].tenant /\ arg[d].key = arg[c].key
  BY DEF KnownTo, Remembered
<1>2. pc[d] # "new"
  BY <1>1 DEF KeyInv, CallKeyed, Fresh, Row
<1> QED BY <1>1, <1>2 DEF KnownTo, Remembered

(* A call that does not move keeps what is known of its key.                *)
LEMMA KeyedKeep ==
  ASSUME ServiceInv, KeyInv, TypeOK', [Next]_vars, NEW d \in Calls,
         pc'[d] = pc[d], todo'[d] = todo[d], found'[d] = found[d], answer'[d] = answer[d],
         arg'[d] = arg[d],
         \A row \in view' : row \in view \/ row.decision # d,
         pc[d] = "commit" => view \subseteq view'
  PROVE  CallKeyed(d)'
<1>1. /\ disk \subseteq disk'
      /\ NothingFailed' => NothingFailed /\ view \subseteq view'
      /\ \A e \in Calls : pc[e] # "new" => arg'[e] = arg[e]
  BY StepFrame
<1>2. CallKeyed(d) /\ CallReady(d)
  BY DEF KeyInv, ServiceInv
<1>3. ASSUME NEW e \in Calls, Settled(disk, e), MadeFor(e, d)
      PROVE  MadeFor(e, d)'
  <2>1. Row("decisions", e) \in view
    BY <1>3 DEF Settled, ServiceInv, TypeOK
  <2>2. pc[e] # "new"
    BY <2>1 DEF KeyInv, CallKeyed, Fresh, Row
  <2> QED BY <1>1, <1>3, <2>2 DEF MadeFor
<1>4. (pc[d] \in Fresh => \A row \in view : row.decision # d)'
  BY <1>2 DEF CallKeyed
<1>5. (pc[d] \in {"write", "commit"} /\ arg[d].key # NoKey => todo[d][Len(todo[d])] = "idempotency")'
  BY <1>2 DEF CallKeyed
<1>6. (pc[d] = "commit" /\ Head(todo[d]) = "idempotency" => KnownTo(d) # {})'
  BY <1>1, <1>2, KnownStays DEF CallKeyed
<1>7. (pc[d] = "fetch" => MadeFor(found[d], d))'
  <2> SUFFICES ASSUME pc[d] = "fetch" PROVE MadeFor(found[d], d)'
    OBVIOUS
  <2>1. found[d] \in Calls /\ Settled(disk, found[d]) /\ MadeFor(found[d], d)
    BY <1>2 DEF CallKeyed, CallReady
  <2>2. ASSUME NEW e \in Calls, e = found[d]
        PROVE  MadeFor(found[d], d)'
    <3>1. MadeFor(e, d)'
      BY <1>3, <2>1, <2>2
    <3> QED BY <2>2, <3>1 DEF MadeFor
  <2> QED BY <2>1, <2>2
<1>8. (Replayed(d) => MadeFor(answer[d], d))'
  <2> SUFFICES ASSUME pc[d] = "answered", answer[d] # d PROVE MadeFor(answer[d], d)'
    BY DEF Replayed
  <2>1. answer[d] \in Calls /\ Settled(disk, answer[d]) /\ MadeFor(answer[d], d)
    BY <1>2 DEF CallKeyed, CallReady, Replayed
  <2>2. ASSUME NEW e \in Calls, e = answer[d]
        PROVE  MadeFor(answer[d], d)'
    <3>1. MadeFor(e, d)'
      BY <1>3, <2>1, <2>2
    <3> QED BY <2>2, <3>1 DEF MadeFor
  <2> QED BY <2>1, <2>2
<1>9. ASSUME NothingFailed', Row("decisions", d) \in view', pc[d] \notin {"write", "commit"}
      PROVE  Settled(disk, d)' /\ (arg[d].key # NoKey => KnownTo(d)' # {})
  <2>1. Row("decisions", d) \in view
    BY <1>9 DEF Row
  <2>2. Settled(disk, d) /\ (arg[d].key # NoKey => KnownTo(d) # {})
    BY <1>1, <1>2, <1>9, <2>1 DEF CallKeyed
  <2>3. Settled(disk, d)'
    BY <1>1, <2>2 DEF Settled
  <2> QED BY <1>1, <1>9, <2>2, <2>3, KnownStays
<1> QED BY <1>4, <1>5, <1>6, <1>7, <1>8, <1>9 DEF CallKeyed

(* What is known of keys after a step in which only call c moved.           *)
LEMMA OneCallMoved ==
  ASSUME ServiceInv, KeyInv, TypeOK', [Next]_vars, NEW c \in Calls,
         \A d \in Calls \ {c} :
           /\ pc'[d] = pc[d] /\ todo'[d] = todo[d] /\ found'[d] = found[d]
           /\ answer'[d] = answer[d] /\ arg'[d] = arg[d]
           /\ \A row \in view' : row \in view \/ row.decision # d
           /\ pc[d] = "commit" => view \subseteq view',
         CallKeyed(c)'
  PROVE  \A d \in Calls : CallKeyed(d)'
BY KeyedKeep

(* Lookup, replay: the rows that were found belong to the call's key.       *)
LEMMA LookupIsKeyed ==
  ASSUME ServiceInv, KeyInv, TypeOK', [Next]_vars, NEW c \in Calls, Lookup(c)
  PROVE  \A d \in Calls : CallKeyed(d)'
<1>1. /\ UNCHANGED <<arg, todo, answer, lock, view, disk, faults, crashes>> /\ pc[c] = "lookup"
      /\ pc'[c] \in {"decide", "fetch"} /\ \A d \in Calls \ {c} : pc'[d] = pc[d]
  BY DEF Lookup, ServiceInv, TypeOK
<1>2. CASE KnownTo(c) = {}
  <2>1. found' = found /\ pc'[c] = "decide"
    BY <1>2 DEF Lookup, KnownTo, ServiceInv, TypeOK
  <2>2. \A row \in view' : row.decision # c
    BY <1>1 DEF KeyInv, CallKeyed, Fresh
  <2>3. CallKeyed(c)'
    BY <1>1, <2>1, <2>2 DEF CallKeyed, Replayed, Row
  <2> QED BY <1>1, <2>1, <2>3, OneCallMoved
<1>3. CASE KnownTo(c) # {}
  <2>1. PICK d \in KnownTo(c) : found' = [found EXCEPT ![c] = d]
    BY <1>3 DEF Lookup, KnownTo
  <2>2. pc'[c] = "fetch"
    BY <1>3 DEF Lookup, KnownTo, ServiceInv, TypeOK
  <2>3. found'[c] = d /\ \A e \in Calls \ {c} : found'[e] = found[e]
    BY <2>1 DEF ServiceInv, TypeOK
  <2>4. MadeFor(d, c)'
    BY <1>1 DEF KnownTo, Remembered, MadeFor
  <2>5. MadeFor(found[c], c)'
    BY <2>3, <2>4 DEF MadeFor
  <2>6. \A row \in view' : row.decision # c
    BY <1>1 DEF KeyInv, CallKeyed, Fresh
  <2>7. CallKeyed(c)'
    BY <1>1, <2>2, <2>5, <2>6 DEF CallKeyed, Replayed, Row
  <2> QED BY <1>1, <2>3, <2>7, OneCallMoved
<1> QED BY <1>2, <1>3

(* Fetch: a replay returns the decision that was found, or decides anew     *)
(* with nothing written yet.                                                *)
LEMMA FetchIsKeyed ==
  ASSUME ServiceInv, KeyInv, TypeOK', [Next]_vars, NEW c \in Calls, Fetch(c)
  PROVE  \A d \in Calls : CallKeyed(d)'
<1>1. UNCHANGED <<arg, todo, found, lock, view, disk, faults, crashes>> /\ pc[c] = "fetch"
  BY DEF Fetch
<1>2. \A row \in view' : row.decision # c
  BY <1>1 DEF KeyInv, CallKeyed, Fresh
<1>3. MadeFor(found[c], c)
  BY <1>1 DEF KeyInv, CallKeyed
<1>4. \A d \in Calls \ {c} : pc'[d] = pc[d] /\ answer'[d] = answer[d]
  BY DEF Fetch, Return, ServiceInv, TypeOK
<1>5. pc'[c] = "decide" \/ (pc'[c] = "answered" /\ answer'[c] = found[c])
  BY DEF Fetch, Return, ServiceInv, TypeOK
<1>6. CASE pc'[c] = "decide"
  <2>1. CallKeyed(c)'
    BY <1>2, <1>6 DEF CallKeyed, Replayed, Row
  <2> QED BY <1>1, <1>4, <2>1, OneCallMoved
<1>7. CASE pc'[c] = "answered" /\ answer'[c] = found[c]
  <2>1. MadeFor(answer[c], c)'
    BY <1>1, <1>3, <1>7 DEF MadeFor, NothingFailed
  <2>2. CallKeyed(c)'
    BY <1>2, <1>7, <2>1 DEF CallKeyed, Replayed, Row, Fresh
  <2> QED BY <1>1, <1>4, <2>2, OneCallMoved
<1> QED BY <1>5, <1>6, <1>7

(* Decide: the key is the last thing that is written of a keyed call.       *)
LEMMA KeyIsLast ==
  ASSUME NEW c \in Calls, NEW order \in PartnerOrders, arg[c].key # NoKey
  PROVE  WritesFor(c, order)[Len(WritesFor(c, order))] = "idempotency"
<1> DEFINE start == (<<"decisions", "APPLICATION_DECISION">> \o order) \o <<"audit_events">>
           key == <<"idempotency">>
<1>1. PICK n \in Nat : order \in [1 .. n -> Partners]
  <2>1. Cardinality(Partners) \in Nat
    BY ServiceAssumption, FS_CardinalityType
  <2> QED BY <2>1 DEF PartnerOrders
<1>2. order \in Seq(Tables)
  BY <1>1 DEF Tables
<1>3. start \in Seq(Tables) /\ key \in Seq(Tables) /\ Len(key) = 1 /\ key[1] = "idempotency"
  BY <1>2 DEF Tables
<1>4. WritesFor(c, order) = start \o key
  BY DEF WritesFor
<1> HIDE DEF start, key
<1>5. Len(start) \in Nat /\ Len(start \o key) = Len(start) + 1 /\ (start \o key)[Len(start) + 1] = key[1]
  BY <1>3, ConcatProperties, LenProperties
<1> QED BY <1>3, <1>4, <1>5

LEMMA DecideIsKeyed ==
  ASSUME ServiceInv, KeyInv, TypeOK', [Next]_vars, NEW c \in Calls, Decide(c)
  PROVE  \A d \in Calls : CallKeyed(d)'
<1>1. UNCHANGED <<arg, answer, found, lock, view, disk, faults, crashes>> /\ pc[c] = "decide"
  BY DEF Decide
<1>2. PICK order \in PartnerOrders : todo' = [todo EXCEPT ![c] = WritesFor(c, order)]
  BY DEF Decide
<1>3. pc'[c] = "write" /\ todo'[c] = WritesFor(c, order)
  BY <1>2 DEF Decide, ServiceInv, TypeOK
<1>4. \A d \in Calls \ {c} : pc'[d] = pc[d] /\ todo'[d] = todo[d]
  BY <1>2 DEF Decide, ServiceInv, TypeOK
<1>5. arg[c].key # NoKey => todo'[c][Len(todo'[c])] = "idempotency"
  BY <1>3, KeyIsLast
<1>6. CallKeyed(c)'
  BY <1>1, <1>3, <1>5 DEF CallKeyed, Replayed, Fresh
<1> QED BY <1>1, <1>4, <1>6, OneCallMoved

(* Write: an idempotency row is there after the write, the call's own or an *)
(* older one.                                                               *)
LEMMA WriteIsKeyed ==
  ASSUME ServiceInv, KeyInv, TypeOK', [Next]_vars, NEW c \in Calls, Write(c)
  PROVE  \A d \in Calls : CallKeyed(d)'
<1>1. /\ UNCHANGED <<arg, todo, answer, found, disk, faults, crashes>> /\ pc[c] = "write" /\ pc'[c] = "commit"
      /\ \A d \in Calls \ {c} : pc'[d] = pc[d]
  BY DEF Write, ServiceInv, TypeOK
<1>2. view' = Inserted(view, c) /\ view \subseteq view'
      /\ view' \subseteq view \cup {Row(Head(todo[c]), c)}
  BY InsertedRows DEF Write
<1>3. \A d \in Calls \ {c} : \A row \in view' : row \in view \/ row.decision # d
  BY <1>2 DEF Row
<1>4. Head(todo[c]) = "idempotency" => KnownTo(c)' # {}
  BY <1>1, <1>2 DEF Inserted, KnownTo, Remembered
<1>5. CallKeyed(c)'
  BY <1>1, <1>4 DEF CallKeyed, Replayed, Fresh, KeyInv
<1> QED BY <1>1, <1>2, <1>3, <1>5, OneCallMoved

(* Commit: when the last write is committed the decision is settled and its *)
(* key is known.                                                            *)
LEMMA CommitIsKeyed ==
  ASSUME ServiceInv, KeyInv, TypeOK', ServiceInv', [Next]_vars, NEW c \in Calls, Commit(c)
  PROVE  \A d \in Calls : CallKeyed(d)'
<1>1. UNCHANGED <<arg, answer, found, view, faults, crashes>> /\ pc[c] = "commit"
  BY DEF Commit
<1>2. /\ todo'[c] = Tail(todo[c]) /\ pc'[c] = IF Len(todo[c]) = 1 THEN "reply" ELSE "write"
      /\ \A d \in Calls \ {c} : pc'[d] = pc[d] /\ todo'[d] = todo[d]
  BY DEF Commit, ServiceInv, TypeOK
<1>3. InOrder(todo[c]) /\ (arg[c].key # NoKey => todo[c][Len(todo[c])] = "idempotency")
  BY <1>1 DEF ServiceInv, CallReady, KeyInv, CallKeyed
<1>4. CASE Len(todo[c]) = 1
  <2>1. pc'[c] = "reply" /\ Settled(disk, c)'
    BY <1>2, <1>4 DEF ServiceInv, CallReady
  <2>2. arg[c].key # NoKey => Head(todo[c]) = "idempotency"
    BY <1>3, <1>4, TailStaysInOrder
  <2>3. arg[c].key # NoKey => KnownTo(c) # {}
    BY <1>1, <2>2 DEF KeyInv, CallKeyed
  <2>4. KnownTo(c)' = KnownTo(c)
    BY <1>1 DEF KnownTo, Remembered
  <2>5. CallKeyed(c)'
    BY <1>1, <2>1, <2>3, <2>4 DEF CallKeyed, Replayed, Fresh
  <2> QED BY <1>1, <1>2, <2>5, OneCallMoved
<1>5. CASE Len(todo[c]) # 1
  <2>1. pc'[c] = "write"
    BY <1>2, <1>5
  <2>3. todo'[c][Len(todo'[c])] = todo[c][Len(todo[c])]
    BY <1>2, <1>3, <1>5, TailStaysInOrder
  <2>4. CallKeyed(c)'
    BY <1>1, <1>3, <2>1, <2>3 DEF CallKeyed, Replayed, Fresh
  <2> QED BY <1>1, <1>2, <2>4, OneCallMoved
<1> QED BY <1>4, <1>5

(* Every other step leaves a call with what was known of its key, or        *)
(* without any claim to it.                                                 *)
LEMMA KeyedStep ==
  ASSUME ServiceInv, KeyInv, TypeOK', ServiceInv', [Next]_vars
  PROVE  \A d \in Calls : CallKeyed(d)'
<1>1. ASSUME NEW c \in Calls, NEW a \in Args, Arrive(c, a)
      PROVE  \A d \in Calls : CallKeyed(d)'
  <2>1. /\ UNCHANGED <<todo, answer, found, lock, view, disk, faults, crashes>> /\ pc[c] = "new"
        /\ pc'[c] \in {"decide", "lookup"}
        /\ \A d \in Calls \ {c} : pc'[d] = pc[d] /\ arg'[d] = arg[d]
    BY <1>1 DEF Arrive, ServiceInv, TypeOK
  <2>2. \A row \in view' : row.decision # c
    BY <2>1 DEF KeyInv, CallKeyed, Fresh
  <2>3. CallKeyed(c)'
    BY <2>1, <2>2 DEF CallKeyed, Replayed, Row
  <2> QED BY <2>1, <2>3, OneCallMoved
<1>2. ASSUME NEW c \in Calls, Reject(c)
      PROVE  \A d \in Calls : CallKeyed(d)'
  <2>1. /\ UNCHANGED <<arg, todo, answer, found, lock, view, disk, faults, crashes>> /\ pc[c] = "new"
        /\ pc'[c] = "rejected" /\ \A d \in Calls \ {c} : pc'[d] = pc[d]
    BY <1>2 DEF Reject, ServiceInv, TypeOK
  <2>2. \A row \in view' : row.decision # c
    BY <2>1 DEF KeyInv, CallKeyed, Fresh
  <2>3. CallKeyed(c)'
    BY <2>1, <2>2 DEF CallKeyed, Replayed, Row
  <2> QED BY <2>1, <2>3, OneCallMoved
<1>3. ASSUME NEW c \in Calls, Reply(c)
      PROVE  \A d \in Calls : CallKeyed(d)'
  <2>1. /\ UNCHANGED <<arg, todo, found, lock, view, disk, faults, crashes>> /\ pc[c] = "reply"
        /\ pc'[c] = "answered" /\ answer'[c] = c
        /\ \A d \in Calls \ {c} : pc'[d] = pc[d] /\ answer'[d] = answer[d]
    BY <1>3 DEF Reply, Return, ServiceInv, TypeOK
  <2>2. KnownTo(c)' = KnownTo(c) /\ Settled(disk, c)' = Settled(disk, c) /\ NothingFailed' = NothingFailed
    BY <2>1 DEF KnownTo, Remembered, Settled, NothingFailed
  <2>3. CallKeyed(c)'
    BY <2>1, <2>2 DEF CallKeyed, Replayed, Fresh, KeyInv
  <2> QED BY <2>1, <2>3, OneCallMoved
<1>4. ASSUME NEW c \in Calls, WriteFails(c)
      PROVE  \A d \in Calls : CallKeyed(d)'
  <2>1. /\ UNCHANGED <<arg, answer, found, disk, crashes>> /\ pc'[c] = "error" /\ view' \subseteq view
        /\ ~NothingFailed'
        /\ \A d \in Calls \ {c} : pc'[d] = pc[d] /\ todo'[d] = todo[d]
    BY <1>4 DEF WriteFails, ServiceInv, TypeOK, NothingFailed
  <2>2. \A d \in Calls \ {c} : pc[d] # "commit"
    BY <1>4, ServiceAssumption DEF WriteFails, ServiceInv, CallReady
  <2>3. CallKeyed(c)'
    BY <2>1 DEF CallKeyed, Replayed, Fresh
  <2> QED BY <2>1, <2>2, <2>3, OneCallMoved
<1>5. CASE Crash
  <2> SUFFICES ASSUME NEW c \in Calls PROVE CallKeyed(c)'
    OBVIOUS
  <2>1. /\ UNCHANGED <<arg, answer, found, disk>> /\ view' \subseteq view /\ ~NothingFailed'
        /\ pc'[c] = "lost" \/ (pc'[c] = pc[c] /\ pc[c] \in Ended \cup {"new"})
    BY <1>5 DEF Crash, ServiceInv, TypeOK, NothingFailed, Running
  <2>2. CallKeyed(c)
    BY DEF KeyInv
  <2> QED BY <2>1, <2>2 DEF CallKeyed, Replayed, Fresh, MadeFor, Ended
<1>6. CASE UNCHANGED vars
  <2> SUFFICES ASSUME NEW c \in Calls PROVE CallKeyed(c)'
    OBVIOUS
  <2> QED BY <1>6, KeyedKeep DEF vars
<1> QED
  BY <1>1, <1>2, <1>3, <1>4, <1>5, <1>6, LookupIsKeyed, FetchIsKeyed, DecideIsKeyed, WriteIsKeyed, CommitIsKeyed
     DEF Next, CallStep

-----------------------------------------------------------------------------
(* INSERT OR IGNORE: only a key that nobody has is remembered.              *)
LEMMA KeysStayUnique ==
  ASSUME ServiceInv, KeyInv, TypeOK', [Next]_vars
  PROVE  KeysAreUnique'
<1>1. \A d \in Calls : pc[d] # "new" => arg'[d] = arg[d]
  BY StepFrame
<1>2. \A d \in Calls, table \in Tables : Row(table, d) \in view => arg'[d] = arg[d]
  BY <1>1 DEF KeyInv, CallKeyed, Fresh, Row
<1>3. CASE view' \subseteq view
  BY <1>2, <1>3 DEF KeyInv, KeysAreUnique, Tables
<1>4. ASSUME NEW c \in Calls, Write(c)
      PROVE  KeysAreUnique'
  <2>1. arg' = arg /\ view' = Inserted(view, c)
    BY <1>4 DEF Write
  <2>2. CASE view' = view
    BY <1>3, <2>2
  <2>3. CASE view' # view /\ Head(todo[c]) = "idempotency"
    <3>1. KnownTo(c) = {} /\ view' = view \cup {Row("idempotency", c)}
      BY <2>1, <2>3 DEF Inserted, KnownTo
    <3> QED BY <2>1, <3>1 DEF KeyInv, KeysAreUnique, KnownTo, Remembered, Row
  <2>4. CASE Head(todo[c]) # "idempotency"
    BY <2>1, <2>4 DEF Inserted, KeyInv, KeysAreUnique, Row
  <2> QED BY <2>2, <2>3, <2>4
<1>5. (\E c \in Calls : Write(c)) \/ view' \subseteq view
  BY DEF Next, CallStep, vars, Arrive, Reject, Lookup, Fetch, Decide, Commit, Reply, WriteFails, Crash,
         ServiceInv, TypeOK
<1> QED BY <1>3, <1>4, <1>5

(* A call that arrives while another has its key under way clashes with it; *)
(* one that arrives after it, and after nothing has failed, finds the key.  *)
LEMMA OneStaysAtATime ==
  ASSUME ServiceInv, KeyInv, TypeOK', [Next]_vars
  PROVE  OneAtATime'
<1> SUFFICES ASSUME NEW c \in Calls, NEW d \in Calls, Serial(c, d)'
             PROVE  /\ ~(Running(c) /\ Running(d))'
                    /\ NothingFailed' /\ pc'[d] \in {"decide", "write", "commit", "reply"} =>
                         Row("decisions", c) \notin view'
                    /\ NothingFailed' => ~(Row("decisions", c) \in view' /\ Row("decisions", d) \in view')
  BY DEF OneAtATime
<1>0. /\ clashed \subseteq clashed'
      /\ NothingFailed' => NothingFailed /\ view \subseteq view'
  BY StepFrame
<1>1. ASSUME UNCHANGED arg
      PROVE  /\ Serial(c, d) /\ Serial(d, c)
             /\ ~(Running(c) /\ Running(d))
             /\ NothingFailed /\ pc[d] \in {"decide", "write", "commit", "reply"} => Row("decisions", c) \notin view
             /\ NothingFailed /\ pc[c] \in {"decide", "write", "commit", "reply"} => Row("decisions", d) \notin view
             /\ NothingFailed => ~(Row("decisions", c) \in view /\ Row("decisions", d) \in view)
  <2>0. c # d /\ SameKey(c, d) /\ SameKey(d, c) /\ <<arg[c].tenant, arg[c].key>> \notin clashed'
    BY <1>1 DEF Serial, SameKey
  <2>2. <<arg[c].tenant, arg[c].key>> = <<arg[d].tenant, arg[d].key>>
    BY <2>0 DEF SameKey
  <2>3. <<arg[c].tenant, arg[c].key>> \notin clashed /\ <<arg[d].tenant, arg[d].key>> \notin clashed
    BY <1>0, <2>0, <2>2
  <2>1. Serial(c, d) /\ Serial(d, c)
    BY <2>0, <2>3 DEF Serial
  <2> QED BY <2>1 DEF KeyInv, OneAtATime
<1>2. ASSUME NEW e \in Calls, NEW a \in Args, Arrive(e, a)
      PROVE  /\ ~(Running(c) /\ Running(d))'
             /\ NothingFailed' /\ pc'[d] \in {"decide", "write", "commit", "reply"} =>
                  Row("decisions", c) \notin view'
             /\ NothingFailed' => ~(Row("decisions", c) \in view' /\ Row("decisions", d) \in view')
  <2>1. /\ pc[e] = "new" /\ pc'[e] = IF a.key = NoKey THEN "decide" ELSE "lookup"
        /\ arg'[e] = a /\ view' = view /\ NothingFailed' = NothingFailed
        /\ \A x \in Calls \ {e} : pc'[x] = pc[x] /\ arg'[x] = arg[x]
        /\ clashed' = clashed \cup (IF Rivals(a) = {} THEN {} ELSE {<<a.tenant, a.key>>})
    BY <1>2 DEF Arrive, ServiceInv, TypeOK, NothingFailed
  <2>2. \A row \in view : row.decision # e
    BY <2>1 DEF KeyInv, CallKeyed, Fresh
  <2>3. c # d /\ SameKey(c, d)' /\ <<arg'[c].tenant, arg'[c].key>> \notin clashed'
    BY DEF Serial
  <2>4. CASE c = e
    <3>1. ~Running(d)
      <4>1. Running(d) => d \in Rivals(a)
        BY <2>1, <2>3, <2>4 DEF Rivals, SameKey
      <4> QED BY <2>1, <2>3, <2>4, <4>1
    <3>2. pc'[d] = pc[d] /\ Row("decisions", c) \notin view'
      BY <2>1, <2>2, <2>3, <2>4 DEF Row
    <3> QED BY <3>1, <3>2 DEF Running
  <2>5. CASE d = e
    <3>1. ~Running(c)
      <4>1. Running(c) => c \in Rivals(a)
        BY <2>1, <2>3, <2>5 DEF Rivals, SameKey
      <4> QED BY <2>1, <2>3, <2>5, <4>1 DEF SameKey
    <3>2. pc'[c] = pc[c] /\ Row("decisions", d) \notin view' /\ pc'[d] = "lookup"
      BY <2>1, <2>2, <2>3, <2>5 DEF Row, SameKey
    <3> QED BY <3>1, <3>2 DEF Running
  <2>6. CASE c # e /\ d # e
    <3>1. /\ arg'[c] = arg[c] /\ arg'[d] = arg[d] /\ pc'[c] = pc[c] /\ pc'[d] = pc[d]
      BY <2>1, <2>6
    <3>2. SameKey(c, d) /\ <<arg[c].tenant, arg[c].key>> \notin clashed
      BY <1>0, <2>3, <3>1 DEF SameKey
    <3>3. Serial(c, d)
      BY <2>3, <3>2 DEF Serial
    <3> QED BY <2>1, <3>1, <3>3 DEF KeyInv, OneAtATime, Running
  <2> QED BY <2>4, <2>5, <2>6
<1>3. ASSUME NEW e \in Calls, Lookup(e)
      PROVE  /\ ~(Running(c) /\ Running(d))'
             /\ NothingFailed' /\ pc'[d] \in {"decide", "write", "commit", "reply"} =>
                  Row("decisions", c) \notin view'
             /\ NothingFailed' => ~(Row("decisions", c) \in view' /\ Row("decisions", d) \in view')
  <2>1. /\ UNCHANGED <<arg, view>> /\ NothingFailed' = NothingFailed /\ pc[e] = "lookup"
        /\ pc'[e] = (IF KnownTo(e) = {} THEN "decide" ELSE "fetch")
        /\ \A x \in Calls \ {e} : pc'[x] = pc[x]
    BY <1>3 DEF Lookup, ServiceInv, TypeOK, NothingFailed, KnownTo
  <2>2. /\ ~(Running(c) /\ Running(d))
        /\ NothingFailed /\ pc[d] \in {"decide", "write", "commit", "reply"} => Row("decisions", c) \notin view
        /\ NothingFailed => ~(Row("decisions", c) \in view /\ Row("decisions", d) \in view)
    BY <1>1, <2>1
  <2>3. Running(c)' = Running(c) /\ Running(d)' = Running(d)
    BY <2>1 DEF Running, Ended
  <2>4. ASSUME d = e, NothingFailed, pc'[d] = "decide"
        PROVE  Row("decisions", c) \notin view
    <3>1. KnownTo(d) = {} /\ Running(d)
      BY <2>1, <2>4 DEF Running, Ended
    <3>2. KnownTo(c) = KnownTo(d) /\ arg[c].key # NoKey
      BY <1>1, <2>1 DEF Serial, SameKey, KnownTo
    <3>3. pc[c] \notin {"write", "commit"}
      BY <2>2, <3>1 DEF Running, Ended
    <3> QED BY <2>4, <3>1, <3>2, <3>3 DEF KeyInv, CallKeyed
  <2>5. pc'[d] \in {"decide", "write", "commit", "reply"} =>
          pc[d] \in {"decide", "write", "commit", "reply"} \/ (d = e /\ pc'[d] = "decide")
    BY <2>1
  <2> QED BY <2>1, <2>2, <2>3, <2>4, <2>5
<1>4. ASSUME NEW e \in Calls, Fetch(e)
      PROVE  /\ ~(Running(c) /\ Running(d))'
             /\ NothingFailed' /\ pc'[d] \in {"decide", "write", "commit", "reply"} =>
                  Row("decisions", c) \notin view'
             /\ NothingFailed' => ~(Row("decisions", c) \in view' /\ Row("decisions", d) \in view')
  <2>1. /\ UNCHANGED <<arg, view>> /\ NothingFailed' = NothingFailed /\ pc[e] = "fetch"
        /\ pc'[e] \in {"answered", "decide"}
        /\ \A x \in Calls \ {e} : pc'[x] = pc[x]
    BY <1>4 DEF Fetch, Return, ServiceInv, TypeOK, NothingFailed
  <2>2. pc'[e] = "answered"
    <3>1. Settled(disk, found[e]) /\ found[e] \in Calls /\ MadeFor(found[e], e)
      BY <2>1 DEF ServiceInv, CallReady, KeyInv, CallKeyed
    <3>2. found[e] \in DecisionsOf(view, arg[e].tenant)
      BY <3>1 DEF Settled, DecisionsOf, MadeFor, ServiceInv, TypeOK
    <3> QED BY <1>4, <3>2 DEF Fetch, Return, ServiceInv, TypeOK
  <2>3. /\ ~(Running(c) /\ Running(d))
        /\ NothingFailed /\ pc[d] \in {"decide", "write", "commit", "reply"} => Row("decisions", c) \notin view
        /\ NothingFailed => ~(Row("decisions", c) \in view /\ Row("decisions", d) \in view)
    BY <1>1, <2>1
  <2>4. (Running(c)' => Running(c)) /\ (Running(d)' => Running(d))
    BY <2>1, <2>2 DEF Running, Ended
  <2>5. pc'[d] \in {"decide", "write", "commit", "reply"} => pc'[d] = pc[d]
    BY <2>1, <2>2
  <2> QED BY <2>1, <2>3, <2>4, <2>5
<1>5. ASSUME NEW e \in Calls, Write(e)
      PROVE  /\ ~(Running(c) /\ Running(d))'
             /\ NothingFailed' /\ pc'[d] \in {"decide", "write", "commit", "reply"} =>
                  Row("decisions", c) \notin view'
             /\ NothingFailed' => ~(Row("decisions", c) \in view' /\ Row("decisions", d) \in view')
  <2>1. /\ UNCHANGED arg /\ NothingFailed' = NothingFailed /\ pc[e] = "write" /\ pc'[e] = "commit"
        /\ \A x \in Calls \ {e} : pc'[x] = pc[x]
    BY <1>5 DEF Write, ServiceInv, TypeOK, NothingFailed
  <2>2. /\ ~(Running(c) /\ Running(d))
        /\ NothingFailed /\ pc[d] \in {"decide", "write", "commit", "reply"} => Row("decisions", c) \notin view
        /\ NothingFailed /\ pc[c] \in {"decide", "write", "commit", "reply"} => Row("decisions", d) \notin view
        /\ NothingFailed => ~(Row("decisions", c) \in view /\ Row("decisions", d) \in view)
    BY <1>1, <2>1
  <2>3. Running(c)' = Running(c) /\ Running(d)' = Running(d)
    BY <2>1 DEF Running, Ended
  <2>4. \A x \in Calls : Row("decisions", x) \in view' => Row("decisions", x) \in view \/ x = e
    BY <1>5, InsertedRows DEF Write, Row
  <2>5. pc'[d] \in {"decide", "write", "commit", "reply"} => pc[d] \in {"decide", "write", "commit", "reply"}
    BY <2>1
  <2>6. c = e => Running(c)
    BY <2>1 DEF Running, Ended
  <2>7. pc[d] \in {"decide", "write", "commit", "reply"} => Running(d)
    BY DEF Running, Ended
  <2> QED BY <2>1, <2>2, <2>3, <2>4, <2>5, <2>6, <2>7
<1>6. ASSUME NEW e \in Calls, Reject(e) \/ Decide(e) \/ Commit(e) \/ Reply(e)
      PROVE  /\ ~(Running(c) /\ Running(d))'
             /\ NothingFailed' /\ pc'[d] \in {"decide", "write", "commit", "reply"} =>
                  Row("decisions", c) \notin view'
             /\ NothingFailed' => ~(Row("decisions", c) \in view' /\ Row("decisions", d) \in view')
  <2>1. /\ UNCHANGED <<arg, view>> /\ NothingFailed' = NothingFailed
    BY <1>6 DEF Reject, Decide, Commit, Reply, NothingFailed
  <2>2. \A x \in Calls :
          \/ pc'[x] = pc[x]
          \/ pc[x] = "new" /\ pc'[x] = "rejected"
          \/ pc[x] \in {"decide", "write", "commit", "reply"} /\ pc'[x] \in {"write", "reply", "answered"}
    BY <1>6 DEF Reject, Decide, Commit, Reply, Return, ServiceInv, TypeOK
  <2>3. (Running(c)' => Running(c)) /\ (Running(d)' => Running(d))
    BY <2>2 DEF Running, Ended
  <2>4. pc'[d] \in {"decide", "write", "commit", "reply"} => pc[d] \in {"decide", "write", "commit", "reply"}
    BY <2>2
  <2> QED BY <1>1, <2>1, <2>3, <2>4
<1>7. ASSUME NEW e \in Calls, WriteFails(e)
      PROVE  ~NothingFailed' /\ ~(Running(c) /\ Running(d))'
  <2>1. UNCHANGED arg /\ ~NothingFailed' /\ \A x \in Calls : pc'[x] = pc[x] \/ pc'[x] = "error"
    BY <1>7 DEF WriteFails, ServiceInv, TypeOK, NothingFailed
  <2> QED BY <1>1, <2>1 DEF Running, Ended
<1>8. CASE Crash
  <2>1. UNCHANGED arg /\ ~NothingFailed' /\ \A x \in Calls : pc'[x] = pc[x] \/ pc'[x] = "lost"
    BY <1>8 DEF Crash, ServiceInv, TypeOK, NothingFailed
  <2> QED BY <1>1, <2>1 DEF Running, Ended
<1>9. CASE UNCHANGED vars
  BY <1>1, <1>9 DEF vars, Running, NothingFailed
<1> QED BY <1>2, <1>3, <1>4, <1>5, <1>6, <1>7, <1>8, <1>9 DEF Next, CallStep

(* What is known of keys holds in all behaviours of the service.            *)
LEMMA KeyInvHolds == Spec => []KeyInv
<1>1. ServiceInv /\ KeyInv /\ [Next]_vars => KeyInv'
  <2> SUFFICES ASSUME ServiceInv, KeyInv, [Next]_vars PROVE KeyInv'
    OBVIOUS
  <2>1. TypeOK' /\ ServiceInv'
    BY ServiceTypes, ServiceStepKeeps
  <2> QED BY <2>1, KeyedStep, KeysStayUnique, OneStaysAtATime DEF KeyInv
<1> QED BY <1>1, KeyInit, ServiceInvHolds, PTL DEF Spec

-----------------------------------------------------------------------------
(* Replays return a decision that was made for their tenant and key, and    *)
(* agree with each other as long as nothing fails.                          *)
THEOREM ReplaysStayInAgreement == Spec => []ReplaysAgree
<1>1. ServiceInv /\ KeyInv => ReplaysAgree
  <2> SUFFICES ASSUME ServiceInv, KeyInv, NEW c \in Calls, Replayed(c)
               PROVE  /\ arg[answer[c]].tenant = arg[c].tenant /\ arg[answer[c]].key = arg[c].key
                      /\ faults = 0 /\ crashes = 0 => \A d \in Calls :
                           Replayed(d) /\ arg[d].tenant = arg[c].tenant /\ arg[d].key = arg[c].key
                             => answer[d] = answer[c]
    BY DEF ReplaysAgree
  <2>1. \A d \in Calls : Replayed(d) => answer[d] \in Calls /\ MadeFor(answer[d], d)
    BY DEF KeyInv, CallKeyed, ServiceInv, CallReady, Replayed
  <2> QED BY <2>1 DEF MadeFor, NothingFailed, KeyInv, KeysAreUnique
<1> QED BY <1>1, ServiceInvHolds, KeyInvHolds, PTL

(* A client that waits for the answer before it repeats a key gets no       *)
(* second decision, as long as nothing fails.                               *)
THEOREM SerialKeysDecideOnce == Spec => []OncePerSerialKey
<1>1. ServiceInv /\ KeyInv => OncePerSerialKey
  BY DEF OncePerSerialKey, ServiceInv, TypeOK, KeyInv, OneAtATime, Serial, NothingFailed
<1> QED BY <1>1, ServiceInvHolds, KeyInvHolds, PTL

(* core/pipeline.py, lines 20-21: when nothing is running and nothing has   *)
(* failed, every decision on disk is billed and audited.                    *)
THEOREM AllWorkIsBilledAndAudited == Spec => []WorkIsBilledAndAudited
<1>1. ServiceInv /\ KeyInv => WorkIsBilledAndAudited
  BY DEF WorkIsBilledAndAudited, ServiceInv, TypeOK, KeyInv, CallKeyed, NothingFailed, Running, Ended
<1> QED BY <1>1, ServiceInvHolds, KeyInvHolds, PTL

=============================================================================
