----------------------------- MODULE BatchProofs -----------------------------
(***************************************************************************)
(* Batch for any file, any number of API requests beside it, failing       *)
(* writes and crashes.  The argument: the rows still to do, those that     *)
(* were processed and those that were rejected are the rows of the file,   *)
(* each once; a row that was not begun, or that raised, has written        *)
(* nothing; and the batch's own three rows rest on each other in the order *)
(* in which they are committed, whoever commits them.                      *)
(***************************************************************************)
EXTENDS Batch, DecisionServiceProofs

-----------------------------------------------------------------------------
(* The decisions of a batch are decisions like any other: what holds of     *)
(* their ledger rows is kept by every step of the batch as well.            *)

LEMMA RecordKeepsService ==
  ASSUME ServiceInv, NEW entry \in BatchLedger, Record(entry)
  PROVE  ServiceInv'
<1>1. /\ UNCHANGED <<arg, pc, todo, answer, found, lock, view, clashed, faults, crashes>>
      /\ disk' = view /\ disk \subseteq disk'
  BY DEF Record, ServiceInv, TypeOK
<1>2. TypeOK'
  BY <1>1 DEF ServiceInv, TypeOK, Ended
<1>3. \A c \in Calls : CallReady(c)'
  BY <1>1, CallsKeep DEF ServiceInv
<1>4. Backed'
  BY <1>1, RowsKeep DEF ServiceInv
<1> QED BY <1>2, <1>3, <1>4 DEF ServiceInv

LEMMA RecordFailsKeepsService ==
  ASSUME ServiceInv, NEW entry \in BatchLedger, RecordFails(entry)
  PROVE  ServiceInv'
<1>1. /\ UNCHANGED <<arg, pc, todo, answer, found, lock, disk, clashed, crashes>>
      /\ faults < MaxFaults /\ faults' = faults + 1
      /\ lock = NoCall /\ disk \subseteq view' /\ view' \subseteq view
  BY DEF RecordFails, ServiceInv, TypeOK
<1>2. TypeOK'
  BY <1>1, ServiceAssumption DEF ServiceInv, TypeOK, Ended
<1>3. ASSUME NEW c \in Calls PROVE CallReady(c)'
  <2>1. CallReady(c) /\ pc[c] # "commit"
    BY <1>1, ServiceAssumption DEF ServiceInv, CallReady
  <2> QED BY <1>1, <2>1, CallsKeep
<1>4. Backed'
  BY <1>1, RowsKeep DEF ServiceInv
<1> QED BY <1>2, <1>3, <1>4 DEF ServiceInv

LEMMA BeginRowKeepsService ==
  ASSUME ServiceInv, batch.todo \in Seq(Calls), BeginRow
  PROVE  ServiceInv'
<1> DEFINE c == Head(batch.todo)
<1>1. batch.todo # << >> /\ c \in Calls
  BY HeadTailProperties DEF BeginRow
<1>2. UNCHANGED <<todo, answer, found, lock, view, disk, clashed, faults, crashes>>
  BY DEF BeginRow
<1>3. CASE c \in batch.invalid
  <2>1. UNCHANGED vars
    BY <1>2, <1>3 DEF BeginRow, vars
  <2> QED BY <2>1, ServiceStepKeeps
<1>4. ASSUME NEW d \in Calls, d = c, d \notin batch.invalid PROVE ServiceInv'
  <2>1. PICK a \in Args : arg' = [arg EXCEPT ![d] = a]
    BY <1>4 DEF BeginRow
  <2>2. pc' = [pc EXCEPT ![d] = "decide"]
    BY <1>4 DEF BeginRow
  <2>3. TypeOK'
    BY <1>2, <2>1, <2>2 DEF ServiceInv, TypeOK, Ended
  <2>4. pc'[d] = "decide" /\ \A e \in Calls \ {d} : pc'[e] = pc[e]
    BY <2>2 DEF ServiceInv, TypeOK
  <2>5. CallReady(d)'
    BY <2>4 DEF CallReady
  <2> QED BY <1>2, <2>3, <2>4, <2>5, QuietCall
<1> QED BY <1>1, <1>3, <1>4

LEMMA RowRaisesKeepsService ==
  ASSUME ServiceInv, batch.todo \in Seq(Calls), batch.todo # << >>, RowRaises
  PROVE  ServiceInv'
<1>1. Head(batch.todo) \in Calls
  BY HeadTailProperties
<1>2. UNCHANGED <<arg, todo, answer, found, lock, view, disk, clashed, faults, crashes>>
  BY DEF RowRaises
<1>3. ASSUME NEW d \in Calls, d = Head(batch.todo) PROVE ServiceInv'
  <2>1. pc' = [pc EXCEPT ![d] = "error"]
    BY <1>3 DEF RowRaises
  <2>2. TypeOK'
    BY <1>2, <2>1 DEF ServiceInv, TypeOK, Ended
  <2>3. pc'[d] = "error" /\ \A e \in Calls \ {d} : pc'[e] = pc[e]
    BY <2>1 DEF ServiceInv, TypeOK
  <2>4. CallReady(d)'
    BY <2>3 DEF CallReady
  <2> QED BY <1>2, <2>2, <2>3, <2>4, QuietCall
<1> QED BY <1>1, <1>3

-----------------------------------------------------------------------------
(* What holds of the batch itself.                                          *)

Begun == {"BATCH_RECEIVED", "rows", "deciding"}
BatchSteps == {"idle", "BATCH_COMPLETED", "BATCH_SCORE"} \cup Begun \cup BatchEnded

BatchTyped ==
  /\ batch \in [step : BatchSteps, todo : Seq(FileRows), invalid : SUBSET FileRows,
                processed : SUBSET FileRows, rejected : SUBSET FileRows, submitted : Nat]
  /\ IsFiniteSet(batch.processed) /\ IsFiniteSet(batch.rejected)

\* The batch's three rows are committed one after the other.
TrailInOrder ==
  /\ bdisk \subseteq bview
  /\ "BATCH_SCORE" \in bview => "BATCH_COMPLETED" \in bdisk
  /\ "BATCH_COMPLETED" \in bview => "BATCH_RECEIVED" \in bdisk /\ batch.todo = << >>
  /\ batch.step = "idle" => bview = {}
  /\ batch.step \in {"rows", "deciding", "BATCH_COMPLETED"} => "BATCH_RECEIVED" \in bdisk
  /\ batch.step \in Begun => "BATCH_COMPLETED" \notin bview
  /\ batch.step = "BATCH_COMPLETED" => batch.todo = << >>
  /\ batch.step = "BATCH_SCORE" => "BATCH_COMPLETED" \in bdisk

\* Every row that was submitted is still to do, processed or rejected, once.
EachOnce ==
  /\ Cardinality(batch.processed) + Cardinality(batch.rejected) + Len(batch.todo) = batch.submitted
  /\ \A i, j \in 1 .. Len(batch.todo) : batch.todo[i] = batch.todo[j] => i = j
  /\ \A i \in 1 .. Len(batch.todo) : batch.todo[i] \notin batch.processed \cup batch.rejected
  /\ batch.step = "idle" => batch.processed = {} /\ batch.rejected = {}
  /\ batch.step = "deciding" => batch.todo # << >>

\* The rows that were not begun, except the one under way.
NotBegun ==
  /\ batch.step = "idle" => \A c \in FileRows : pc[c] = "new"
  /\ batch.step \in Begun => \A i \in 1 .. Len(batch.todo) :
       (batch.step = "deciding" /\ i = 1) \/ pc[batch.todo[i]] = "new"

\* A row has no key and nothing to replay; one that did not get as far as
\* its first write has left nothing, as long as no write failed.
RowCall(c) ==
  /\ pc[c] \notin {"lookup", "fetch"}
  /\ pc[c] = "answered" => answer[c] = c
  /\ faults = 0 /\ pc[c] \in {"new", "decide", "error"} => \A row \in view : row.decision # c
  /\ c \in batch.processed => Settled(disk, c)
  /\ c \in batch.rejected => pc[c] = "new" \/ pc[c] = "error"

BatchInv == BatchTyped /\ TrailInOrder /\ EachOnce /\ NotBegun /\ \A c \in FileRows : RowCall(c)

(* The rows of a file are calls.                                            *)
LEMMA RowsAreCalls == FileRows \subseteq Calls
BY FileAssumption DEF FileRows

(* Before the batch is received nothing is to do and nothing recorded.      *)
LEMMA BatchInvInit == BatchInit => BatchInv
<1> SUFFICES ASSUME BatchInit PROVE BatchInv
  OBVIOUS
<1>1. /\ batch = [step |-> "idle", todo |-> << >>, invalid |-> {}, processed |-> {},
                 rejected |-> {}, submitted |-> 0]
      /\ bview = {} /\ bdisk = {}
  BY DEF BatchInit
<1>2. BatchTyped
  BY <1>1, FS_EmptySet DEF BatchTyped, BatchSteps
<1>3. EachOnce
  <2>1. Cardinality({}) = 0
    BY FS_EmptySet
  <2> QED BY <1>1, <2>1 DEF EachOnce
<1>4. TrailInOrder
  BY <1>1 DEF TrailInOrder, Begun
<1>5. NotBegun /\ \A c \in FileRows : RowCall(c)
  BY <1>1, RowsAreCalls DEF NotBegun, RowCall, BatchInit, Init, Begun
<1> QED BY <1>2, <1>3, <1>4, <1>5 DEF BatchInv

(* A row that does not move keeps what is known of it.                      *)
LEMMA RowCallKeeps ==
  ASSUME NEW c \in Calls, RowCall(c), disk \subseteq disk',
         pc'[c] = pc[c], answer'[c] = answer[c],
         faults' = 0 => faults = 0 /\ \A row \in view' : row \in view \/ row.decision # c,
         batch'.processed = batch.processed, batch'.rejected = batch.rejected
  PROVE  RowCall(c)'
BY DEF RowCall, Settled

-----------------------------------------------------------------------------
(* Steps that leave the batch where it is.                                  *)

(* A step of a decision: what it writes or loses is its own.                *)
LEMMA CallFrame ==
  ASSUME ServiceInv, NEW c \in Calls, CallStep(c)
  PROVE  /\ disk \subseteq disk' /\ pc[c] \notin Ended \cup {"new"}
         /\ faults \in Nat /\ (faults' = 0 => faults = 0)
         /\ \A d \in Calls \ {c} : /\ pc'[d] = pc[d] /\ answer'[d] = answer[d]
                                   /\ \A row \in view' : row \in view \/ row.decision # d
<1> USE ServiceAssumption
<1>1. TypeOK
  BY DEF ServiceInv
<1>2. CASE Lookup(c) \/ Fetch(c) \/ Decide(c) \/ Reply(c)
  BY <1>1, <1>2 DEF Lookup, Fetch, Decide, Reply, Return, TypeOK, Ended
<1>3. CASE Write(c)
  <2>1. \A row \in view' : row \in view \/ row.decision = c
    <3>1. view' \subseteq view \cup {Row(Head(todo[c]), c)}
      BY <1>3, InsertedRows DEF Write
    <3>2. Row(Head(todo[c]), c).decision = c
      BY DEF Row
    <3> QED BY <3>1, <3>2
  <2> QED BY <1>1, <1>3, <2>1 DEF Write, TypeOK, Ended
<1>4. CASE Commit(c)
  BY <1>1, <1>4 DEF Commit, TypeOK, Ended
<1>5. CASE WriteFails(c)
  BY <1>1, <1>5 DEF WriteFails, TypeOK, Ended
<1> QED BY <1>2, <1>3, <1>4, <1>5 DEF CallStep

LEMMA RequestKeepsBatch ==
  ASSUME ServiceInv, BatchInv, NEW c \in Calls, RequestStep(c)
  PROVE  BatchInv'
<1>1. CallStep(c) /\ batch' = batch
  BY DEF RequestStep, CallStep, batchVars
<1>2. /\ disk \subseteq disk' /\ pc[c] \notin Ended \cup {"new"}
      /\ faults \in Nat /\ (faults' = 0 => faults = 0)
      /\ \A d \in Calls \ {c} : /\ pc'[d] = pc[d] /\ answer'[d] = answer[d]
                                /\ \A row \in view' : row \in view \/ row.decision # d
  BY <1>1, CallFrame
<1>3. /\ bdisk \subseteq bdisk' /\ bdisk' \subseteq bview' /\ bview' \subseteq bview
  BY DEF RequestStep, batchVars, BatchInv, TrailInOrder
<1>4. BatchTyped' /\ EachOnce'
  BY <1>1 DEF BatchInv, BatchTyped, EachOnce
<1>5. TrailInOrder'
  BY <1>1, <1>3 DEF BatchInv, TrailInOrder
<1>6. NotBegun'
  <2>1. \A d \in Calls : pc[d] = "new" => pc'[d] = "new"
    BY <1>2
  <2>2. \A i \in 1 .. Len(batch.todo) : batch.todo[i] \in Calls
    BY RowsAreCalls DEF BatchInv, BatchTyped
  <2> QED BY <1>1, <2>1, <2>2, RowsAreCalls DEF BatchInv, NotBegun
<1>7. ASSUME NEW d \in FileRows, d # c PROVE RowCall(d)'
  BY <1>1, <1>2, <1>7, RowsAreCalls, RowCallKeeps DEF BatchInv
<1>8. ASSUME c \in FileRows PROVE RowCall(c)'
  <2>1. RowCall(c)
    BY <1>8 DEF BatchInv
  <2>2. c \notin batch.rejected
    BY <1>2, <2>1 DEF RowCall, Ended
  <2>3. c \in batch.processed => Settled(disk, c)'
    BY <1>2, <2>1 DEF RowCall, Settled
  <2>4. pc'[c] \in {"write", "commit", "reply"} \/ (pc'[c] = "answered" /\ answer'[c] = c)
          \/ (pc'[c] = "error" /\ faults' # 0)
    <3>1. TypeOK /\ pc[c] \notin {"lookup", "fetch"}
      BY <2>1 DEF ServiceInv, RowCall
    <3> QED BY <1>1, <1>2, <3>1 DEF CallStep, Lookup, Fetch, Decide, Write, Commit, Reply, Return, WriteFails, TypeOK
  <2> QED BY <1>1, <2>2, <2>3, <2>4 DEF RowCall
<1> QED BY <1>4, <1>5, <1>6, <1>7, <1>8 DEF BatchInv

(* An API request that arrives is none of the file's rows.                  *)
LEMMA ApiKeepsBatch ==
  ASSUME ServiceInv, BatchInv, NEW c \in Calls, ApiRequest(c)
  PROVE  BatchInv'
<1>1. /\ c \notin FileRows /\ UNCHANGED <<batch, bview, bdisk, disk, view, answer, faults>>
      /\ \A d \in Calls \ {c} : pc'[d] = pc[d]
  BY DEF ApiRequest, Arrive, Reject, batchVars, ServiceInv, TypeOK
<1>2. \A i \in 1 .. Len(batch.todo) : batch.todo[i] \in FileRows
  BY DEF BatchInv, BatchTyped
<1>3. BatchTyped' /\ EachOnce' /\ TrailInOrder'
  BY <1>1 DEF BatchInv, BatchTyped, EachOnce, TrailInOrder
<1>4. NotBegun'
  BY <1>1, <1>2, RowsAreCalls DEF BatchInv, NotBegun
<1>5. \A d \in FileRows : RowCall(d)'
  BY <1>1, RowsAreCalls, RowCallKeeps DEF BatchInv
<1> QED BY <1>3, <1>4, <1>5 DEF BatchInv

(* A restart loses the batch and what it had not committed.                 *)
LEMMA CrashKeepsBatch ==
  ASSUME ServiceInv, BatchInv, BatchCrash
  PROVE  BatchInv'
<1>1. /\ UNCHANGED <<bdisk, disk, answer, faults>> /\ bview' = bdisk /\ view' \subseteq view
      /\ \A d \in Calls : \/ pc'[d] = pc[d]
                          \/ pc'[d] = "lost" /\ pc[d] \notin Ended \cup {"new"}
  <2>1. Crash /\ bview' = bdisk /\ bdisk' = bdisk
    BY DEF BatchCrash
  <2>2. UNCHANGED <<disk, answer, faults>> /\ view' = disk /\ disk \subseteq view
    BY <2>1 DEF Crash, ServiceInv, TypeOK
  <2>3. \A d \in Calls : pc'[d] = IF Running(d) THEN "lost" ELSE pc[d]
    BY <2>1 DEF Crash
  <2> QED BY <2>1, <2>2, <2>3 DEF Running
<1>2. \/ batch' = batch /\ batch.step \in BatchEnded \cup {"idle"}
      \/ batch' = [batch EXCEPT !.step = "lost"]
  BY DEF BatchCrash, Step
<1>3. /\ batch'.todo = batch.todo /\ batch'.processed = batch.processed
      /\ batch'.rejected = batch.rejected /\ batch'.submitted = batch.submitted
      /\ BatchTyped'
      /\ \/ batch'.step = batch.step /\ batch.step \in {"idle", "done", "error", "lost"}
         \/ batch'.step = "lost"
  BY <1>2 DEF BatchInv, BatchTyped, BatchSteps, BatchEnded
<1>4. EachOnce'
  BY <1>3 DEF BatchInv, EachOnce
<1>5. TrailInOrder'
  BY <1>1, <1>3 DEF BatchInv, TrailInOrder, Begun
<1>6. NotBegun'
  BY <1>1, <1>3, RowsAreCalls DEF BatchInv, NotBegun, Begun
<1>7. ASSUME NEW d \in FileRows PROVE RowCall(d)'
  <2>1. d \in Calls /\ RowCall(d)
    BY <1>7, RowsAreCalls DEF BatchInv
  <2>2. CASE pc'[d] = pc[d]
    BY <1>1, <1>3, <2>1, <2>2, RowCallKeeps
  <2>3. CASE pc'[d] = "lost" /\ pc[d] \notin Ended \cup {"new"}
    <3>1. d \notin batch.rejected
      BY <2>1, <2>3 DEF RowCall, Ended
    <3> QED BY <1>1, <1>3, <2>1, <2>3, <3>1 DEF RowCall, Settled
  <2> QED BY <1>1, <2>1, <2>2, <2>3
<1> QED BY <1>3, <1>4, <1>5, <1>6, <1>7 DEF BatchInv

-----------------------------------------------------------------------------
(* The batch's own steps.                                                   *)

(* The rows of the file, from 1 to the limit, are still to do.              *)
LEMMA ReceiveKeepsBatch ==
  ASSUME ServiceInv, BatchInv, NEW limit \in 0 .. Len(File), NEW verdicts, Receive(verdicts, limit)
  PROVE  BatchInv'
<1>1. batch.step = "idle" /\ UNCHANGED <<vars, bview, bdisk>>
  BY DEF Receive
<1>2. /\ pc' = pc /\ answer' = answer /\ view' = view /\ disk' = disk /\ faults' = faults
      /\ bview' = bview /\ bdisk' = bdisk
  BY <1>1 DEF vars
<1>3. CASE batch' = [batch EXCEPT !.step = "error"]
  <2>1. /\ batch'.step = "error" /\ batch'.todo = batch.todo /\ batch'.processed = batch.processed
        /\ batch'.rejected = batch.rejected /\ batch'.submitted = batch.submitted /\ BatchTyped'
    BY <1>3 DEF BatchInv, BatchTyped, BatchSteps, BatchEnded
  <2>2. EachOnce' /\ TrailInOrder' /\ NotBegun'
    BY <1>2, <2>1 DEF BatchInv, EachOnce, TrailInOrder, NotBegun, Begun
  <2>3. \A d \in FileRows : RowCall(d)'
    BY <1>2, <2>1, RowsAreCalls, RowCallKeeps DEF BatchInv
  <2> QED BY <2>1, <2>2, <2>3 DEF BatchInv
<1>4. CASE batch' = [batch EXCEPT !.step = "BATCH_RECEIVED", !.todo = SubSeq(File, 1, limit),
                                  !.invalid = {File[i] : i \in {j \in 1 .. limit : verdicts[j] = "invalid"}},
                                  !.submitted = limit]
  <2>1. \A i \in 1 .. limit : File[i] \in FileRows
    BY FileAssumption DEF FileRows
  <2>2. /\ SubSeq(File, 1, limit) \in Seq(FileRows) /\ Len(SubSeq(File, 1, limit)) = limit
        /\ \A i \in 1 .. limit : SubSeq(File, 1, limit)[i] = File[i]
    <3>1. limit \in Int /\ limit \in Nat
      BY FileAssumption
    <3>2. /\ SubSeq(File, 1, limit) \in Seq(FileRows)
          /\ Len(SubSeq(File, 1, limit)) = IF 1 <= limit THEN limit - 1 + 1 ELSE 0
          /\ \A i \in 1 .. limit - 1 + 1 : SubSeq(File, 1, limit)[i] = File[1 + i - 1]
      BY <2>1, <3>1, SubSeqProperties
    <3> QED BY <3>1, <3>2
  <2>3. /\ batch'.step = "BATCH_RECEIVED" /\ batch'.todo = SubSeq(File, 1, limit)
        /\ batch'.processed = batch.processed /\ batch'.rejected = batch.rejected
        /\ batch'.submitted = limit
    BY <1>4 DEF BatchInv, BatchTyped
  <2>4. BatchTyped'
    <3>1. {File[i] : i \in {j \in 1 .. limit : verdicts[j] = "invalid"}} \in SUBSET FileRows
      BY <2>1
    <3>2. limit \in Nat
      BY FileAssumption
    <3> QED BY <1>4, <2>2, <2>3, <3>1, <3>2 DEF BatchInv, BatchTyped, BatchSteps, Begun
  <2>5. batch.processed = {} /\ batch.rejected = {}
    BY <1>1 DEF BatchInv, EachOnce
  <2>6. EachOnce'
    <3>1. Cardinality({}) = 0 /\ limit \in Nat
      BY FS_EmptySet, FileAssumption
    <3>2. \A i, j \in 1 .. limit : File[i] = File[j] => i = j
      BY FileAssumption
    <3> QED BY <2>2, <2>3, <2>5, <3>1, <3>2 DEF EachOnce
  <2>7. TrailInOrder'
    BY <1>1, <1>2, <2>3 DEF BatchInv, TrailInOrder, Begun
  <2>8. NotBegun'
    BY <1>1, <1>2, <2>1, <2>2, <2>3 DEF BatchInv, NotBegun
  <2>9. \A d \in FileRows : RowCall(d)'
    BY <1>2, <2>3, RowsAreCalls, RowCallKeeps DEF BatchInv
  <2> QED BY <2>4, <2>6, <2>7, <2>8, <2>9 DEF BatchInv
<1> QED BY <1>3, <1>4 DEF Receive, Step

(* A step of the batch that ends or goes on without touching its rows.      *)
LEMMA StepKeepsRows ==
  ASSUME BatchInv, NEW step \in BatchSteps \ {"idle", "deciding"},
         batch' = [batch EXCEPT !.step = step],
         step \in Begun => batch.step = "BATCH_RECEIVED",
         pc' = pc, answer' = answer, disk \subseteq disk',
         faults' = 0 => faults = 0 /\ view' \subseteq view
  PROVE  /\ batch'.step = step /\ batch'.todo = batch.todo /\ BatchTyped' /\ EachOnce' /\ NotBegun'
         /\ \A d \in FileRows : RowCall(d)'
<1>1. /\ batch'.step = step /\ batch'.todo = batch.todo /\ batch'.processed = batch.processed
      /\ batch'.rejected = batch.rejected /\ batch'.submitted = batch.submitted /\ BatchTyped'
  BY DEF BatchInv, BatchTyped
<1>2. EachOnce'
  BY <1>1 DEF BatchInv, EachOnce
<1>3. NotBegun'
  BY <1>1 DEF BatchInv, NotBegun, Begun
<1>4. \A d \in FileRows : RowCall(d)'
  BY <1>1, RowsAreCalls, RowCallKeeps DEF BatchInv
<1> QED BY <1>1, <1>2, <1>3, <1>4

(* record, meter: each of the batch's rows follows the one before.          *)
LEMMA RecordKeepsBatch ==
  ASSUME ServiceInv, BatchInv, NEW entry \in BatchLedger, Record(entry)
  PROVE  BatchInv'
<1>1. /\ batch.step = entry /\ bview' = bview \cup {entry} /\ bdisk' = bview'
      /\ disk' = view /\ UNCHANGED <<pc, answer, view, faults>> /\ disk \subseteq disk'
      /\ batch' = [batch EXCEPT !.step = After(entry)]
  BY DEF Record, Step, ServiceInv, TypeOK
<1>2. \/ entry = "BATCH_RECEIVED" /\ After(entry) = "rows"
      \/ entry = "BATCH_COMPLETED" /\ After(entry) = "BATCH_SCORE"
      \/ entry = "BATCH_SCORE" /\ After(entry) = "done"
  BY DEF BatchLedger, After
<1>3. /\ batch'.step = After(entry) /\ batch'.todo = batch.todo /\ BatchTyped' /\ EachOnce' /\ NotBegun'
      /\ \A d \in FileRows : RowCall(d)'
  <2>1. /\ After(entry) \in BatchSteps \ {"idle", "deciding"}
        /\ After(entry) \in Begun => batch.step = "BATCH_RECEIVED"
    BY <1>1, <1>2 DEF BatchSteps, Begun, BatchEnded
  <2> QED BY <1>1, <2>1, StepKeepsRows
<1>4. TrailInOrder'
  BY <1>1, <1>2, <1>3 DEF BatchInv, TrailInOrder, Begun
<1> QED BY <1>3, <1>4 DEF BatchInv

(* A write of the batch that fails ends it; its row may be left open.       *)
LEMMA RecordFailsKeepsBatch ==
  ASSUME ServiceInv, BatchInv, NEW entry \in BatchLedger, RecordFails(entry)
  PROVE  BatchInv'
<1>1. /\ batch.step = entry /\ bdisk' = bdisk /\ bview' \in {bdisk, bview, bview \cup {entry}}
      /\ UNCHANGED <<pc, answer, disk>> /\ faults' # 0
      /\ batch' = [batch EXCEPT !.step = "error"]
  BY DEF RecordFails, Step, ServiceInv, TypeOK
<1>2. /\ batch'.step = "error" /\ batch'.todo = batch.todo /\ BatchTyped' /\ EachOnce' /\ NotBegun'
      /\ \A d \in FileRows : RowCall(d)'
  BY <1>1, StepKeepsRows DEF BatchSteps, BatchEnded, Begun
<1>3. TrailInOrder'
  BY <1>1, <1>2 DEF BatchInv, TrailInOrder, BatchLedger, Begun
<1> QED BY <1>2, <1>3 DEF BatchInv

LEMMA EndRowsKeepsBatch ==
  ASSUME ServiceInv, BatchInv, EndRows
  PROVE  BatchInv'
<1>1. /\ batch.step = "rows" /\ batch.todo = << >> /\ UNCHANGED <<vars, bview, bdisk>>
      /\ batch' = [batch EXCEPT !.step = "BATCH_COMPLETED"]
  BY DEF EndRows, Step
<1>2. /\ batch'.step = "BATCH_COMPLETED" /\ batch'.todo = batch.todo /\ BatchTyped' /\ EachOnce' /\ NotBegun'
      /\ \A d \in FileRows : RowCall(d)'
  BY <1>1, StepKeepsRows DEF BatchSteps, Begun, vars
<1>3. TrailInOrder'
  BY <1>1, <1>2 DEF BatchInv, TrailInOrder, Begun
<1> QED BY <1>2, <1>3 DEF BatchInv

(* The row at the head of those still to do becomes processed or rejected.  *)
LEMMA RowIsDone ==
  ASSUME BatchInv, batch.step \in {"rows", "deciding"}, batch.todo # << >>,
         UNCHANGED <<pc, answer, view, disk, faults, bview, bdisk>>,
         \/ batch' = [batch EXCEPT !.step = "rows", !.todo = Tail(@), !.processed = @ \cup {Head(batch.todo)}]
         \/ batch' = [batch EXCEPT !.step = "rows", !.todo = Tail(@), !.rejected = @ \cup {Head(batch.todo)}]
  PROVE  /\ BatchTyped' /\ EachOnce' /\ NotBegun' /\ TrailInOrder'
         /\ \A d \in FileRows \ {Head(batch.todo)} : RowCall(d)'
<1> DEFINE h == Head(batch.todo)
<1>1. batch.todo \in Seq(FileRows) /\ Len(batch.todo) \in Nat \ {0}
  BY EmptySeq, LenProperties DEF BatchInv, BatchTyped
<1>2. /\ h = batch.todo[1] /\ h \in FileRows /\ Tail(batch.todo) \in Seq(FileRows)
      /\ Len(Tail(batch.todo)) = Len(batch.todo) - 1
      /\ \A i \in 1 .. Len(Tail(batch.todo)) : Tail(batch.todo)[i] = batch.todo[i + 1]
  BY <1>1, HeadTailProperties
<1>3. /\ batch'.step = "rows" /\ batch'.todo = Tail(batch.todo) /\ batch'.submitted = batch.submitted
      /\ \/ batch'.processed = batch.processed \cup {h} /\ batch'.rejected = batch.rejected
         \/ batch'.processed = batch.processed /\ batch'.rejected = batch.rejected \cup {h}
  BY DEF BatchInv, BatchTyped
<1>4. BatchTyped'
  <2>1. batch' \in [step : BatchSteps, todo : Seq(FileRows), invalid : SUBSET FileRows,
                    processed : SUBSET FileRows, rejected : SUBSET FileRows, submitted : Nat]
    <3>1. /\ batch \in [step : BatchSteps, todo : Seq(FileRows), invalid : SUBSET FileRows,
                        processed : SUBSET FileRows, rejected : SUBSET FileRows, submitted : Nat]
          /\ "rows" \in BatchSteps
      BY DEF BatchInv, BatchTyped, BatchSteps, Begun
    <3>2. batch.processed \cup {h} \in SUBSET FileRows /\ batch.rejected \cup {h} \in SUBSET FileRows
      BY <1>2, <3>1
    <3> HIDE DEF h
    <3>3. \/ batch' = [batch EXCEPT !.step = "rows", !.todo = Tail(@), !.processed = @ \cup {h}]
          \/ batch' = [batch EXCEPT !.step = "rows", !.todo = Tail(@), !.rejected = @ \cup {h}]
      BY DEF h
    <3> QED BY <1>2, <3>1, <3>2, <3>3
  <2>2. IsFiniteSet(batch.processed \cup {h}) /\ IsFiniteSet(batch.rejected \cup {h})
    BY FS_AddElement DEF BatchInv, BatchTyped
  <2> QED BY <1>3, <2>1, <2>2 DEF BatchInv, BatchTyped
<1>5. h \notin batch.processed \cup batch.rejected
  BY <1>1, <1>2 DEF BatchInv, EachOnce
<1>6. EachOnce'
  <2>1. /\ Cardinality(batch.processed) \in Nat /\ Cardinality(batch.rejected) \in Nat
        /\ Cardinality(batch.processed \cup {h}) = Cardinality(batch.processed) + 1
        /\ Cardinality(batch.rejected \cup {h}) = Cardinality(batch.rejected) + 1
    BY <1>5, FS_AddElement, FS_CardinalityType DEF BatchInv, BatchTyped
  <2>2. Cardinality(batch'.processed) + Cardinality(batch'.rejected) + Len(batch'.todo) = batch'.submitted
    <3>1. Cardinality(batch.processed) + Cardinality(batch.rejected) + Len(batch.todo) = batch.submitted
      BY DEF BatchInv, EachOnce
    <3>2. Len(batch'.todo) = Len(batch.todo) - 1
      BY <1>2, <1>3
    <3>3. \/ /\ Cardinality(batch'.processed) = Cardinality(batch.processed) + 1
             /\ Cardinality(batch'.rejected) = Cardinality(batch.rejected)
          \/ /\ Cardinality(batch'.processed) = Cardinality(batch.processed)
             /\ Cardinality(batch'.rejected) = Cardinality(batch.rejected) + 1
      BY <1>3, <2>1
    <3>4. batch'.submitted = batch.submitted
      BY <1>3
    <3> QED BY <1>1, <2>1, <3>1, <3>2, <3>3, <3>4
  <2>3. \A i \in 1 .. Len(batch'.todo) : /\ i + 1 \in 1 .. Len(batch.todo) /\ i + 1 # 1
                                         /\ batch'.todo[i] = batch.todo[i + 1]
    BY <1>1, <1>2, <1>3
  <2>4. \A i, j \in 1 .. Len(batch'.todo) : batch'.todo[i] = batch'.todo[j] => i = j
    BY <1>1, <1>2, <1>3, <2>3 DEF BatchInv, EachOnce
  <2>5. \A i \in 1 .. Len(batch'.todo) : batch'.todo[i] # h
    <3>1. \A i \in 1 .. Len(batch.todo) : batch.todo[i] = batch.todo[1] => i = 1
      BY <1>1 DEF BatchInv, EachOnce
    <3> QED BY <1>2, <2>3, <3>1
  <2>6. \A i \in 1 .. Len(batch'.todo) : batch'.todo[i] \notin batch'.processed \cup batch'.rejected
    BY <1>3, <2>3, <2>5 DEF BatchInv, EachOnce
  <2> QED BY <1>3, <2>2, <2>4, <2>6 DEF EachOnce
<1>7. NotBegun'
  <2>1. \A i \in 1 .. Len(batch'.todo) : /\ i + 1 \in 1 .. Len(batch.todo) /\ i + 1 # 1
                                         /\ batch'.todo[i] = batch.todo[i + 1]
    BY <1>1, <1>2, <1>3
  <2> QED BY <1>3, <2>1 DEF BatchInv, NotBegun, Begun
<1>8. TrailInOrder'
  BY <1>3 DEF BatchInv, TrailInOrder, Begun
<1>9. ASSUME NEW d \in FileRows \ {h} PROVE RowCall(d)'
  <2>1. RowCall(d)
    BY DEF BatchInv
  <2> QED BY <1>3, <2>1 DEF RowCall, Settled
<1> QED BY <1>4, <1>6, <1>7, <1>8, <1>9

(* The next row of the file is rejected for its errors, or its decision     *)
(* begins.                                                                  *)
LEMMA BeginRowKeepsBatch ==
  ASSUME ServiceInv, BatchInv, BeginRow
  PROVE  BatchInv'
<1> DEFINE h == Head(batch.todo)
<1>1. /\ batch.step = "rows" /\ batch.todo # << >>
      /\ UNCHANGED <<answer, view, disk, faults, bview, bdisk>>
  BY DEF BeginRow
<1>2. batch.todo \in Seq(FileRows) /\ 1 \in 1 .. Len(batch.todo) /\ h = batch.todo[1] /\ h \in FileRows
  BY <1>1, EmptySeq, LenProperties, HeadTailProperties DEF BatchInv, BatchTyped
<1>3. pc[h] = "new" /\ RowCall(h) /\ h \in Calls
  BY <1>1, <1>2, RowsAreCalls DEF BatchInv, NotBegun, Begun
<1>4. h \notin batch.processed /\ h \notin batch.rejected
  BY <1>2 DEF BatchInv, EachOnce
<1>5. CASE h \in batch.invalid
  <2>1. /\ batch' = [batch EXCEPT !.todo = Tail(@), !.rejected = @ \cup {h}]
        /\ pc' = pc
    BY <1>5 DEF BeginRow
  <2>2. batch' = [batch EXCEPT !.step = "rows", !.todo = Tail(@), !.rejected = @ \cup {h}]
    BY <1>1, <2>1 DEF BatchInv, BatchTyped
  <2>3. /\ BatchTyped' /\ EachOnce' /\ NotBegun' /\ TrailInOrder'
        /\ \A d \in FileRows \ {h} : RowCall(d)'
    BY <1>1, <2>1, <2>2, RowIsDone
  <2>4. ASSUME NEW d \in FileRows, d = h PROVE RowCall(d)'
    <3>1. RowCall(d) /\ pc[d] = "new" /\ d \notin batch.processed /\ batch'.processed = batch.processed
      BY <1>3, <1>4, <2>1, <2>4 DEF BatchInv, BatchTyped
    <3> QED BY <1>1, <2>1, <3>1 DEF RowCall
  <2>5. ASSUME NEW d \in FileRows PROVE RowCall(d)'
    BY <2>3, <2>4
  <2> QED BY <2>3, <2>5 DEF BatchInv
<1>6. CASE h \notin batch.invalid
  <2>1. pc' = [pc EXCEPT ![h] = "decide"] /\ batch' = [batch EXCEPT !.step = "deciding"]
    BY <1>6 DEF BeginRow, Step
  <2>2. /\ batch'.step = "deciding" /\ batch'.todo = batch.todo /\ batch'.processed = batch.processed
        /\ batch'.rejected = batch.rejected /\ batch'.submitted = batch.submitted /\ BatchTyped'
    BY <2>1 DEF BatchInv, BatchTyped, BatchSteps, Begun
  <2>3. pc'[h] = "decide" /\ \A d \in Calls \ {h} : pc'[d] = pc[d]
    BY <1>3, <2>1 DEF ServiceInv, TypeOK
  <2>4. EachOnce' /\ TrailInOrder'
    BY <1>1, <2>2 DEF BatchInv, EachOnce, TrailInOrder, Begun
  <2>5. NotBegun'
    <3>1. \A i \in 1 .. Len(batch.todo) : i = 1 \/ batch.todo[i] \in Calls \ {h}
      BY <1>2, RowsAreCalls DEF BatchInv, EachOnce
    <3> QED BY <1>1, <2>2, <2>3, <3>1 DEF BatchInv, NotBegun, Begun
  <2>6. ASSUME NEW d \in FileRows PROVE RowCall(d)'
    <3>1. CASE d = h
      <4>1. RowCall(d) /\ pc[d] = "new" /\ pc'[d] = "decide"
        BY <1>3, <2>3, <3>1
      <4>2. d \notin batch.processed /\ d \notin batch.rejected
        BY <1>4, <3>1
      <4> QED BY <1>1, <2>2, <4>1, <4>2 DEF RowCall
    <3>2. CASE d # h
      BY <1>1, <2>2, <2>3, <3>2, RowsAreCalls, RowCallKeeps DEF BatchInv
    <3> QED BY <3>1, <3>2
  <2> QED BY <2>2, <2>4, <2>5, <2>6 DEF BatchInv
<1> QED BY <1>5, <1>6

(* A row that cannot be computed raises before its first write.             *)
LEMMA RowRaisesKeepsBatch ==
  ASSUME ServiceInv, BatchInv, RowRaises
  PROVE  BatchInv'
<1> DEFINE h == Head(batch.todo)
<1>1. /\ batch.step = "deciding" /\ pc[h] = "decide" /\ pc' = [pc EXCEPT ![h] = "error"]
      /\ UNCHANGED <<answer, view, disk, faults, batch, bview, bdisk>>
  BY DEF RowRaises, batchVars
<1>2. batch.todo \in Seq(FileRows) /\ 1 \in 1 .. Len(batch.todo) /\ h = batch.todo[1] /\ h \in FileRows
  BY <1>1, EmptySeq, LenProperties, HeadTailProperties DEF BatchInv, BatchTyped, EachOnce
<1>3. pc'[h] = "error" /\ \A d \in Calls \ {h} : pc'[d] = pc[d]
  BY <1>1, <1>2, RowsAreCalls DEF ServiceInv, TypeOK
<1>4. BatchTyped' /\ EachOnce' /\ TrailInOrder'
  BY <1>1 DEF BatchInv, BatchTyped, EachOnce, TrailInOrder
<1>5. NotBegun'
  <2>1. \A i \in 1 .. Len(batch.todo) : i = 1 \/ batch.todo[i] \in Calls \ {h}
    BY <1>2, RowsAreCalls DEF BatchInv, EachOnce
  <2> QED BY <1>1, <1>3, <2>1 DEF BatchInv, NotBegun
<1>6. ASSUME NEW d \in FileRows PROVE RowCall(d)'
  <2>1. RowCall(d) /\ d \in Calls
    BY RowsAreCalls DEF BatchInv
  <2>2. CASE d = h
    <3>1. pc[d] = "decide" /\ pc'[d] = "error"
      BY <1>1, <1>3, <2>2
    <3> QED BY <1>1, <2>1, <3>1 DEF RowCall, Settled
  <2>3. CASE d # h
    BY <1>1, <1>3, <2>1, <2>3, RowCallKeeps
  <2> QED BY <2>2, <2>3
<1> QED BY <1>4, <1>5, <1>6 DEF BatchInv

(* Platform.decide returned its own decision, which is settled, or raised.  *)
LEMMA EndRowKeepsBatch ==
  ASSUME ServiceInv, BatchInv, EndRow
  PROVE  BatchInv'
<1> DEFINE h == Head(batch.todo)
<1>1. /\ batch.step = "deciding" /\ UNCHANGED <<pc, answer, view, disk, faults, bview, bdisk>>
      /\ \/ /\ pc[h] = "answered"
            /\ batch' = [batch EXCEPT !.step = "rows", !.todo = Tail(@), !.processed = @ \cup {h}]
         \/ /\ pc[h] = "error"
            /\ batch' = [batch EXCEPT !.step = "rows", !.todo = Tail(@), !.rejected = @ \cup {h}]
  BY DEF EndRow, vars
<1>2. batch.todo # << >> /\ h \in FileRows
  BY <1>1, HeadTailProperties DEF BatchInv, BatchTyped, EachOnce
<1>3. /\ BatchTyped' /\ EachOnce' /\ NotBegun' /\ TrailInOrder'
      /\ \A d \in FileRows \ {h} : RowCall(d)'
  BY <1>1, <1>2, RowIsDone
<1>4. ASSUME NEW d \in FileRows, d = h PROVE RowCall(d)'
  <2>1. RowCall(d) /\ d \in Calls /\ CallReady(d)
    BY RowsAreCalls DEF BatchInv, ServiceInv
  <2>2. pc[d] = "answered" => Settled(disk, d)
    BY <2>1 DEF RowCall, CallReady
  <2>3. \/ pc[d] = "answered" /\ batch'.rejected = batch.rejected
        \/ pc[d] = "error" /\ batch'.processed = batch.processed
    BY <1>1, <1>4 DEF BatchInv, BatchTyped
  <2>4. \/ batch'.processed \subseteq batch.processed \cup {d} /\ batch'.rejected \subseteq batch.rejected
        \/ batch'.rejected \subseteq batch.rejected \cup {d} /\ batch'.processed \subseteq batch.processed
    BY <1>1, <1>4 DEF BatchInv, BatchTyped
  <2> QED BY <1>1, <2>1, <2>2, <2>3, <2>4 DEF RowCall, Settled
<1>5. ASSUME NEW d \in FileRows PROVE RowCall(d)'
  BY <1>3, <1>4
<1> QED BY <1>3, <1>5 DEF BatchInv

-----------------------------------------------------------------------------
(* The invariant of the decisions and that of the batch, together.          *)
LEMMA BatchStepKeeps == ServiceInv /\ BatchInv /\ [BatchNext]_allVars => ServiceInv' /\ BatchInv'
<1> SUFFICES ASSUME ServiceInv, BatchInv, [BatchNext]_allVars PROVE ServiceInv' /\ BatchInv'
  OBVIOUS
<1>1. batch.todo \in Seq(Calls)
  BY RowsAreCalls DEF BatchInv, BatchTyped
<1>2. ASSUME NEW limit \in 0 .. Len(File), NEW verdicts, Receive(verdicts, limit)
      PROVE  ServiceInv' /\ BatchInv'
  <2>1. UNCHANGED vars
    BY <1>2 DEF Receive
  <2> QED BY <1>2, <2>1, ServiceStepKeeps, ReceiveKeepsBatch
<1>3. CASE BatchStep
  <2>1. ASSUME NEW entry \in BatchLedger, Record(entry) \/ RecordFails(entry)
        PROVE  ServiceInv' /\ BatchInv'
    BY <2>1, RecordKeepsService, RecordKeepsBatch, RecordFailsKeepsService, RecordFailsKeepsBatch
  <2>2. CASE BeginRow
    BY <1>1, <2>2, BeginRowKeepsService, BeginRowKeepsBatch
  <2>3. CASE RowRaises
    <3>1. batch.todo # << >>
      BY <2>3 DEF RowRaises, BatchInv, EachOnce
    <3> QED BY <1>1, <2>3, <3>1, RowRaisesKeepsService, RowRaisesKeepsBatch
  <2>4. CASE EndRow
    <3>1. UNCHANGED vars
      BY <2>4 DEF EndRow
    <3> QED BY <2>4, <3>1, ServiceStepKeeps, EndRowKeepsBatch
  <2>5. CASE EndRows
    <3>1. UNCHANGED vars
      BY <2>5 DEF EndRows
    <3> QED BY <2>5, <3>1, ServiceStepKeeps, EndRowsKeepsBatch
  <2> QED BY <1>3, <2>1, <2>2, <2>3, <2>4, <2>5 DEF BatchStep
<1>4. ASSUME NEW c \in Calls, RequestStep(c) PROVE ServiceInv' /\ BatchInv'
  <2>1. Next
    BY <1>4 DEF RequestStep, CallStep, Next
  <2> QED BY <1>4, <2>1, ServiceStepKeeps, RequestKeepsBatch
<1>5. ASSUME NEW c \in Calls, ApiRequest(c) PROVE ServiceInv' /\ BatchInv'
  <2>1. Next
    BY <1>5 DEF ApiRequest, Next
  <2> QED BY <1>5, <2>1, ServiceStepKeeps, ApiKeepsBatch
<1>6. CASE BatchCrash
  <2>1. Next
    BY <1>6 DEF BatchCrash, Next
  <2> QED BY <1>6, <2>1, ServiceStepKeeps, CrashKeepsBatch
<1>7. CASE UNCHANGED allVars
  <2>1. UNCHANGED vars /\ UNCHANGED <<batch, bview, bdisk>>
    BY <1>7 DEF allVars, batchVars
  <2>2. UNCHANGED <<pc, answer, view, disk, faults>>
    BY <2>1 DEF vars
  <2>3. BatchTyped' /\ EachOnce' /\ TrailInOrder' /\ NotBegun'
    BY <2>1, <2>2 DEF BatchInv, BatchTyped, EachOnce, TrailInOrder, NotBegun
  <2>4. \A d \in FileRows : RowCall(d)'
    BY <2>1, <2>2, RowsAreCalls, RowCallKeeps DEF BatchInv
  <2> QED BY <2>1, <2>3, <2>4, ServiceStepKeeps DEF BatchInv
<1> QED BY <1>2, <1>3, <1>4, <1>5, <1>6, <1>7 DEF BatchNext

LEMMA BatchInvHolds == BatchSpec => [](ServiceInv /\ BatchInv)
<1>1. BatchInit => ServiceInv /\ BatchInv
  BY ServiceInit, BatchInvInit DEF BatchInit
<1> QED BY <1>1, BatchStepKeeps, PTL DEF BatchSpec

(* core/batch.py, lines 15-17: a batch that is recorded as complete, and    *)
(* charged, accounts for every row it received, and every row it counts as  *)
(* processed is stored, billed and audited.                                 *)
THEOREM CompletedBatchesAreAccounted == BatchSpec => []BatchIsAccounted
<1>1. BatchInv => BatchIsAccounted
  <2> SUFFICES ASSUME BatchInv PROVE BatchIsAccounted
    OBVIOUS
  <2>1. /\ "BATCH_SCORE" \in bdisk => "BATCH_COMPLETED" \in bdisk
        /\ "BATCH_COMPLETED" \in bdisk => "BATCH_RECEIVED" \in bdisk /\ batch.todo = << >>
    BY DEF BatchInv, TrailInOrder
  <2>2. batch.todo = << >> => Cardinality(batch.processed) + Cardinality(batch.rejected) = batch.submitted
    <3>1. Cardinality(batch.processed) \in Nat /\ Cardinality(batch.rejected) \in Nat
      BY FS_CardinalityType DEF BatchInv, BatchTyped
    <3> QED BY <3>1 DEF BatchInv, EachOnce
  <2>3. \A c \in batch.processed : Settled(disk, c)
    BY DEF BatchInv, BatchTyped, RowCall
  <2> QED BY <2>1, <2>2, <2>3 DEF BatchIsAccounted
<1> QED BY <1>1, BatchInvHolds, PTL

(* core/batch.py, lines 12-14: a rejected row has left nothing in the       *)
(* ledger, as long as no write has failed.                                  *)
THEOREM RejectsHaveLeftNothing == BatchSpec => []RejectsLeaveNothing
<1>1. BatchInv => RejectsLeaveNothing
  BY DEF BatchInv, BatchTyped, RowCall, RejectsLeaveNothing
<1> QED BY <1>1, BatchInvHolds, PTL

(* Nor does a batch ever leave a billing event, an audit row or a key whose *)
(* decision is not committed, though its own writes commit and roll back    *)
(* what the decisions beside it have open.                                  *)
THEOREM BatchesLackNoDecision == BatchSpec => []NothingWithoutItsDecision
BY BackedLacksNothing, BatchInvHolds, PTL

=============================================================================
