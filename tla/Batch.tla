-------------------------------- MODULE Batch --------------------------------
(***************************************************************************)
(* POST /v1/batches: batch.run of core/batch.py and Api.submit_batch of    *)
(* api/server.py.  The rows of a file are decided one after the other by   *)
(* the same Platform.decide that serves the API, in the thread of the      *)
(* batch request; the batch adds two audit events and a billing event of   *)
(* its own.                                                                *)
(*                                                                         *)
(* The calls in File are the rows, in order; the others are API requests   *)
(* that run meanwhile.                                                     *)
(***************************************************************************)
EXTENDS DecisionService

CONSTANTS
  File   \* the rows of the file

ASSUME FileAssumption ==
  /\ File \in Seq(Calls)
  /\ \A i, j \in 1 .. Len(File) : File[i] = File[j] => i = j

VARIABLES
  batch,   \* step, rows still to do, rows processed, rejected and submitted
  bview,   \* the batch's own ledger rows that the shared connection sees
  bdisk    \* those that are committed

batchVars == <<batch, bview, bdisk>>
allVars == <<vars, batchVars>>

FileRows == {File[i] : i \in 1 .. Len(File)}

BatchEnded == {"done", "error", "lost"}
BatchLedger == {"BATCH_RECEIVED", "BATCH_COMPLETED", "BATCH_SCORE"}

-----------------------------------------------------------------------------
(* _coerce.  One column stands for each way a column is treated; a cell is  *)
(* a class of values.                                                       *)

Shapes ==
  [text     : {"absent", "ok"},                       \* required, any text
   amount   : {"absent", "ok", "word", "negative"},   \* required, float() and not below zero
   count    : {"absent", "ok", "word", "infinite"},   \* int(float())
   consents : {"both", "missing"}]

\* int(float("inf")) raises what _coerce does not catch.
Aborts(row) == row.count = "infinite"

\* What becomes of a row: its errors are collected, or parse itself raises.
Verdict(row) ==
  IF Aborts(row) THEN "aborts"
  ELSE IF row.text # "absent" /\ row.amount = "ok" /\ row.count # "word" /\ row.consents = "both"
  THEN "valid"
  ELSE "invalid"

Verdicts == {Verdict(row) : row \in Shapes}

-----------------------------------------------------------------------------
BatchInit ==
  /\ Init
  /\ batch = [step |-> "idle", todo |-> << >>, invalid |-> {}, processed |-> {},
              rejected |-> {}, submitted |-> 0]
  /\ bview = {} /\ bdisk = {}

Step(step) == batch' = [batch EXCEPT !.step = step]

\* parse: every row is coerced before anything is recorded, and `limit` cuts
\* the list.  A row on which _coerce raises ends the request with 500.
Receive(verdicts, limit) ==
  /\ batch.step = "idle"
  /\ IF \E i \in DOMAIN verdicts : verdicts[i] = "aborts"
     THEN Step("error")
     ELSE batch' = [batch EXCEPT !.step = "BATCH_RECEIVED",
                                 !.todo = SubSeq(File, 1, limit),
                                 !.invalid = {File[i] : i \in {j \in 1 .. limit : verdicts[j] = "invalid"}},
                                 !.submitted = limit]
  /\ UNCHANGED <<vars, bview, bdisk>>

\* The step after each of the batch's own ledger writes.
After(entry) ==
  [BATCH_RECEIVED |-> "rows", BATCH_COMPLETED |-> "BATCH_SCORE", BATCH_SCORE |-> "done"][entry]

\* record or meter: a write of the batch itself, under the ledger's lock; the
\* commit takes along whatever is open on the connection.
Record(entry) ==
  /\ batch.step = entry
  /\ lock = NoCall
  /\ bview' = bview \cup {entry}
  /\ bdisk' = bview'
  /\ disk' = view
  /\ Step(After(entry))
  /\ UNCHANGED <<arg, pc, todo, answer, found, lock, view, clashed, faults, crashes>>

\* INSERT or COMMIT raises: 500; the row stays open, or the transaction is
\* rolled back.
RecordFails(entry) ==
  /\ faults < MaxFaults
  /\ faults' = faults + 1
  /\ batch.step = entry
  /\ lock = NoCall
  /\ \/ view' = disk /\ bview' = bdisk
     \/ view' = view /\ bview' \in {bview, bview \cup {entry}}
  /\ Step("error")
  /\ UNCHANGED <<arg, pc, todo, answer, found, lock, disk, clashed, crashes, bdisk>>

\* The next row: rejected for its errors, or decided.
BeginRow ==
  /\ batch.step = "rows" /\ batch.todo # << >>
  /\ LET c == Head(batch.todo)
     IN IF c \in batch.invalid
        THEN /\ batch' = [batch EXCEPT !.todo = Tail(@), !.rejected = @ \cup {c}]
             /\ UNCHANGED <<arg, pc>>
        ELSE /\ \E a \in Args : a.key = NoKey /\ arg' = [arg EXCEPT ![c] = a]
             /\ pc' = [pc EXCEPT ![c] = "decide"]
             /\ Step("deciding")
  /\ UNCHANGED <<todo, answer, found, lock, view, disk, clashed, faults, crashes, bview, bdisk>>

\* Mutant: the decision of a row that cannot be computed is stored first.
RowRaises_AfterStore ==
  /\ batch.step = "deciding"
  /\ LET c == Head(batch.todo)
     IN /\ pc[c] = "write" /\ lock = NoCall /\ Head(todo[c]) = "APPLICATION_DECISION"
        /\ pc' = [pc EXCEPT ![c] = "error"]
        /\ todo' = [todo EXCEPT ![c] = << >>]
  /\ UNCHANGED <<arg, answer, found, lock, view, disk, clashed, faults, crashes, batchVars>>

\* A value that coerces but cannot be computed with (a date that is none)
\* raises in Platform.decide, which writes nothing before it has a result.
RowRaises ==
  /\ batch.step = "deciding"
  /\ LET c == Head(batch.todo)
     IN /\ pc[c] = "decide"
        /\ pc' = [pc EXCEPT ![c] = "error"]
  /\ UNCHANGED <<arg, todo, answer, found, lock, view, disk, clashed, faults, crashes, batchVars>>

\* Mutant: a row whose processing raised is counted as processed.
EndRow_CountsErrors ==
  /\ batch.step = "deciding"
  /\ LET c == Head(batch.todo)
     IN /\ pc[c] \in {"answered", "error"}
        /\ batch' = [batch EXCEPT !.step = "rows", !.todo = Tail(@), !.processed = @ \cup {c}]
  /\ UNCHANGED <<vars, bview, bdisk>>

\* Platform.decide has returned, or raised: "a bad row must not stop the file".
EndRow ==
  /\ batch.step = "deciding"
  /\ LET c == Head(batch.todo)
     IN \/ /\ pc[c] = "answered"
           /\ batch' = [batch EXCEPT !.step = "rows", !.todo = Tail(@), !.processed = @ \cup {c}]
        \/ /\ pc[c] = "error"
           /\ batch' = [batch EXCEPT !.step = "rows", !.todo = Tail(@), !.rejected = @ \cup {c}]
  /\ UNCHANGED <<vars, bview, bdisk>>

EndRows ==
  /\ batch.step = "rows" /\ batch.todo = << >>
  /\ Step("BATCH_COMPLETED")
  /\ UNCHANGED <<vars, bview, bdisk>>

BatchStep ==
  \/ \E entry \in BatchLedger : Record(entry) \/ RecordFails(entry)
  \/ BeginRow
  \/ RowRaises
  \/ EndRow
  \/ EndRows

-----------------------------------------------------------------------------
(* The steps of the decisions, on the same connection.                      *)

\* A commit commits the batch's open row with the decision's, a rollback
\* loses both.
RequestStep(c) ==
  \/ Commit(c) /\ bdisk' = bview /\ UNCHANGED <<batch, bview>>
  \/ /\ WriteFails(c)
     /\ \/ view' = view /\ bview' = bview
        \/ view' = disk /\ bview' = bdisk
     /\ UNCHANGED <<batch, bdisk>>
  \/ (Lookup(c) \/ Fetch(c) \/ Decide(c) \/ Write(c) \/ Reply(c)) /\ UNCHANGED batchVars

ApiRequest(c) ==
  /\ c \notin FileRows
  /\ (\E a \in Args : Arrive(c, a)) \/ Reject(c)
  /\ UNCHANGED batchVars

BatchCrash ==
  /\ Crash
  /\ bview' = bdisk
  /\ IF batch.step \in BatchEnded \cup {"idle"} THEN UNCHANGED batch ELSE Step("lost")
  /\ UNCHANGED bdisk

BatchNext ==
  \/ \E limit \in 0 .. Len(File) : \E verdicts \in [1 .. Len(File) -> Verdicts] :
       Receive(verdicts, limit)
  \/ BatchStep
  \/ \E c \in Calls : RequestStep(c)
  \/ \E c \in Calls : ApiRequest(c)
  \/ BatchCrash

\* The threads of the batch and of the API requests keep running.
BatchSpec ==
  /\ BatchInit /\ [][BatchNext]_allVars
  /\ WF_allVars(BatchStep)
  /\ \A c \in Calls : WF_allVars(RequestStep(c))

-----------------------------------------------------------------------------
(* core/batch.py, lines 15-17: what is recorded of a batch as complete, and *)
(* charged for it, accounts for every row it received, and every row it     *)
(* counts as processed is stored, billed and audited; the three rows of the *)
(* batch are committed in order, whatever fails and whoever commits them.   *)
BatchIsAccounted ==
  /\ "BATCH_SCORE" \in bdisk => "BATCH_COMPLETED" \in bdisk
  /\ "BATCH_COMPLETED" \in bdisk =>
       /\ "BATCH_RECEIVED" \in bdisk
       /\ Cardinality(batch.processed) + Cardinality(batch.rejected) = batch.submitted
       /\ \A c \in batch.processed : Settled(disk, c)

(* core/batch.py, lines 12-14: "a tenant corrects and resubmits only what   *)
(* failed": as long as no ledger write has failed, a row listed among the   *)
(* rejects has left nothing in the ledger, so that its next decision is its *)
(* first.  (A write that failed after the decision was stored leaves it     *)
(* stored, and perhaps billed, under a reject.)                             *)
RejectsLeaveNothing ==
  faults = 0 => \A c \in batch.rejected : \A row \in view : row.decision # c

(* Every batch that was received ends, whatever becomes of its rows, unless *)
(* the process dies under it.                                               *)
BatchEnds == batch.step # "idle" ~> batch.step \in BatchEnded

(* No exception path of the batch or of a decision keeps the ledger's lock  *)
(* or goes round in circles: whatever was begun ends.                       *)
EverythingEnds == EveryCallEnds /\ BatchEnds

=============================================================================
