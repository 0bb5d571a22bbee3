------------------------- MODULE ReconciliationProofs -------------------------
(***************************************************************************)
(* Ledger.reconcile and Ledger.usage beside any number of decisions.  The  *)
(* argument: a billing event has its decision committed, rows of a call    *)
(* keep its tenant and correlation id, and while nothing fails nothing     *)
(* that a SELECT has read is taken back.                                   *)
(***************************************************************************)
EXTENDS Reconciliation, DecisionServiceProofs

-----------------------------------------------------------------------------
(* The reads change nothing for the decisions: whatever the reader does,    *)
(* the service takes one of its own steps or none.                          *)
LEMMA ReadersChangeNothing == [ReconNext]_reconVars => [Next]_vars
BY DEF ReconNext, ServiceStep, ReadUsage, ReadDecisions, ReadMeters, reconVars, vars

\* What holds of the service holds beside the reader.
LedgerInv == ServiceInv /\ KeyInv

LEMMA LedgerInvHolds == ReconSpec => []LedgerInv
<1>1. ReconInit => LedgerInv
  BY ServiceInit, KeyInit DEF ReconInit, LedgerInv
<1>2. LedgerInv /\ [ReconNext]_reconVars => LedgerInv'
  <2> SUFFICES ASSUME LedgerInv, [ReconNext]_reconVars PROVE LedgerInv'
    OBVIOUS
  <2>1. [Next]_vars
    BY ReadersChangeNothing
  <2>2. TypeOK' /\ ServiceInv'
    BY <2>1, ServiceTypes, ServiceStepKeeps DEF LedgerInv
  <2> QED BY <2>1, <2>2, KeyedStep, KeysStayUnique, OneStaysAtATime DEF LedgerInv, KeyInv
<1> QED BY <1>1, <1>2, PTL DEF ReconSpec

(* A billing event that the connection sees has its decision committed.     *)
LEMMA BilledIsDecided ==
  ASSUME LedgerInv, NEW c \in Calls, Row("APPLICATION_DECISION", c) \in view
  PROVE  Row("decisions", c) \in disk /\ Row("decisions", c) \in view
<1>1. Prepared("APPLICATION_DECISION", c)
  BY DEF LedgerInv, ServiceInv, Backed, Row
<1> QED BY <1>1 DEF Prepared, LedgerInv, ServiceInv, TypeOK

(* A call that has a row has arrived.                                       *)
LEMMA RowsHaveArrived ==
  ASSUME LedgerInv, NEW c \in Calls, NEW table, Row(table, c) \in view
  PROVE  pc[c] # "new"
BY DEF LedgerInv, KeyInv, CallKeyed, Fresh, Row

-----------------------------------------------------------------------------
(* Ledger.reconcile: the verdict on what is committed lists exactly the     *)
(* decisions that were not billed, as long as correlation ids differ.       *)
THEOREM VerdictsAreExact == ReconSpec => []VerdictIsExact
<1>1. LedgerInv => VerdictIsExact
  <2> SUFFICES ASSUME LedgerInv, NEW t \in Tenants, DistinctCorrelations(t)
               PROVE  /\ Verdict(disk, t).unmetered = {arg[d].correlation : d \in Unbilled(disk, t)}
                      /\ Verdict(disk, t).orphan_meters = {}
                      /\ Verdict(disk, t).balanced <=> Unbilled(disk, t) = {}
    BY DEF VerdictIsExact
  <2> DEFINE decisions == DecisionCorrelations(disk, t)
             metered == MeteredCorrelations(disk, t)
  <2>1. /\ Verdict(disk, t).unmetered = decisions \ metered
        /\ Verdict(disk, t).orphan_meters = metered \ decisions
        /\ Verdict(disk, t).balanced <=> decisions = metered
    BY DEF Verdict, Report
  <2>2. disk \subseteq view
    BY DEF LedgerInv, ServiceInv, TypeOK
  <2>3. metered \subseteq decisions
    BY <2>2, BilledIsDecided DEF MeteredCorrelations, DecisionCorrelations, DecisionsOf
  <2>4. ASSUME NEW c \in DecisionsOf(disk, t), NEW d \in Calls, arg[d].tenant = t,
               Row("APPLICATION_DECISION", d) \in disk, arg[c].correlation = arg[d].correlation
        PROVE  c = d
    <3>1. c \in Calls /\ arg[c].tenant = t /\ pc[c] # "new" /\ pc[d] # "new"
      BY <2>2, <2>4, RowsHaveArrived DEF DecisionsOf
    <3> QED BY <2>4, <3>1 DEF DistinctCorrelations
  <2>5. decisions \ metered = {arg[d].correlation : d \in Unbilled(disk, t)}
    <3>1. ASSUME NEW k \in decisions \ metered
          PROVE  k \in {arg[d].correlation : d \in Unbilled(disk, t)}
      BY DEF DecisionCorrelations, MeteredCorrelations, DecisionsOf, Unbilled
    <3>2. ASSUME NEW d \in Unbilled(disk, t)
          PROVE  arg[d].correlation \in decisions \ metered
      BY <2>4 DEF DecisionCorrelations, MeteredCorrelations, Unbilled
    <3> QED BY <3>1, <3>2
  <2>6. decisions = metered <=> Unbilled(disk, t) = {}
    <3>1. decisions = metered <=> decisions \ metered = {}
      BY <2>3
    <3> QED BY <2>5, <3>1
  <2>7. Verdict(disk, t).balanced <=> Unbilled(disk, t) = {}
    BY <2>1, <2>6
  <2>8. Verdict(disk, t).orphan_meters = {}
    BY <2>1, <2>3
  <2>9. Verdict(disk, t).unmetered = {arg[d].correlation : d \in Unbilled(disk, t)}
    BY <2>1, <2>5
  <2> QED BY <2>7, <2>8, <2>9
<1> QED BY <1>1, LedgerInvHolds, PTL

-----------------------------------------------------------------------------
(* What the reader has read, as long as nothing has failed.                 *)

\* The sum is that of the billing events of decisions that can be read.
Covered(t, billed) ==
  \E S \in SUBSET DecisionsOf(view, t) : billed = Cardinality(S)

\* What the reader has summed up is covered by the decisions, first by those
\* that can be read, then by those that were.
ReaderInv ==
  /\ reader \in [step : {"idle", "decisions", "meters"}, tenant : Tenants,
                 billed : Nat, decisions : SUBSET Correlations]
  /\ faults = 0 /\ reader.step = "decisions" => Covered(reader.tenant, reader.billed)
  /\ faults = 0 /\ reader.step = "meters" =>
       /\ reader.decisions \subseteq DecisionCorrelations(view, reader.tenant)
       /\ DistinctCorrelations(reader.tenant) => reader.billed <= Cardinality(reader.decisions)

(* Decisions that the connection sees stay, with their correlation ids,     *)
(* while nothing fails and the process does not die; and correlation ids    *)
(* that differ have always differed.                                        *)
LEMMA ReadsStayTrue ==
  ASSUME LedgerInv, [Next]_vars, faults' = 0, crashes' = crashes, NEW t
  PROVE  /\ faults = 0
         /\ DecisionsOf(view, t) \subseteq DecisionsOf(view, t)'
         /\ DecisionCorrelations(view, t) \subseteq DecisionCorrelations(view, t)'
         /\ DistinctCorrelations(t)' => DistinctCorrelations(t)
<1>1. TypeOK' /\ ServiceInv /\ KeyInv /\ TypeOK
  BY ServiceTypes DEF LedgerInv, ServiceInv
<1>2. \A d \in Calls : pc[d] # "new" => arg'[d] = arg[d]
  BY <1>1, StepFrame
<1>3. faults = 0 /\ view \subseteq view'
  <2> USE ServiceAssumption
  <2>1. ASSUME NEW c \in Calls, NEW a \in Args, Arrive(c, a) PROVE UNCHANGED <<view, faults>>
    BY <2>1 DEF Arrive
  <2>2. ASSUME NEW c \in Calls, Reject(c) \/ Lookup(c) \/ Fetch(c) \/ Decide(c) \/ Commit(c) \/ Reply(c)
        PROVE  UNCHANGED <<view, faults>>
    BY <2>2 DEF Reject, Lookup, Fetch, Decide, Commit, Reply
  <2>3. ASSUME NEW c \in Calls, Write(c) PROVE UNCHANGED faults /\ view \subseteq view'
    BY <2>3, InsertedRows DEF Write
  <2>4. ASSUME NEW c \in Calls, WriteFails(c) PROVE FALSE
    BY <1>1, <2>4 DEF WriteFails, TypeOK
  <2>5. ~Crash
    BY <1>1 DEF Crash, TypeOK
  <2>6. CASE UNCHANGED vars
    BY <2>6 DEF vars
  <2> QED BY <2>1, <2>2, <2>3, <2>4, <2>5, <2>6 DEF Next, CallStep
<1>4. \A d \in DecisionsOf(view, t) : d \in Calls /\ pc[d] # "new" /\ d \in DecisionsOf(view, t)'
                                       /\ arg'[d] = arg[d]
  BY <1>2, <1>3, RowsHaveArrived DEF DecisionsOf
<1>5. DecisionCorrelations(view, t) \subseteq DecisionCorrelations(view, t)'
  BY <1>4 DEF DecisionCorrelations
<1>6. \A d \in Calls : pc[d] # "new" => pc'[d] # "new"
  <2>1. ASSUME NEW c \in Calls, NEW a \in Args, Arrive(c, a)
        PROVE  \A d \in Calls : pc[d] # "new" => pc'[d] # "new"
    BY <1>1, <2>1 DEF Arrive, TypeOK
  <2>2. ASSUME NEW c \in Calls, Reject(c) \/ CallStep(c)
        PROVE  \A d \in Calls : pc[d] # "new" => pc'[d] # "new"
    BY <1>1, <2>2 DEF Reject, CallStep, Lookup, Fetch, Decide, Write, Commit, Reply, WriteFails, Return, TypeOK
  <2>3. ~Crash
    BY <1>1 DEF Crash, TypeOK
  <2>4. CASE UNCHANGED vars
    BY <2>4 DEF vars
  <2> QED BY <2>1, <2>2, <2>3, <2>4 DEF Next
<1>7. DistinctCorrelations(t)' => DistinctCorrelations(t)
  BY <1>2, <1>6 DEF DistinctCorrelations
<1> QED BY <1>3, <1>4, <1>5, <1>7

(* Decisions whose correlation ids differ have as many of them.             *)
LEMMA AsManyCorrelations ==
  ASSUME LedgerInv, NEW t, DistinctCorrelations(t), NEW S \in SUBSET DecisionsOf(view, t)
  PROVE  Cardinality(S) <= Cardinality(DecisionCorrelations(view, t))
<1> DEFINE all == DecisionsOf(view, t)
           ids == DecisionCorrelations(view, t)
           f == [d \in all |-> arg[d].correlation]
<1>1. IsFiniteSet(all)
  BY ReconAssumption, FS_Subset DEF DecisionsOf
<1>2. \A d \in all : d \in Calls /\ pc[d] # "new" /\ arg[d].tenant = t
  BY RowsHaveArrived DEF DecisionsOf
<1>3. f \in Bijection(all, ids)
  <2>1. f \in [all -> ids]
    BY DEF DecisionCorrelations
  <2>2. \A c, d \in all : f[c] = f[d] => c = d
    BY <1>2 DEF DistinctCorrelations
  <2>3. \A k \in ids : \E d \in all : f[d] = k
    BY DEF DecisionCorrelations
  <2> QED BY <2>1, <2>2, <2>3 DEF Bijection, Injection, Surjection, IsInjective
<1>4. Cardinality(ids) = Cardinality(all)
  BY <1>1, <1>3, FS_Bijection DEF ExistsBijection
<1>5. Cardinality(S) <= Cardinality(all)
  BY <1>1, FS_Subset
<1> QED BY <1>4, <1>5

(* GET /v1/usage reads nothing before the first request.                    *)
LEMMA NoReaderIsIdle == NoReader.step = "idle" /\ NoReader \in [step : {"idle", "decisions", "meters"}, tenant : Tenants, billed : Nat, decisions : SUBSET Correlations]
<1>1. (CHOOSE t \in Tenants : TRUE) \in Tenants
  BY ServiceAssumption
<1> QED BY <1>1 DEF NoReader

(* Ledger.usage: what it sums up is billed for decisions that can be read.  *)
LEMMA BilledQuantityIsCovered ==
  ASSUME LedgerInv, NEW t
  PROVE  BilledQuantity(view, t) \in Nat /\ Covered(t, BilledQuantity(view, t))
<1> DEFINE S == {c \in Calls : Row("APPLICATION_DECISION", c) \in view /\ arg[c].tenant = t}
<1>1. S \in SUBSET DecisionsOf(view, t)
  BY BilledIsDecided DEF DecisionsOf
<1>2. Cardinality(S) \in Nat
  BY ReconAssumption, FS_Subset, FS_CardinalityType
<1> QED BY <1>1, <1>2 DEF BilledQuantity, Covered

(* Each SELECT of a report finds what the one before it has prepared.       *)
LEMMA ReaderStep == LedgerInv /\ ReaderInv /\ [ReconNext]_reconVars => ReaderInv'
<1> SUFFICES ASSUME LedgerInv, ReaderInv, [ReconNext]_reconVars PROVE ReaderInv'
  OBVIOUS
<1>1. ASSUME reader' = NoReader PROVE ReaderInv'
  BY <1>1, NoReaderIsIdle DEF ReaderInv
<1>2. ASSUME reader' = reader, crashes' = crashes, [Next]_vars PROVE ReaderInv'
  <2>1. ASSUME faults' = 0, NEW t \in Tenants, t = reader.tenant PROVE ReaderInv'
    <3>1. /\ faults = 0
          /\ DecisionsOf(view, t) \subseteq DecisionsOf(view, t)'
          /\ DecisionCorrelations(view, t) \subseteq DecisionCorrelations(view, t)'
          /\ DistinctCorrelations(t)' => DistinctCorrelations(t)
      BY <1>2, <2>1, ReadsStayTrue
    <3>2. reader.step = "decisions" => Covered(t, reader.billed)'
      BY <1>2, <2>1, <3>1 DEF ReaderInv, Covered
    <3>3. reader.step = "meters" =>
            /\ reader.decisions \subseteq DecisionCorrelations(view, t)'
            /\ DistinctCorrelations(t)' => reader.billed <= Cardinality(reader.decisions)
      BY <2>1, <3>1 DEF ReaderInv
    <3> QED BY <1>2, <2>1, <3>2, <3>3 DEF ReaderInv
  <2>2. CASE faults' # 0
    BY <1>2, <2>2 DEF ReaderInv
  <2>3. reader.tenant \in Tenants
    BY DEF ReaderInv
  <2> QED BY <2>1, <2>2, <2>3
<1>3. CASE ServiceStep
  BY <1>1, <1>2, <1>3 DEF ServiceStep
<1>4. ASSUME NEW t \in Tenants, ReadUsage(t) PROVE ReaderInv'
  <2>1. /\ UNCHANGED vars /\ reader' = [NoReader EXCEPT !.step = "decisions", !.tenant = t,
                                                       !.billed = BilledQuantity(view, t)]
    BY <1>4 DEF ReadUsage
  <2>2. /\ reader' \in [step : {"idle", "decisions", "meters"}, tenant : Tenants, billed : Nat,
                        decisions : SUBSET Correlations]
        /\ reader'.step = "decisions" /\ reader'.tenant = t /\ reader'.billed = BilledQuantity(view, t)
    BY <2>1, NoReaderIsIdle, BilledQuantityIsCovered
  <2>3. Covered(reader.tenant, reader.billed)'
    BY <2>1, <2>2, BilledQuantityIsCovered DEF Covered, DecisionsOf, vars
  <2> QED BY <2>2, <2>3 DEF ReaderInv
<1>5. ASSUME NEW t \in Tenants, t = reader.tenant, ReadDecisions PROVE ReaderInv'
  <2> DEFINE ids == DecisionCorrelations(view, t)
  <2>1. /\ UNCHANGED vars /\ reader.step = "decisions"
        /\ reader' = [reader EXCEPT !.step = "meters", !.decisions = ids]
    BY <1>5 DEF ReadDecisions
  <2>2. ids \subseteq Correlations
    BY DEF DecisionCorrelations, DecisionsOf, LedgerInv, ServiceInv, TypeOK, Args
  <2>3. /\ reader' \in [step : {"idle", "decisions", "meters"}, tenant : Tenants, billed : Nat,
                        decisions : SUBSET Correlations]
        /\ reader'.step = "meters" /\ reader'.tenant = t /\ reader'.billed = reader.billed
        /\ reader'.decisions = ids
    BY <1>5, <2>1, <2>2 DEF ReaderInv
  <2>4. ids = DecisionCorrelations(view, t)' /\ (DistinctCorrelations(t)' <=> DistinctCorrelations(t))
    BY <2>1 DEF vars, DecisionCorrelations, DecisionsOf, DistinctCorrelations
  <2>5. faults = 0 /\ DistinctCorrelations(t) => reader.billed <= Cardinality(ids)
    BY <1>5, <2>1, AsManyCorrelations DEF ReaderInv, Covered
  <2> QED BY <2>1, <2>3, <2>4, <2>5 DEF ReaderInv, vars
<1>6. CASE ReadMeters
  BY <1>1, <1>6 DEF ReadMeters
<1>7. CASE UNCHANGED reconVars
  BY <1>2, <1>7 DEF reconVars, vars
<1>8. reader.tenant \in Tenants
  BY DEF ReaderInv
<1> QED BY <1>3, <1>4, <1>5, <1>6, <1>7, <1>8 DEF ReconNext

(* Api.usage: leakage is reported of real decisions only, orphans only for  *)
(* decisions that came between the reads, and no more is billed than is     *)
(* shown, for any number of decisions made meanwhile.                       *)
THEOREM ReportsAreReal == ReconSpec => ReportIsReal
<1>1. ReconInit => ReaderInv
  BY NoReaderIsIdle DEF ReconInit, ReaderInv
<1>2. LedgerInv /\ ReaderInv /\ [ReconNext]_reconVars =>
        [report' # report =>
           /\ faults = 0 /\ DistinctCorrelations(report'.tenant) => report'.billed <= report'.decisions
           /\ faults = 0 => \A k \in report'.unmetered :
                \E d \in Unbilled(view, report'.tenant) : arg[d].correlation = k
           /\ \A k \in report'.orphan_meters :
                k \in DecisionCorrelations(view, report'.tenant) \ reader.decisions]_reconVars
  <2> SUFFICES ASSUME LedgerInv, ReaderInv, [ReconNext]_reconVars, report' # report
               PROVE  /\ faults = 0 /\ DistinctCorrelations(report'.tenant) => report'.billed <= report'.decisions
                      /\ faults = 0 => \A k \in report'.unmetered :
                           \E d \in Unbilled(view, report'.tenant) : arg[d].correlation = k
                      /\ \A k \in report'.orphan_meters :
                           k \in DecisionCorrelations(view, report'.tenant) \ reader.decisions
    OBVIOUS
  <2> DEFINE t == reader.tenant
             metered == MeteredCorrelations(view, t)
  <2>1. reader.step = "meters" /\ report' = Report(t, reader.billed, reader.decisions, metered)
    BY DEF ReconNext, ServiceStep, ReadUsage, ReadDecisions, ReadMeters, reconVars
  <2>2. /\ report'.tenant = t /\ report'.billed = reader.billed
        /\ report'.decisions = Cardinality(reader.decisions)
        /\ report'.unmetered = reader.decisions \ metered
        /\ report'.orphan_meters = metered \ reader.decisions
    BY <2>1 DEF Report
  <2>3. metered \subseteq DecisionCorrelations(view, t)
    BY BilledIsDecided DEF MeteredCorrelations, DecisionCorrelations, DecisionsOf
  <2>4. ASSUME NEW k \in DecisionCorrelations(view, t) \ metered
        PROVE  \E d \in Unbilled(view, t) : arg[d].correlation = k
    BY DEF DecisionCorrelations, MeteredCorrelations, DecisionsOf, Unbilled
  <2>5. faults = 0 => \A k \in reader.decisions \ metered : \E d \in Unbilled(view, t) : arg[d].correlation = k
    BY <2>1, <2>4 DEF ReaderInv
  <2> QED BY <2>1, <2>2, <2>3, <2>5 DEF ReaderInv
<1> QED BY <1>1, <1>2, ReaderStep, LedgerInvHolds, PTL DEF ReconSpec, ReportIsReal

=============================================================================
