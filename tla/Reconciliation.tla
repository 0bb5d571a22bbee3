---------------------------- MODULE Reconciliation ----------------------------
(***************************************************************************)
(* GET /v1/usage of api/server.py: Ledger.usage and Ledger.reconcile of     *)
(* core/ledger.py, called one after the other while decisions are being     *)
(* made.  usage() sums up the billing events; reconcile() compares two SETS *)
(* of correlation ids, that of the tenant's decisions and that of its       *)
(* APPLICATION_DECISION billing events.  The three SELECTs take no lock.    *)
(***************************************************************************)
EXTENDS DecisionService

\* Up to any moment finitely many requests have come.
ASSUME ReconAssumption == IsFiniteSet(Calls)

VARIABLES
  reader,   \* the request under way: its step, its tenant and what it has read
  report    \* the last answer: what it bills and lists, and of which tenant

reconVars == <<vars, reader, report>>

\* SELECT correlation_id FROM decisions WHERE tenant_code = ?
DecisionCorrelations(rows, t) == {arg[d].correlation : d \in DecisionsOf(rows, t)}

\* SELECT SUM(quantity) FROM metering_events, the line of APPLICATION_DECISION:
\* every event has quantity 1.  (The lines of other event types and the amounts,
\* quantity times price, add nothing to it.)
BilledQuantity(rows, t) ==
  Cardinality({c \in Calls : Row("APPLICATION_DECISION", c) \in rows /\ arg[c].tenant = t})

\* Mutant: any row of the decision counts as its billing event.
MeteredCorrelations_AnyRow(rows, t) ==
  {arg[d].correlation : d \in {c \in Calls : /\ \E row \in rows : row.decision = c
                                            /\ arg[c].tenant = t}}

\* SELECT correlation_id FROM metering_events ... 'APPLICATION_DECISION'
MeteredCorrelations(rows, t) ==
  {arg[d].correlation : d \in {c \in Calls : /\ Row("APPLICATION_DECISION", c) \in rows
                                            /\ arg[c].tenant = t}}

\* Mutant: the two differences are swapped.
Report_Swapped(t, billed, decisions, metered) ==
  [tenant        |-> t,
   billed        |-> billed,
   decisions     |-> Cardinality(decisions),
   unmetered     |-> metered \ decisions,
   orphan_meters |-> decisions \ metered,
   balanced      |-> decisions = metered]

Report(t, billed, decisions, metered) ==
  [tenant        |-> t,
   billed        |-> billed,
   decisions     |-> Cardinality(decisions),
   unmetered     |-> decisions \ metered,
   orphan_meters |-> metered \ decisions,
   balanced      |-> decisions = metered]

NoReader ==
  [step |-> "idle", tenant |-> CHOOSE t \in Tenants : TRUE, billed |-> 0, decisions |-> {}]
EmptyReport == Report(NoReader.tenant, 0, {}, {})

ReconInit == Init /\ reader = NoReader /\ report = EmptyReport

\* usage
ReadUsage(t) ==
  /\ reader.step = "idle"
  /\ reader' = [NoReader EXCEPT !.step = "decisions", !.tenant = t,
                                !.billed = BilledQuantity(view, t)]
  /\ UNCHANGED <<vars, report>>

\* reconcile, the decisions
ReadDecisions ==
  /\ reader.step = "decisions"
  /\ reader' = [reader EXCEPT !.step = "meters",
                              !.decisions = DecisionCorrelations(view, reader.tenant)]
  /\ UNCHANGED <<vars, report>>

\* reconcile, the billing events, and the answer
ReadMeters ==
  /\ reader.step = "meters"
  /\ report' = Report(reader.tenant, reader.billed, reader.decisions,
                      MeteredCorrelations(view, reader.tenant))
  /\ reader' = NoReader
  /\ UNCHANGED vars

\* A crash also ends a request that is under way.
ServiceStep ==
  /\ Next
  /\ reader' = IF crashes' = crashes THEN reader ELSE NoReader
  /\ UNCHANGED report

ReconNext ==
  \/ ServiceStep
  \/ \E t \in Tenants : ReadUsage(t)
  \/ ReadDecisions
  \/ ReadMeters

ReconSpec == ReconInit /\ [][ReconNext]_reconVars

-----------------------------------------------------------------------------
\* What reconcile() would say of rows that nobody is changing.
Verdict(rows, t) == Report(t, BilledQuantity(rows, t), DecisionCorrelations(rows, t), MeteredCorrelations(rows, t))

\* The decisions of a tenant that were never billed.
Unbilled(rows, t) ==
  {d \in DecisionsOf(rows, t) : Row("APPLICATION_DECISION", d) \notin rows}

\* No two calls of the tenant came with the same correlation id.
DistinctCorrelations(t) ==
  \A c, d \in Calls :
    /\ pc[c] # "new" /\ arg[c].tenant = t /\ pc[d] # "new" /\ arg[d].tenant = t
    /\ arg[c].correlation = arg[d].correlation
    => c = d

(* Revenue leakage is reported for real decisions only: a correlation id    *)
(* listed as unmetered belongs, at that moment, to a decision without a     *)
(* billing event.  It rests on the order of the two reads, decisions first, *)
(* and on no write having failed: a decision that was read and then rolled  *)
(* back is listed too.  And what docs/RUNBOOK.md, lines 70-71, calls        *)
(* orphan_meters, "billing events with no decision", is never caused by the *)
(* program: whatever fails, an orphan is reported only for a decision that  *)
(* does exist and was stored between the two reads.  Nor does the report    *)
(* bill for more decisions than it shows, as long as no correlation id is   *)
(* used twice and no write failed: the invoice is read first.               *)
ReportIsReal ==
  [][report' # report =>
       /\ faults = 0 /\ DistinctCorrelations(report'.tenant) => report'.billed <= report'.decisions
       /\ faults = 0 => \A k \in report'.unmetered :
            \E d \in Unbilled(view, report'.tenant) : arg[d].correlation = k
       /\ \A k \in report'.orphan_meters :
            k \in DecisionCorrelations(view, report'.tenant) \ reader.decisions]_reconVars

(* As long as no correlation id is used twice, the ledger's verdict on what *)
(* is committed is exact, also after crashes: it is balanced precisely if   *)
(* every decision was billed, and it lists precisely the unbilled ones.     *)
VerdictIsExact ==
  \A t \in Tenants : DistinctCorrelations(t) =>
    /\ Verdict(disk, t).unmetered = {arg[d].correlation : d \in Unbilled(disk, t)}
    /\ Verdict(disk, t).orphan_meters = {}
    /\ Verdict(disk, t).balanced <=> Unbilled(disk, t) = {}

=============================================================================
