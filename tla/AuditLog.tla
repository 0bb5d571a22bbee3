------------------------------ MODULE AuditLog ------------------------------
(***************************************************************************)
(* What the audit trail of core/ledger.py promises, without the database,  *)
(* the hash chain, the lock or the threads: one log per tenant that is     *)
(* only ever extended, and an acknowledgement (the return value of         *)
(* Ledger.record) that is given only for an event which is in the log, at  *)
(* the sequence number the caller was told, for good.                      *)
(***************************************************************************)
EXTENDS Naturals, Sequences

CONSTANTS
  Tenants,   \* tenant codes, each with a log of its own
  Events     \* what can be recorded

VARIABLES
  log,            \* log[t]: the durable events of tenant t, oldest first
  acknowledged    \* what record() has returned: [tenant, sequence, event]

Receipts == [tenant : Tenants, sequence : Nat, event : Events]

\* `later` keeps everything `earlier` holds and may add to its end.
Extends(earlier, later) ==
  /\ Len(earlier) <= Len(later)
  /\ \A i \in 1 .. Len(earlier) : later[i] = earlier[i]

\* The receipt describes an event that the log really holds.
Honours(logs, receipt) ==
  /\ receipt.sequence \in 1 .. Len(logs[receipt.tenant])
  /\ logs[receipt.tenant][receipt.sequence] = receipt.event

Init ==
  /\ log = [t \in Tenants |-> << >>]
  /\ acknowledged = {}

\* One commit makes any number of waiting events durable at once and
\* acknowledges at most the events it (or an earlier commit) made durable.
Grow ==
  /\ log' \in [Tenants -> Seq(Events)]
  /\ \A t \in Tenants : Extends(log[t], log'[t])
  /\ acknowledged \subseteq acknowledged'
  /\ \A receipt \in acknowledged' \ acknowledged : Honours(log', receipt)

Spec == Init /\ [][Grow]_<<log, acknowledged>>

=============================================================================
