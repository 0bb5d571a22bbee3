--------------------------- MODULE DecisionService ---------------------------
(***************************************************************************)
(* POST /v1/applications/decision from intake to answer: Api.decide of     *)
(* api/server.py, Platform.decide of core/pipeline.py and the writes and   *)
(* look-ups they make in core/ledger.py.                                   *)
(*                                                                         *)
(* Every HTTP request ("call") runs in a thread of its own.  It looks its  *)
(* Idempotency-Key up, and either returns the stored decision or makes a   *)
(* new one and writes it in several separately committed steps: the        *)
(* decision, its billing event, one event per partner that answered, the   *)
(* audit row and, last, the key.  There is no transaction around them and  *)
(* no lock from the look-up to the last write: Ledger._lock is taken anew  *)
(* for each write, and readers take no lock at all.                        *)
(***************************************************************************)
EXTENDS Naturals, Sequences, FiniteSets

CONSTANTS
  Calls,         \* HTTP requests; also names the decision a call creates (uuid4)
  Tenants,       \* tenant codes
  Keys,          \* Idempotency-Key values
  NoKey,         \* the header is absent
  Correlations,  \* correlation ids, chosen by the client or generated
  Partners,      \* partners whose answered calls are metered
  NoCall,        \* the holder of a free lock
  MaxFaults,     \* bound: failing INSERTs and COMMITs
  MaxCrashes     \* bound: process crashes

ASSUME ServiceAssumption ==
  /\ NoKey \notin Keys
  /\ NoCall \notin Calls
  /\ Tenants # {} /\ Correlations # {}
  /\ IsFiniteSet(Partners)
  /\ Partners \cap {"decisions", "APPLICATION_DECISION", "audit_events", "idempotency"} = {}
  /\ MaxFaults \in Nat /\ MaxCrashes \in Nat

VARIABLES
  arg,      \* arg[c]: tenant, key and correlation id of a call that has arrived
  pc,       \* the step a call is at
  todo,     \* the ledger writes a call still has to make, in order
  answer,   \* the decision a call returned, or NoCall
  found,    \* the decision id that replay() returned, or NoCall
  lock,     \* the call that holds Ledger._lock
  view,     \* the ledger rows that the shared connection sees
  disk,     \* the committed ledger rows
  clashed,  \* history: tenant and key pairs that two calls used at the same time
  faults,   \* how many writes have failed
  crashes   \* how often the process has crashed

vars == <<arg, pc, todo, answer, found, lock, view, disk, clashed, faults, crashes>>

-----------------------------------------------------------------------------
(* The ledger.  A row belongs to the decision that caused it, from whose    *)
(* call it takes tenant, key and correlation id; tables other than the      *)
(* per-partner billing events hold one row per decision.                    *)

Tables == {"decisions", "APPLICATION_DECISION", "audit_events", "idempotency"} \cup Partners
LedgerRows == [table : Tables, decision : Calls]
Row(table, d) == [table |-> table, decision |-> d]

Args == [tenant : Tenants, key : Keys \cup {NoKey}, correlation : Correlations]

\* SELECT decision_id FROM idempotency WHERE tenant_code = ? AND key = ?
Remembered(rows, tenant, key) ==
  {d \in Calls : /\ Row("idempotency", d) \in rows
                 /\ arg[d].tenant = tenant
                 /\ arg[d].key = key}

\* The decisions of a tenant: get_decision, decisions_for_application, recent_decisions.
DecisionsOf(rows, tenant) ==
  {d \in Calls : Row("decisions", d) \in rows /\ arg[d].tenant = tenant}

\* Mutant: INSERT OR REPLACE, a later decision takes the key over.
Inserted_Replaces(rows, c) ==
  (IF Head(todo[c]) = "idempotency"
   THEN rows \ {Row("idempotency", d) : d \in Remembered(rows, arg[c].tenant, arg[c].key)}
   ELSE rows)
    \cup {Row(Head(todo[c]), c)}

\* The rows after one write: INSERT, except that a key that is already
\* remembered is left as it is (INSERT OR IGNORE).
Inserted(rows, c) ==
  IF Head(todo[c]) = "idempotency" /\ Remembered(rows, arg[c].tenant, arg[c].key) # {}
  THEN rows
  ELSE rows \cup {Row(Head(todo[c]), c)}

\* The billing events for the partners that answered, in order of completion.
PartnerOrders ==
  UNION {{s \in [1 .. n -> Partners] : \A i, j \in 1 .. n : s[i] = s[j] => i = j}
           : n \in 0 .. Cardinality(Partners)}

\* Mutants: the writes in another order, or one of them left out.
KeyRow(c) == IF arg[c].key = NoKey THEN << >> ELSE <<"idempotency">>
WritesFor_KeyFirst(c, order) ==
  KeyRow(c) \o <<"decisions", "APPLICATION_DECISION">> \o order \o <<"audit_events">>
WritesFor_MeterFirst(c, order) ==
  <<"APPLICATION_DECISION", "decisions">> \o order \o <<"audit_events">> \o KeyRow(c)
WritesFor_NoKey(c, order) ==
  <<"decisions", "APPLICATION_DECISION">> \o order \o <<"audit_events">>
WritesFor_BillsAnswersOnly(c, order) ==
  <<"decisions">> \o (IF order = << >> THEN << >> ELSE <<"APPLICATION_DECISION">>) \o order
    \o <<"audit_events">> \o KeyRow(c)

\* All writes of a new decision.
WritesFor(c, order) ==
  <<"decisions", "APPLICATION_DECISION">> \o order \o <<"audit_events">>
    \o (IF arg[c].key = NoKey THEN << >> ELSE <<"idempotency">>)

-----------------------------------------------------------------------------
Init ==
  /\ arg = [c \in Calls |-> CHOOSE a \in Args : TRUE]
  /\ pc = [c \in Calls |-> "new"]
  /\ todo = [c \in Calls |-> << >>]
  /\ answer = [c \in Calls |-> NoCall]
  /\ found = [c \in Calls |-> NoCall]
  /\ lock = NoCall
  /\ view = {} /\ disk = {} /\ clashed = {}
  /\ faults = 0 /\ crashes = 0

Ended == {"answered", "error", "lost", "rejected"}
Running(c) == pc[c] \notin Ended \cup {"new"}

\* The calls under way that carry the tenant and the key of `a`.
Rivals(a) == {d \in Calls : /\ Running(d) /\ a.key # NoKey
                            /\ arg[d].tenant = a.tenant /\ arg[d].key = a.key}

\* The request passes dispatch and intake validation.
Arrive(c, a) ==
  /\ pc[c] = "new"
  /\ arg' = [arg EXCEPT ![c] = a]
  /\ pc' = [pc EXCEPT ![c] = IF a.key = NoKey THEN "decide" ELSE "lookup"]
  /\ clashed' = clashed \cup (IF Rivals(a) = {} THEN {} ELSE {<<a.tenant, a.key>>})
  /\ UNCHANGED <<todo, answer, found, lock, view, disk, faults, crashes>>

\* Unknown product, invalid application: 4xx before anything is looked up.
Reject(c) ==
  /\ pc[c] = "new"
  /\ pc' = [pc EXCEPT ![c] = "rejected"]
  /\ UNCHANGED <<arg, todo, answer, found, lock, view, disk, clashed, faults, crashes>>

\* ledger.replay
Lookup(c) ==
  /\ pc[c] = "lookup"
  /\ LET known == Remembered(view, arg[c].tenant, arg[c].key)
     IN IF known = {}
        THEN pc' = [pc EXCEPT ![c] = "decide"] /\ UNCHANGED found
        ELSE /\ pc' = [pc EXCEPT ![c] = "fetch"]
             /\ \E d \in known : found' = [found EXCEPT ![c] = d]
  /\ UNCHANGED <<arg, todo, answer, lock, view, disk, clashed, faults, crashes>>

Return(c, d) ==
  /\ pc' = [pc EXCEPT ![c] = "answered"]
  /\ answer' = [answer EXCEPT ![c] = d]

\* ledger.get_decision of the key's decision; if it is not there, decide anew.
Fetch(c) ==
  /\ pc[c] = "fetch"
  /\ IF found[c] \in DecisionsOf(view, arg[c].tenant)
     THEN Return(c, found[c])
     ELSE pc' = [pc EXCEPT ![c] = "decide"] /\ UNCHANGED answer
  /\ UNCHANGED <<arg, todo, found, lock, view, disk, clashed, faults, crashes>>

\* Retrieval, scoring, affordability, policy: no ledger access, any subset of
\* the partners answers.
Decide(c) ==
  /\ pc[c] = "decide"
  /\ \E order \in PartnerOrders : todo' = [todo EXCEPT ![c] = WritesFor(c, order)]
  /\ pc' = [pc EXCEPT ![c] = "write"]
  /\ UNCHANGED <<arg, answer, found, lock, view, disk, clashed, faults, crashes>>

\* Ledger._lock is taken and the row inserted.
Write(c) ==
  /\ pc[c] = "write"
  /\ lock = NoCall
  /\ lock' = c
  /\ view' = Inserted(view, c)
  /\ pc' = [pc EXCEPT ![c] = "commit"]
  /\ UNCHANGED <<arg, todo, answer, found, disk, clashed, faults, crashes>>

\* The commit succeeds: on to the next write, or to the answer.
Commit(c) ==
  /\ pc[c] = "commit"
  /\ lock' = NoCall
  /\ disk' = view
  /\ todo' = [todo EXCEPT ![c] = Tail(@)]
  /\ pc' = [pc EXCEPT ![c] = IF Len(todo[c]) = 1 THEN "reply" ELSE "write"]
  /\ UNCHANGED <<arg, answer, found, view, clashed, faults, crashes>>

\* 200 with the new decision.
Reply(c) ==
  /\ pc[c] = "reply"
  /\ Return(c, c)
  /\ UNCHANGED <<arg, todo, found, lock, view, disk, clashed, faults, crashes>>

\* Mutant: the lock stays taken.
WriteFails_KeepsLock(c) ==
  /\ faults < MaxFaults
  /\ faults' = faults + 1
  /\ pc[c] = "commit"
  /\ todo' = [todo EXCEPT ![c] = << >>]
  /\ pc' = [pc EXCEPT ![c] = "error"]
  /\ UNCHANGED <<arg, answer, found, lock, view, disk, clashed, crashes>>

\* INSERT or COMMIT raises: the caller gets 500 and nothing is undone, unless
\* SQLite itself rolled the open transaction back.
WriteFails(c) ==
  /\ faults < MaxFaults
  /\ faults' = faults + 1
  /\ \/ pc[c] = "write" /\ lock = NoCall
     \/ pc[c] = "commit"
  /\ lock' = NoCall
  /\ view' = view \/ view' = disk
  /\ todo' = [todo EXCEPT ![c] = << >>]
  /\ pc' = [pc EXCEPT ![c] = "error"]
  /\ UNCHANGED <<arg, answer, found, disk, clashed, crashes>>

\* Mutant: the restarted process opens an empty ledger.
Crash_ForgetsLedger ==
  /\ crashes < MaxCrashes
  /\ crashes' = crashes + 1
  /\ pc' = [c \in Calls |-> IF Running(c) THEN "lost" ELSE pc[c]]
  /\ todo' = [c \in Calls |-> << >>]
  /\ lock' = NoCall
  /\ view' = {}
  /\ UNCHANGED <<arg, answer, found, disk, clashed, faults>>

\* The process dies and is restarted on the committed rows.
Crash ==
  /\ crashes < MaxCrashes
  /\ crashes' = crashes + 1
  /\ pc' = [c \in Calls |-> IF Running(c) THEN "lost" ELSE pc[c]]
  /\ todo' = [c \in Calls |-> << >>]
  /\ lock' = NoCall
  /\ view' = disk
  /\ UNCHANGED <<arg, answer, found, disk, clashed, faults>>

CallStep(c) ==
  \/ Lookup(c)
  \/ Fetch(c)
  \/ Decide(c)
  \/ Write(c)
  \/ Commit(c)
  \/ Reply(c)
  \/ WriteFails(c)

Next ==
  \/ \E c \in Calls, a \in Args : Arrive(c, a)
  \/ \E c \in Calls : Reject(c)
  \/ \E c \in Calls : CallStep(c)
  \/ Crash

\* A request thread keeps running; nobody is obliged to send a request.
Spec == Init /\ [][Next]_vars /\ \A c \in Calls : WF_vars(CallStep(c))

-----------------------------------------------------------------------------
TypeOK ==
  /\ arg \in [Calls -> Args]
  /\ pc \in [Calls -> {"new", "lookup", "fetch", "decide", "write", "commit", "reply"} \cup Ended]
  /\ todo \in [Calls -> Seq(Tables)]
  /\ answer \in [Calls -> Calls \cup {NoCall}]
  /\ found \in [Calls -> Calls \cup {NoCall}]
  /\ lock \in Calls \cup {NoCall}
  /\ disk \subseteq view /\ view \subseteq LedgerRows
  /\ clashed \subseteq Tenants \X Keys
  /\ faults \in 0 .. MaxFaults /\ crashes \in 0 .. MaxCrashes

\* Decision d has its decision row, its billing event and its audit row.
Settled(rows, d) ==
  \A table \in {"decisions", "APPLICATION_DECISION", "audit_events"} : Row(table, d) \in rows

(* core/pipeline.py, lines 20-21: a decision that a POST returned, new or   *)
(* replayed, is committed together with its billing event and its audit     *)
(* row, whatever was read before it was committed and whatever fails.       *)
AnsweredIsSettled ==
  \A c \in Calls : pc[c] = "answered" => Settled(disk, answer[c])

(* No billing event, audit row or key outlives its decision: what is on     *)
(* disk for a decision always includes everything written before, so that   *)
(* a tenant is never charged for a decision that does not exist.            *)
NothingWithoutItsDecision ==
  \A row \in disk :
    /\ Row("decisions", row.decision) \in disk
    /\ row.table \in Partners \cup {"audit_events", "idempotency"} =>
         Row("APPLICATION_DECISION", row.decision) \in disk
    /\ row.table = "idempotency" => Row("audit_events", row.decision) \in disk

(* All calls that were answered from the idempotency table for one key of   *)
(* one tenant were given a decision made for that tenant and key, and the   *)
(* same one unless something failed.  (Look-ups read rows that are not      *)
(* committed: when the commit of a key fails, a replay may have returned    *)
(* its decision before, and another key row takes its place.)               *)
Replayed(c) == pc[c] = "answered" /\ answer[c] # c

ReplaysAgree ==
  \A c \in Calls : Replayed(c) =>
    /\ arg[answer[c]].tenant = arg[c].tenant /\ arg[answer[c]].key = arg[c].key
    /\ faults = 0 /\ crashes = 0 => \A d \in Calls :
         Replayed(d) /\ arg[d].tenant = arg[c].tenant /\ arg[d].key = arg[c].key
           => answer[d] = answer[c]

\* Two calls with the same Idempotency-Key of the same tenant.
SameKey(c, d) ==
  arg[c].key # NoKey /\ arg[c].tenant = arg[d].tenant /\ arg[c].key = arg[d].key

(* A client that waits for the answer before it repeats a key gets no       *)
(* second decision, however its calls interleave with everybody else's; it  *)
(* rests on the key being remembered before the answer is sent.  (An answer *)
(* that is an error, or that a crash kept from coming, does not count.)     *)
OncePerSerialKey ==
  faults = 0 /\ crashes = 0 => \A c, d \in Calls :
    /\ SameKey(c, d) /\ <<arg[c].tenant, arg[c].key>> \notin clashed
    /\ Row("decisions", c) \in disk /\ Row("decisions", d) \in disk
    => c = d

(* api/server.py, lines 22-23: "a repeated Idempotency-Key returns the      *)
(* original decision rather than creating a second one - and is not billed  *)
(* twice", without a word about when it is repeated.                        *)
BilledOncePerKey ==
  \A c, d \in Calls :
    /\ SameKey(c, d)
    /\ Row("APPLICATION_DECISION", c) \in disk /\ Row("APPLICATION_DECISION", d) \in disk
    => c = d

(* core/pipeline.py, lines 20-21: "an invoice line and an audit trail always    *)
(* exist for work performed": when nothing is running and nothing has       *)
(* failed, no decision on disk lacks its billing event or its audit row.    *)
WorkIsBilledAndAudited ==
  faults = 0 /\ crashes = 0 /\ (\A c \in Calls : ~Running(c)) =>
    \A d \in Calls : Row("decisions", d) \in disk => Settled(disk, d)

(* Every request that was accepted gets an answer or an error, unless the   *)
(* process dies under it.                                                   *)
EveryCallEnds == \A c \in Calls : Running(c) ~> pc[c] \in Ended

=============================================================================
