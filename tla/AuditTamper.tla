----------------------------- MODULE AuditTamper ----------------------------
(***************************************************************************)
(* Tamper evidence: the audit chain while somebody edits the database file *)
(* with other tools, as tests/test_phase3.py does.  The server keeps       *)
(* running: an edit may fall between the SELECT and the INSERT of a        *)
(* record().  An edit of a committed row                                   *)
(*   "altered"   changes what it tells and leaves its hashes alone;        *)
(*   "garbled"   leaves a payload that is not JSON;                        *)
(*   "deleted"   removes the row;                                          *)
(*   "rehashed"  changes what it tells and stores the hash of that: the    *)
(*               SHA-256 of the chain has no key.                          *)
(* An editor who goes on to rewrite the hashes of all later rows as well   *)
(* is not modelled: nothing in the ledger could tell.                      *)
(***************************************************************************)
EXTENDS AuditChain

CONSTANTS
  MaxEdits   \* bound: edits of the file

VARIABLES
  sealed,    \* history: sealed[t][i] is the event whose hash row i of t carries,
             \* and who computed that hash
  edits      \* history: the edits made, oldest first

tamperVars == <<rows, durable, lock, pc, request, link, acknowledged, sealed, edits>>

Seals == [event : Events, by : {"record", "editor"}]
EditKinds == {"altered", "garbled", "deleted", "rehashed"}
Edits == [tenant : Tenants, kind : EditKinds, sequence : Nat, tail : BOOLEAN]

TamperInit == Init /\ sealed = [t \in Tenants |-> << >>] /\ edits = << >>

ProgramStep ==
  /\ Next
  /\ sealed' = [t \in Tenants |-> [i \in 1 .. Len(rows'[t]) |->
                  IF i <= Len(rows[t])
                  THEN sealed[t][i]
                  ELSE [event |-> rows'[t][i].event, by |-> "record"]]]
  /\ UNCHANGED edits

\* Another connection can write only while the server has no row in an open
\* transaction; it sees exactly the committed rows.
FileIsFree == \A t \in Tenants : durable[t] = Len(rows[t])

RecordEdit(t, kind, i) ==
  edits' = Append(edits, [tenant |-> t, kind |-> kind, sequence |-> rows[t][i].sequence,
                          tail |-> i = Len(rows[t])])

\* The row tells e from now on, or nothing that can be parsed.
AlterRow(t, i, e) ==
  /\ FileIsFree
  /\ Len(edits) < MaxEdits
  /\ rows[t][i].event # e
  /\ rows' = [rows EXCEPT ![t][i].event = e]
  /\ RecordEdit(t, IF e = NotJson THEN "garbled" ELSE "altered", i)
  /\ UNCHANGED <<durable, lock, pc, request, link, acknowledged, sealed>>

\* The row as record() would have written it for e behind the same row.
Resealed(t, row, e) ==
  [row EXCEPT !.event = e,
              !.entry_hash = Hash(row.previous_hash, Body(t, row.sequence, e))]

RehashRow(t, i, e) ==
  /\ FileIsFree
  /\ Len(edits) < MaxEdits
  /\ sealed[t][i].event # e
  /\ rows' = [rows EXCEPT ![t][i] = Resealed(t, @, e)]
  /\ sealed' = [sealed EXCEPT ![t][i] = [event |-> e, by |-> "editor"]]
  /\ RecordEdit(t, "rehashed", i)
  /\ UNCHANGED <<durable, lock, pc, request, link, acknowledged>>

Without(s, i) == SubSeq(s, 1, i - 1) \o SubSeq(s, i + 1, Len(s))

DeleteRow(t, i) ==
  /\ FileIsFree
  /\ Len(edits) < MaxEdits
  /\ rows' = [rows EXCEPT ![t] = Without(@, i)]
  /\ sealed' = [sealed EXCEPT ![t] = Without(@, i)]
  /\ durable' = [durable EXCEPT ![t] = @ - 1]
  /\ RecordEdit(t, "deleted", i)
  /\ UNCHANGED <<lock, pc, request, link, acknowledged>>

TamperNext ==
  \/ ProgramStep
  \/ \E t \in Tenants : \E i \in 1 .. Len(rows[t]), e \in Payloads : AlterRow(t, i, e)
  \/ \E t \in Tenants : \E i \in 1 .. Len(rows[t]), e \in Events : RehashRow(t, i, e)
  \/ \E t \in Tenants : \E i \in 1 .. Len(rows[t]) : DeleteRow(t, i)

TamperSpec == TamperInit /\ [][TamperNext]_tamperVars

-----------------------------------------------------------------------------
\* An editor recomputed the hash of the row of t that has this number.
Rehashed(t, sequence) ==
  \E k \in 1 .. Len(edits) :
    /\ edits[k].kind = "rehashed"
    /\ edits[k].tenant = t
    /\ edits[k].sequence = sequence

(* Soundness of a good report: whatever was edited, if verify_chain says a  *)
(* trail is intact then no row is missing between two others, and every     *)
(* row, but those an editor gave a new hash, is word for word what record() *)
(* inserted.                                                                *)
IntactMeansRecorded ==
  \A t \in Tenants :
    Intact(t, rows[t]) =>
      \A i \in 1 .. Len(rows[t]) :
        /\ rows[t][i].sequence = i
        /\ rows[t][i].event = sealed[t][i].event
        /\ sealed[t][i].by = "editor" => Rehashed(t, i)

\* The number of the row at which verify_chain stops after an edit: the altered
\* row itself, or the first row behind the one that was deleted or rehashed.
BreakOf(edit) ==
  IF edit.kind \in {"altered", "garbled"} THEN edit.sequence ELSE edit.sequence + 1

(* Precision of a bad report: after a single edit, and however many events  *)
(* are recorded, rolled back or lost later, verify_chain                    *)
(*   - reports an altered row under its own number;                         *)
(*   - raises, and so never reports, while a row is garbled;                *)
(*   - reports the first row behind a deleted or rehashed one, and misses   *)
(*     neither unless it was the last row.                                  *)
(* docs/RUNBOOK.md:84-85, of rows altered or deleted: "The reported         *)
(* sequence number is where tampering began."  For deleted rows it is not.  *)
BreakIsAtTheEdit ==
  Len(edits) = 1 =>
    LET edit == edits[1]
        t    == edit.tenant
    IN /\ edit.kind = "garbled" <=> Raises(t, rows[t])
       /\ edit.kind = "altered" \/ (edit.kind # "garbled" /\ ~edit.tail)
            => ReportsBreak(t, rows[t])
       /\ ReportsBreak(t, rows[t]) => BrokenAt(t, rows[t]) = BreakOf(edit)

=============================================================================
