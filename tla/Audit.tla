-------------------------------- MODULE Audit --------------------------------
(***************************************************************************)
(* The Audit context: one partition of the audit ledger, its chain of      *)
(* digests, and what is exported and verified of it                        *)
(* (src/audit/service.ts).                                                 *)
(*                                                                         *)
(* A command is one step, as in Organization.  A root digest stands for    *)
(* what went into it, one entry after the other from the digest of nothing *)
(* on: hashes that collide are left out, and what entries say.             *)
(***************************************************************************)
EXTENDS Integers, Sequences, SequencesExt

CONSTANTS Entry, Export, Verification  \* ids

NoExport == [from |-> 0, to |-> 0]

\* Lists of entries that a client may take for the contents of the partition.
Contents == {s \in UNION {[1 .. n -> Entry] : n \in 0 .. 2} : IsInjective(s)}

VARIABLE partition  \* the snapshot of AuditPartition

TypeOK ==
  /\ partition.status \in {"ABSENT", "OPEN", "SEALED", "ARCHIVED"}
  /\ partition.lifecycleEpoch \in 0 .. 2
  /\ partition.entries \in Seq(Entry) /\ partition.rootDigest \in Seq(Entry)
  /\ partition.exports \in [Export -> [from: Nat, to: Nat]]
  /\ DOMAIN partition.verifications \subseteq Verification

Init ==
  partition = [status |-> "ABSENT", lifecycleEpoch |-> 0, entries |-> <<>>, rootDigest |-> <<>>,
               exports |-> [x \in Export |-> NoExport], verifications |-> <<>>]

-----------------------------------------------------------------------------

\* sha256({previous, entry})
digest(previous, entry) == Append(previous, entry)

\* Defect: a partition that was sealed takes entries again.
AppendAuditEntryLate(e) ==
  /\ partition.status # "ARCHIVED"
  /\ ~Contains(partition.entries, e)
  /\ partition' = [partition EXCEPT
       !.status = IF @ = "ABSENT" THEN "OPEN" ELSE @,
       !.entries = Append(@, e), !.rootDigest = digest(@, e)]

\* The first entry makes the partition.
AppendAuditEntry(e) ==
  /\ partition.status \in {"ABSENT", "OPEN"}
  /\ ~Contains(partition.entries, e)
  /\ partition' = [partition EXCEPT
       !.status = "OPEN", !.entries = Append(@, e), !.rootDigest = digest(@, e)]

SealAuditPartition(expectedCount) ==
  /\ partition.status = "OPEN" /\ Len(partition.entries) = expectedCount
  /\ partition' = [partition EXCEPT !.status = "SEALED", !.lifecycleEpoch = @ + 1]

CreateAuditExport(x, from, to) ==
  /\ partition.status = "SEALED" /\ to <= Len(partition.entries)
  /\ partition.exports[x] = NoExport
  /\ partition' = [partition EXCEPT !.exports[x] = [from |-> from, to |-> to]]

\* Of what a client holds the contents to be; an earlier verification of the
\* same id gives way.
VerifyIntegrity(v, expected) ==
  /\ partition.status = "SEALED"
  /\ partition' = [partition EXCEPT !.verifications =
       [w \in DOMAIN @ \cup {v} |->
          IF w = v THEN [expected |-> expected, actual |-> partition.rootDigest,
                         valid |-> expected = partition.rootDigest]
          ELSE @[w]]]

ArchiveAuditPartition ==
  /\ partition.status = "SEALED"
  /\ partition' = [partition EXCEPT !.status = "ARCHIVED", !.lifecycleEpoch = @ + 1]

Next ==
  \/ \E e \in Entry : AppendAuditEntry(e)
  \/ \E n \in 1 .. 3 : SealAuditPartition(n)
  \/ \E x \in Export, from, to \in 1 .. 3 : from <= to /\ CreateAuditExport(x, from, to)
  \/ \E v \in Verification, expected \in Contents : VerifyIntegrity(v, expected)
  \/ ArchiveAuditPartition

-----------------------------------------------------------------------------
(* Properties *)

\* The ledger is evidence: the root commits to the entries in their order and
\* nothing else; every export lies within them, and every verification that was
\* recorded, however long ago, still tells whether the client had the contents
\* right that the partition holds now ("sealing requires an exact entry count
\* and freezes the ledger", docs/audit-context.md).
LedgerIsEvidence ==
  /\ partition.rootDigest = partition.entries
  /\ \A x \in Export : partition.exports[x].to <= Len(partition.entries)
  /\ \A v \in DOMAIN partition.verifications :
       LET verification == partition.verifications[v] IN
       verification.valid <=> verification.expected = partition.entries
=============================================================================
