------------------------------- MODULE Ledger -------------------------------
(***************************************************************************)
(* The cross-invocation trial ledger: one JSONL file that every command    *)
(* given --ledger appends one record to and reads the trial count of.      *)
(*                                                                         *)
(* The file is a sequence of fragments, one per append. A fragment is the  *)
(* text that reached the disk: "whole" says that the JSON text is complete *)
(* and "ended" that the newline behind it was written too. A crash inside  *)
(* the append leaves a fragment that lacks one or both.                    *)
(***************************************************************************)
EXTENDS Naturals, Sequences, FiniteSets, FiniteSetsExt, Functions

CONSTANTS MaxTrials,   \* the most trials one invocation records
          MaxRecords   \* bound on the appends of one behaviour, and on the
                       \* trials run before the last research command

ASSUME LedgerAssumption == MaxTrials \in Nat \ {0} /\ MaxRecords \in Nat

VARIABLE file          \* the fragments, in the order they were appended

Fragment == [trials : 1 .. MaxTrials, whole : BOOLEAN, ended : BOOLEAN]

\* A line starts at the first fragment and behind every newline.
Starts(f) == {i \in DOMAIN f : i = 1 \/ f[i - 1].ended}

\* A line parses when it is one complete record: what is glued to a torn
\* record, or to one that lacks its newline, is not JSON any more.
Parses(f, i) == f[i].whole /\ (f[i].ended \/ i = Len(f))

\* load raises on a malformed line unless it is the last one.
Readable(f) == \A i \in Starts(f) : Parses(f, i) \/ \A j \in Starts(f) : j <= i

Records(f) == {i \in Starts(f) : Parses(f, i)}

CumulativeTrials(f) == SumFunctionOnSet([i \in DOMAIN f |-> f[i].trials], Records(f))

Appended(f, n) == Append(f, [trials |-> n, whole |-> TRUE, ended |-> TRUE])

\* What a crash inside the append can leave of the line.
Torn(f, n) ==
  {f} \union {Append(f, [trials |-> n, whole |-> w, ended |-> FALSE]) : w \in BOOLEAN}

LedgerInit == file = <<>>

AppendRecord == \E n \in 1 .. MaxTrials : file' = Appended(file, n)

CrashInAppend == \E n \in 1 .. MaxTrials : file' \in Torn(file, n)

LedgerNext == Len(file) < MaxRecords /\ (AppendRecord \/ CrashInAppend)

LedgerSpec == LedgerInit /\ [][LedgerNext]_file

-----------------------------------------------------------------------------
\* The module docstring of ledger.py on a process killed inside an append: "a
\* process killed mid-append leaves the file a *prefix* of what it would have
\* been, never a corrupted middle", so load never refuses a file that only
\* append has written.
NeverACorruptedMiddle == Readable(file)
=============================================================================
