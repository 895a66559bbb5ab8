----------------------------- MODULE KernelLogs -----------------------------
(***************************************************************************)
(* The two readers of kernel records (logs.rs): /dev/kmsg, a ring that is  *)
(* overwritten while it is read, and the journal, asked for what follows a *)
(* cursor.  Both keep the newest records; records are numbered.            *)
(***************************************************************************)
EXTENDS Integers, SequencesExt, Filters

CONSTANTS
  Ring,         \* records the kernel's ring holds
  Reads,        \* reads of one poll of kmsg (100)
  Keep300,      \* records kept, and asked of the journal at once (300)
  MaxRecords    \* bound: records there are

ASSUME KernelLogsAssumption ==
  /\ Ring \in Nat \ {0} /\ Reads \in Nat \ {0} /\ Keep300 \in Nat \ {0} /\ MaxRecords \in Nat

VARIABLES
  written,      \* records written so far
  bad,          \* journal records of another boot, or that do not parse
  position,     \* the next record kmsg would read
  kmsg,         \* KernelLog::events
  kmsg_quality,
  reads,        \* reads left of the poll that is going on
  journalCursor,       \* Journal::cursor; 0: none
  journal,      \* Journal::events
  journal_quality,
  asked,        \* records there were at the last answer (history)
  spoilt        \* whether an answer had a bad record (history)

kmsgVars == <<position, kmsg, kmsg_quality, reads>>
journalVars == <<journalCursor, journal, journal_quality, asked, spoilt>>
logsVars == <<written, bad, kmsgVars, journalVars>>

Newest(s, n) == SubSeq(s, IF Len(s) > n THEN Len(s) - n + 1 ELSE 1, Len(s))
Records(from, to) == [i \in 1..(to - from + 1) |-> from + i - 1]
-----------------------------------------------------------------------------
LogsInit ==
  /\ written = 0 /\ bad = {}
  /\ position = 1 /\ kmsg = <<>> /\ kmsg_quality = "available" /\ reads = 0
  /\ journalCursor = 0 /\ journal = <<>> /\ journal_quality = "warming" /\ asked = 0 /\ spoilt = FALSE

Log(isBad) ==
  /\ written < MaxRecords /\ written' = written + 1
  /\ bad' = IF isBad THEN bad \cup {written + 1} ELSE bad
  /\ UNCHANGED <<kmsgVars, journalVars>>

(* poll of kmsg, a read at a time: the next record; EPIPE when it has been  *)
(* overwritten, which moves to the oldest; nothing yet; another error.      *)
StartPoll ==
  /\ reads = 0 /\ reads' = Reads
  /\ UNCHANGED <<written, bad, position, kmsg, kmsg_quality, journalVars>>

Oldest == IF written > Ring THEN written - Ring + 1 ELSE 1
EndPoll(events) == kmsg' = Newest(events, Keep300) /\ reads' = 0

ReadRecord ==
  /\ reads > 0 /\ position >= Oldest /\ position <= written
  /\ position' = position + 1
  /\ LET events == Append(kmsg, position) IN
     IF reads = 1 THEN EndPoll(events) ELSE kmsg' = events /\ reads' = reads - 1
  /\ UNCHANGED <<written, bad, kmsg_quality, journalVars>>

(* Mutant: lost records are not told.                                       *)
OverwrittenUntold ==
  /\ reads > 0 /\ position < Oldest
  /\ position' = Oldest
  /\ IF reads = 1 THEN EndPoll(kmsg) ELSE reads' = reads - 1 /\ UNCHANGED kmsg
  /\ UNCHANGED <<written, bad, kmsg_quality, journalVars>>

Overwritten ==
  /\ reads > 0 /\ position < Oldest
  /\ position' = Oldest /\ kmsg_quality' = "stale"
  /\ IF reads = 1 THEN EndPoll(kmsg) ELSE reads' = reads - 1 /\ UNCHANGED kmsg
  /\ UNCHANGED <<written, bad, journalVars>>

NothingYet ==
  /\ reads > 0 /\ position > written
  /\ EndPoll(kmsg)
  /\ UNCHANGED <<written, bad, position, kmsg_quality, journalVars>>

ReadError ==
  /\ reads > 0 /\ kmsg_quality' = "error"
  /\ EndPoll(kmsg)
  /\ UNCHANGED <<written, bad, position, journalVars>>
-----------------------------------------------------------------------------
(* Mutant: what a call without a cursor repeats is added again.             *)
UnseenAll(good) == good

Unseen(good) == Filtered(good, {r \in ToSet(good) : ~Contains(journal, r)})

(* journalctl -n after the cursor, or the newest there are: what is not     *)
(* kept yet is added, the cursor moves to the last good record.             *)
JournalAnswers ==
  LET from == IF journalCursor + Keep300 > written THEN journalCursor + 1 ELSE written - Keep300 + 1
      answer == Records(IF journalCursor = 0 /\ written <= Keep300 THEN 1 ELSE from, written)
      good == Filtered(answer, ToSet(answer) \ bad)
      failed == \E r \in ToSet(answer) : r \in bad
  IN  /\ journalCursor' = IF good = <<>> THEN journalCursor ELSE Last(good)
      /\ journal' = Newest(journal \o Unseen(good), Keep300)
      /\ journal_quality' = IF failed THEN "error" ELSE "available"
      /\ asked' = written /\ spoilt' = (spoilt \/ failed)
      /\ UNCHANGED <<written, bad, kmsgVars>>

(* journalctl fails, prints too much or does not end in time.               *)
JournalFails ==
  /\ journal_quality' = "error" /\ journalCursor' = 0
  /\ UNCHANGED <<written, bad, kmsgVars, journal, asked, spoilt>>

LogsNext ==
  \/ \E isBad \in BOOLEAN : Log(isBad)
  \/ StartPoll \/ ReadRecord \/ Overwritten \/ NothingYet \/ ReadError
  \/ JournalAnswers \/ JournalFails
-----------------------------------------------------------------------------
(* A kernel log that is shown as available has every record that was read,  *)
(* up to those too old to keep: nothing was overwritten before it was read. *)
KmsgIsComplete ==
  kmsg_quality = "available" =>
    /\ Newest(kmsg, Keep300) = Newest(Records(1, position - 1), Keep300)
    /\ Len(kmsg) < Keep300 + Reads

(* While the journal has given no record that was refused, what is kept is  *)
(* its newest records at the last answer, each once and in order, whatever  *)
(* calls failed and restarted from no cursor.                               *)
JournalIsComplete ==
  ~spoilt => journal = Newest(Records(1, asked), Keep300)

(* Refused records or not, none is kept twice or out of order.              *)
JournalIsInOrder == \A i, j \in DOMAIN journal : i < j => journal[i] < journal[j]

(* What is kept of the logs is their newest records, each once and in order. *)
RecordsAreKept == KmsgIsComplete /\ JournalIsComplete /\ JournalIsInOrder
=============================================================================
