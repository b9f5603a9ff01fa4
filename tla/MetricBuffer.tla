---------------------------- MODULE MetricBuffer ----------------------------
(***************************************************************************)
(* The agent's metric exporter: agent/exporter/buffered.go and its file,   *)
(* agent/exporter/persistence.go.  The OpenTelemetry periodic reader hands *)
(* one batch at a time to Export, which first resends what earlier calls   *)
(* could not deliver and then sends the new batch.  Batches that fail are  *)
(* kept in memory, and the whole buffer is written to a file after every   *)
(* change, so that a restarted agent can go on.                            *)
(*                                                                         *)
(* A batch is its number: the n-th collection round.  The reader makes one *)
(* call at a time and calls Shutdown after the last Export, so there is    *)
(* one thread of control, pc; what interleaves with it is the collector's  *)
(* answer and the end of the process.                                      *)
(***************************************************************************)
EXTENDS Naturals, Sequences, SequencesExt

CONSTANTS
  Cap,       \* maxBufferSize, the most batches kept
  MaxBatch,  \* bound: collection rounds in a behaviour
  MaxBoots,  \* bound: times the agent process is started
  Torn       \* content of a file whose writing was cut short

ASSUME CapAssumption   == Cap \in Nat \ {0}
ASSUME BoundAssumption == MaxBatch \in Nat /\ MaxBoots \in Nat
ASSUME TornAssumption  == Torn \notin Seq(Nat)

Batches == 1..MaxBatch
NoBatch == 0

VARIABLES
  pc,         \* where the exporter is: see PCs
  buffer,     \* b.buffer, oldest first
  sent,       \* sentCount of the running flushBuffer
  cur,        \* the batch Export was called with, or NoBatch
  file,       \* owlmon-buffer.json: a sequence (<<>>: no file) or Torn
  \* History: what an observer of the system would write down.
  inSync,     \* the last save that was due reached the disk
  next,       \* number of the next batch to be collected
  delivered,  \* how often the collector stored each batch
  unacked,    \* how often it did so while the exporter saw an error
  evicted,    \* batches dropped because the buffer was full
  orphaned,   \* undelivered batches that went down with a process
  boots       \* processes started so far

exporterVars == <<pc, buffer, sent, cur, file>>
history == <<inSync, next, delivered, unacked, evicted, orphaned, boots>>
vars == <<exporterVars, history>>

\* "down" no process; "idle" between calls; "flush" in flushBuffer's loop;
\* "drop" the loop is over; "flushSave"/"addSave" in saveBufferToFile, called
\* by flushBuffer/addToBuffer; "export" about to send the new batch.
PCs == {"down", "idle", "flush", "drop", "flushSave", "export", "addSave"}

\* What a restarted process would find in the file.
OnDisk(f) == IF f = Torn THEN {} ELSE ToSet(f)

TypeOK ==
  /\ pc \in PCs
  /\ buffer \in Seq(Batches) /\ Len(buffer) <= Cap
  /\ sent \in 0..Len(buffer)
  /\ cur \in Batches \cup {NoBatch}
  /\ file \in Seq(Batches) \cup {Torn}
  /\ inSync \in BOOLEAN
  /\ next \in 1..(MaxBatch + 1)
  /\ delivered \in [Batches -> Nat]
  /\ unacked \in [Batches -> Nat]
  /\ evicted \subseteq Batches
  /\ orphaned \subseteq Batches
  /\ boots \in 0..MaxBoots

Init ==
  /\ pc = "down" /\ buffer = <<>> /\ sent = 0 /\ cur = NoBatch
  /\ file = <<>> /\ inSync = TRUE
  /\ next = 1 /\ boots = 0
  /\ delivered = [b \in Batches |-> 0]
  /\ unacked = [b \in Batches |-> 0]
  /\ evicted = {} /\ orphaned = {}

-----------------------------------------------------------------------------
(* Start of a process: NewBufferedExporter and loadBufferFromFile.  A file *)
(* that does not parse is removed; one that cannot be read is left alone.  *)

NewBufferedExporter ==
  /\ pc = "down" /\ boots < MaxBoots
  /\ pc' = "idle" /\ boots' = boots + 1
  /\ sent' = 0 /\ cur' = NoBatch
  /\ \/ /\ file # Torn
        /\ buffer' = file /\ inSync' = TRUE
        /\ UNCHANGED <<file, orphaned>>
     \/ /\ file = Torn
        /\ buffer' = <<>> /\ file' = <<>> /\ inSync' = TRUE
        /\ UNCHANGED orphaned
     \/ /\ file # <<>>
        /\ buffer' = <<>> /\ inSync' = FALSE
        /\ orphaned' = orphaned \cup {b \in OnDisk(file) : delivered[b] = 0}
        /\ UNCHANGED file
  /\ UNCHANGED <<next, delivered, unacked, evicted>>

-----------------------------------------------------------------------------
(* flushBuffer: resend the buffered batches, oldest first, up to the first *)
(* error, and take off the buffer what was sent.                           *)

\* Entry into flushBuffer: an empty buffer leaves it at once for target.
EnterFlush(target) == pc' = IF buffer = <<>> THEN target ELSE "flush"

\* The process is over: memory is gone and only f is left of it.
EndProcess(f) ==
  /\ pc' = "down" /\ buffer' = <<>> /\ sent' = 0 /\ cur' = NoBatch
  /\ file' = f
  /\ orphaned' = orphaned \cup
       {b \in (ToSet(buffer) \cup {cur}) \ OnDisk(f) :
          b # NoBatch /\ delivered[b] = 0}

\* Answer of the collector to batch b: it may store the batch and yet the
\* exporter sees an error (deadline, lost response).
Stored(b)   == /\ delivered' = [delivered EXCEPT ![b] = @ + 1]
               /\ UNCHANGED unacked
Unstored    == UNCHANGED <<delivered, unacked>>
StoredLate(b) == /\ delivered' = [delivered EXCEPT ![b] = @ + 1]
                 /\ unacked' = [unacked EXCEPT ![b] = @ + 1]

FlushSendOk ==
  /\ pc = "flush" /\ sent < Len(buffer)
  /\ Stored(buffer[sent + 1])
  /\ sent' = sent + 1
  /\ UNCHANGED <<pc, buffer, cur, file, inSync, next, evicted, orphaned, boots>>

FlushSendFails ==
  /\ pc = "flush" /\ sent < Len(buffer)
  /\ Unstored \/ StoredLate(buffer[sent + 1])
  /\ pc' = "drop"
  /\ UNCHANGED <<buffer, sent, cur, file, inSync, next, evicted, orphaned, boots>>

FlushLoopEnds ==
  /\ pc = "flush" /\ sent = Len(buffer)
  /\ pc' = "drop"
  /\ UNCHANGED <<buffer, sent, cur, file, history>>

\* Nothing sent: return without touching buffer or file.
FlushNothingSent ==
  /\ pc = "drop" /\ sent = 0
  /\ IF cur = NoBatch
     THEN EndProcess(file)
     ELSE pc' = "export" /\ UNCHANGED <<buffer, sent, cur, file, orphaned>>
  /\ UNCHANGED <<inSync, next, delivered, unacked, evicted, boots>>

\* Mutants: one batch too many taken off, one too few, the save forgotten.
FlushDropOneMore ==
  /\ pc = "drop" /\ sent > 0
  /\ buffer' = SubSeq(buffer, sent + 2, Len(buffer))
  /\ sent' = 0 /\ pc' = "flushSave"
  /\ UNCHANGED <<cur, file, history>>
FlushDropOneLess ==
  /\ pc = "drop" /\ sent > 0
  /\ buffer' = SubSeq(buffer, sent, Len(buffer))
  /\ sent' = 0 /\ pc' = "flushSave"
  /\ UNCHANGED <<cur, file, history>>
FlushDropNoSave ==
  /\ pc = "drop" /\ sent > 0 /\ cur # NoBatch
  /\ buffer' = SubSeq(buffer, sent + 1, Len(buffer))
  /\ sent' = 0 /\ pc' = "export"
  /\ UNCHANGED <<cur, file, history>>

FlushDropSent ==
  /\ pc = "drop" /\ sent > 0
  /\ buffer' = SubSeq(buffer, sent + 1, Len(buffer))
  /\ sent' = 0 /\ pc' = "flushSave"
  /\ UNCHANGED <<cur, file, history>>

-----------------------------------------------------------------------------
(* saveBufferToFile.  The file is removed, or rewritten in place.  It      *)
(* stays as it was when the batch cannot be marshalled (NaN, Inf) or the   *)
(* file not be opened, and is torn when the write fails half way.          *)

Saved(f, ok) ==
  \/ f = buffer /\ ok = TRUE
  \/ f = file /\ ok = FALSE
  \/ buffer # <<>> /\ f = Torn /\ ok = FALSE

FlushSave ==
  /\ pc = "flushSave"
  /\ \E f \in {buffer, file, Torn}, ok \in BOOLEAN :
       /\ Saved(f, ok)
       /\ inSync' = ok
       /\ IF cur = NoBatch
          THEN EndProcess(f)
          ELSE /\ pc' = "export" /\ file' = f
               /\ UNCHANGED <<buffer, sent, cur, orphaned>>
  /\ UNCHANGED <<next, delivered, unacked, evicted, boots>>

AddSave ==
  /\ pc = "addSave"
  /\ \E f \in {buffer, file, Torn}, ok \in BOOLEAN :
       Saved(f, ok) /\ file' = f /\ inSync' = ok
  /\ pc' = "idle"
  /\ UNCHANGED <<buffer, sent, cur, next, delivered, unacked, evicted,
                 orphaned, boots>>

-----------------------------------------------------------------------------
(* Export and addToBuffer. *)

\* The periodic reader collects a batch and calls Export.
Collect ==
  /\ pc = "idle" /\ next <= MaxBatch
  /\ cur' = next /\ next' = next + 1
  /\ EnterFlush("export")
  /\ UNCHANGED <<buffer, sent, file, inSync, delivered, unacked, evicted,
                 orphaned, boots>>

ExportOk ==
  /\ pc = "export"
  /\ Stored(cur)
  /\ cur' = NoBatch /\ pc' = "idle"
  /\ UNCHANGED <<buffer, sent, file, inSync, next, evicted, orphaned, boots>>

\* Mutants: no eviction, eviction of the newest, insertion at the front.
addWithoutEviction(b) == buffer' = Append(buffer, b) /\ UNCHANGED evicted
addEvictingNewest(b) ==
  IF Len(buffer) >= Cap
  THEN /\ buffer' = Append(Front(buffer), b)
       /\ evicted' = evicted \cup {Last(buffer)}
  ELSE /\ buffer' = Append(buffer, b)
       /\ UNCHANGED evicted
addInFront(b) ==
  IF Len(buffer) >= Cap
  THEN /\ buffer' = <<b>> \o Tail(buffer)
       /\ evicted' = evicted \cup {Head(buffer)}
  ELSE /\ buffer' = <<b>> \o buffer
       /\ UNCHANGED evicted

\* Drop the oldest batch when the buffer is full, then append.
addToBuffer(b) ==
  IF Len(buffer) >= Cap
  THEN /\ buffer' = Append(Tail(buffer), b)
       /\ evicted' = evicted \cup {Head(buffer)}
  ELSE /\ buffer' = Append(buffer, b)
       /\ UNCHANGED evicted

\* Mutant: the batch is buffered and the file not rewritten.
ExportFailsNoSave ==
  /\ pc = "export"
  /\ Unstored \/ StoredLate(cur)
  /\ addToBuffer(cur)
  /\ cur' = NoBatch /\ pc' = "idle"
  /\ UNCHANGED <<sent, file, inSync, next, orphaned, boots>>

ExportFails ==
  /\ pc = "export"
  /\ Unstored \/ StoredLate(cur)
  /\ addToBuffer(cur)
  /\ cur' = NoBatch /\ pc' = "addSave"
  /\ UNCHANGED <<sent, file, inSync, next, orphaned, boots>>

-----------------------------------------------------------------------------
(* End of a process. *)

Shutdown ==
  /\ pc = "idle"
  /\ IF buffer = <<>>
     THEN EndProcess(file)
     ELSE pc' = "flush" /\ UNCHANGED <<buffer, sent, cur, file, orphaned>>
  /\ UNCHANGED <<inSync, next, delivered, unacked, evicted, boots>>

\* Killed at any point; in the middle of os.WriteFile the file is torn.
Crash ==
  /\ pc # "down"
  /\ \/ EndProcess(file)
     \/ pc \in {"flushSave", "addSave"} /\ buffer # <<>> /\ EndProcess(Torn)
  /\ UNCHANGED <<inSync, next, delivered, unacked, evicted, boots>>

Next ==
  \/ NewBufferedExporter
  \/ Collect \/ ExportOk \/ ExportFails \/ AddSave
  \/ FlushSendOk \/ FlushSendFails \/ FlushLoopEnds
  \/ FlushNothingSent \/ FlushDropSent \/ FlushSave
  \/ Shutdown \/ Crash

Spec == Init /\ [][Next]_vars

-----------------------------------------------------------------------------
(* Properties. *)

StrictlyIncreasing(s) == \A i, j \in DOMAIN s : i < j => s[i] < s[j]

\* Where a batch can still be sent from.
Held == IF pc = "down" THEN OnDisk(file) ELSE ToSet(buffer) \cup {cur}

\* Every batch ever collected is accounted for: the collector has it, the
\* agent still holds it, it was evicted from a full buffer, or it went down
\* with a process.  flushBuffer's `b.buffer[sentCount:]` must take off
\* exactly what was sent (buffered.go:87).
NoSilentLoss ==
  \A b \in 1..(next - 1) :
    delivered[b] > 0 \/ b \in Held \cup evicted \cup orphaned

\* A process delivers a batch at most once, but for the errors it was told
\* although the collector had stored the batch: duplicates come only from
\* lost answers and from restarts between a delivery and the save
\* (buffered.go:76-93).
DeliveriesBounded ==
  \A b \in Batches : delivered[b] <= unacked[b] + boots

\* The buffer and the file are in collection order and hold no batch twice,
\* and what is buffered is older than the batch being exported: evictions,
\* prefix drops and reloads never reorder.
BufferInOrder ==
  /\ StrictlyIncreasing(buffer)
  /\ file # Torn => StrictlyIncreasing(file)
  /\ cur # NoBatch => \A i \in DOMAIN buffer : buffer[i] < cur

\* When the last save reached the disk, the file holds exactly the buffer
\* whenever no save is running; both callers save after each change
\* (buffered.go:58-60, 91-93).
FileMirrorsBuffer ==
  inSync /\ pc \notin {"down", "flushSave", "addSave"} => file = buffer

\* A batch is evicted only from a full buffer, and it is the oldest one
\* (buffered.go:50-52).
EvictsOldest ==
  [][\A b \in evicted' \ evicted :
       /\ Len(buffer) = Cap
       /\ \A c \in ToSet(buffer') : b < c]_vars

\* When the disk works, the end of a process outside saveBufferToFile loses
\* nothing but the batch Export is being called with.
OnlyInFlightOrphaned ==
  [][inSync /\ pc \notin {"down", "flushSave", "addSave"}
       => orphaned' \ orphaned \subseteq {cur}]_vars

\* buffered.go:17 says that with a filePath the buffer survives a restart of
\* the agent: a batch the file holds is not lost while the disk works.
SavedBatchSurvives ==
  [][inSync /\ inSync' /\ pc # "down" =>
       (orphaned' \ orphaned) \cap OnDisk(file) = {}]_vars
=============================================================================
