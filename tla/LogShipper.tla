----------------------------- MODULE LogShipper -----------------------------
(***************************************************************************)
(* The agent's log pipeline: agent/logtail/tailer.go (the buffer and its   *)
(* flush loop), sender.go (one HTTP request per flush), wal.go (the file   *)
(* that survives the process), and the server end of the request.          *)
(*                                                                         *)
(* Collector goroutines push entries at any time, also while a flush is    *)
(* under way; one goroutine flushes.  The client gives up after ten        *)
(* seconds, so a request it counts as failed may be stored all the same,   *)
(* later and out of order.  An entry is its number, in the order in which  *)
(* the collectors read them.                                               *)
(***************************************************************************)
EXTENDS Naturals, Sequences, SequencesExt

CONSTANTS
  Cap,       \* maxBufferSize of tailer.go
  BatchMax,  \* the most entries Send puts into a request
  WalMax,    \* maxWalSize of wal.go
  Torn,      \* content of a WAL whose writing was cut short
  MaxEntry,  \* bound: entries read in a behaviour
  MaxBoots,  \* bound: times the agent process is started
  MaxFaults  \* bound: requests lost, refused or answered too late

ASSUME SizeAssumption ==
  /\ Cap \in Nat \ {0} /\ BatchMax \in Nat \ {0} /\ WalMax \in Nat \ {0}
  /\ WalMax <= Cap
ASSUME BoundAssumption ==
  MaxEntry \in Nat /\ MaxBoots \in Nat /\ MaxFaults \in Nat
ASSUME TornAssumption == Torn \notin Seq(Nat)

Entries == 1..MaxEntry

VARIABLES
  pc,        \* where the flush goroutine is: see PCs
  stopping,  \* the agent's context: "no", "cancelled", "last": in the last flush
  buffer,    \* t.buffer, oldest first
  flight,    \* entries: what flush took off the buffer
  snap,      \* bufCopy: what is to be written to the WAL
  reqNo,     \* number of the latest request
  wal,       \* the WAL file: a sequence (<<>>: no file) or Torn
  next,      \* number of the next entry to be read
  net,       \* requests the server has not handled yet
  reply,     \* the server's answer to the latest request
  stored,    \* how often the server has stored each entry
  acked,     \* entries of requests this process saw succeed
  retries,   \* failed requests that held the entry, as the agent saw it
  boots, faults

agentVars == <<pc, stopping, buffer, flight, snap, reqNo, wal, next>>
serverVars == <<net, reply, stored>>
counters == <<acked, retries, boots, faults>>
vars == <<agentVars, serverVars, counters>>

\* "down" no process; "idle" waiting for the ticker; "waiting" in Send;
\* "saveWal"/"clearWal" about to write/remove the WAL after a failed/
\* successful Send; "done" the flush goroutine has returned.
PCs == {"down", "idle", "waiting", "saveWal", "clearWal", "done"}

StrictlyIncreasing(s) == \A i, j \in DOMAIN s : i < j => s[i] < s[j]

\* The n newest entries of s.
Newest(s, n) == IF Len(s) > n THEN SubSeq(s, Len(s) - n + 1, Len(s)) ELSE s

\* What Send makes of the entries it is given: at most BatchMax, the oldest.
SendPrefix(s) == IF Len(s) > BatchMax THEN SubSeq(s, 1, BatchMax) ELSE s

Readable(f) == IF f = Torn THEN <<>> ELSE f

TypeOK ==
  /\ pc \in PCs /\ stopping \in {"no", "cancelled", "last"}
  /\ buffer \in Seq(Entries) /\ Len(buffer) <= Cap
  /\ flight \in Seq(Entries) /\ Len(flight) <= Cap
  /\ snap \in Seq(Entries)
  /\ wal \in Seq(Entries) \cup {Torn}
  /\ wal # Torn => Len(wal) <= WalMax
  /\ next \in 1..(MaxEntry + 1)
  /\ reqNo \in Nat
  /\ net \subseteq [id : Nat, batch : Seq(Entries)]
  /\ reply \in {"none", "ok", "err"}
  /\ stored \in [Entries -> Nat]
  /\ retries \in [Entries -> Nat]
  /\ acked \subseteq Entries
  /\ boots \in 0..MaxBoots /\ faults \in 0..MaxFaults

Init ==
  /\ pc = "down" /\ stopping = "no"
  /\ buffer = <<>> /\ flight = <<>> /\ snap = <<>> /\ wal = <<>>
  /\ reqNo = 0 /\ next = 1
  /\ net = {} /\ reply = "none"
  /\ stored = [e \in Entries |-> 0]
  /\ retries = [e \in Entries |-> 0]
  /\ acked = {} /\ boots = 0 /\ faults = 0

-----------------------------------------------------------------------------
(* Tailer.Start and the end of the process. *)

\* Mutant: a restarted tailer reads its files from the beginning again.
StartFromBeginning ==
  /\ pc = "down" /\ boots < MaxBoots
  /\ pc' = "idle" /\ stopping' = "no" /\ boots' = boots + 1
  /\ buffer' = Readable(wal) /\ wal' = Readable(wal)
  /\ acked' = {} /\ next' = 1
  /\ UNCHANGED <<flight, snap, reqNo, serverVars, retries, faults>>

\* WAL.Load: a WAL that does not parse is removed, one that cannot be read
\* is left alone and the tailer starts empty.  Files are tailed from their end on.
Start ==
  /\ pc = "down" /\ boots < MaxBoots
  /\ pc' = "idle" /\ stopping' = "no" /\ boots' = boots + 1
  /\ \/ buffer' = Readable(wal) /\ wal' = Readable(wal)
     \/ wal # <<>> /\ buffer' = <<>> /\ UNCHANGED wal
  /\ acked' = {}
  /\ UNCHANGED <<flight, snap, reqNo, next, serverVars, retries, faults>>

\* The process is killed, or exits: startAgent's stop function cancels the
\* context and does not wait for the tailer.
EndProcess ==
  /\ pc # "down"
  /\ pc' = "down" /\ buffer' = <<>> /\ flight' = <<>> /\ snap' = <<>>
  /\ reply' = "none"
  /\ \/ wal' = wal
     \/ pc = "saveWal" /\ wal' = Torn
  /\ UNCHANGED <<stopping, reqNo, next, net, stored, counters>>

Cancel ==
  /\ pc \notin {"down", "done"} /\ stopping = "no"
  /\ stopping' = "cancelled"
  /\ UNCHANGED <<pc, buffer, flight, snap, reqNo, wal, next, serverVars, counters>>

-----------------------------------------------------------------------------
(* Push, and the same code in drainNewLines: a full buffer refuses.  The   *)
(* collectors go on while the flush goroutine is anywhere in flush.        *)

Push ==
  /\ pc # "down" /\ next <= MaxEntry
  /\ buffer' = IF Len(buffer) < Cap THEN Append(buffer, next) ELSE buffer
  /\ next' = next + 1
  /\ UNCHANGED <<pc, stopping, flight, snap, reqNo, wal, serverVars, counters>>

-----------------------------------------------------------------------------
(* flush, called by the ticker and once more when the context is done.     *)

\* A flush begins.  The one for ctx.Done is the last, the ticker may come
\* first; a flush that is under way when the context ends is not the last.
Begin == stopping' \in IF stopping = "no" THEN {"no"} ELSE {"cancelled", "last"}

\* Where flushLoop is after a flush.
Loop(s) == IF s = "last" THEN "done" ELSE "idle"

\* Nothing to send: the WAL is removed.
FlushEmpty ==
  /\ pc = "idle" /\ buffer = <<>>
  /\ Begin /\ pc' = Loop(stopping') /\ wal' = <<>>
  /\ UNCHANGED <<buffer, flight, snap, reqNo, next, serverVars, counters>>

\* Mutant: the entries are copied and stay in the buffer.
FlushCopy ==
  /\ pc = "idle" /\ buffer # <<>>
  /\ Begin /\ pc' = "waiting"
  /\ flight' = buffer
  /\ reqNo' = reqNo + 1 /\ reply' = "none"
  /\ net' = net \cup {[id |-> reqNo + 1, batch |-> SendPrefix(buffer)]}
  /\ UNCHANGED <<buffer, snap, wal, next, stored, counters>>

FlushTake ==
  /\ pc = "idle" /\ buffer # <<>>
  /\ Begin /\ pc' = "waiting"
  /\ flight' = buffer /\ buffer' = <<>>
  /\ reqNo' = reqNo + 1 /\ reply' = "none"
  /\ net' = net \cup {[id |-> reqNo + 1, batch |-> SendPrefix(buffer)]}
  /\ UNCHANGED <<snap, wal, next, stored, counters>>

InNet(n) == \E r \in net : r.id = n

SendSucceeds ==
  /\ pc = "waiting" /\ reply = "ok"
  /\ pc' = "clearWal"
  /\ acked' = acked \cup ToSet(SendPrefix(flight))
  /\ flight' = <<>>
  /\ UNCHANGED <<stopping, buffer, snap, reqNo, wal, next, serverVars,
                 retries, boots, faults>>

\* Mutants: nothing is given up for the entries that came in meanwhile; the
\* returned entries go behind them; the newest of them are given up; they
\* go back only when nothing came in.
RefillOver(back)   == back \o buffer
RefillBehind(back) ==
  IF Cap > Len(buffer) THEN buffer \o Newest(back, Cap - Len(buffer)) ELSE buffer
RefillOldest(back) ==
  LET room == Cap - Len(buffer) IN
  IF Cap > Len(buffer)
  THEN (IF Len(back) > room THEN SubSeq(back, 1, room) ELSE back) \o buffer
  ELSE buffer
RefillIfEmpty(back) == IF buffer = <<>> THEN Newest(back, Cap) ELSE buffer

\* The buffer after a failed Send: what was taken goes back in front, the
\* oldest of it given up where entries that came in meanwhile need the room.
Refill(back) ==
  IF Cap > Len(buffer) THEN Newest(back, Cap - Len(buffer)) \o buffer ELSE buffer

PutBack ==
  /\ pc' = "saveWal"
  /\ buffer' = Refill(flight) /\ snap' = Refill(flight)
  /\ retries' = [e \in Entries |->
       IF e \in ToSet(SendPrefix(flight)) THEN retries[e] + 1 ELSE retries[e]]
  /\ flight' = <<>> /\ reply' = "none"
  /\ UNCHANGED <<stopping, reqNo, wal, next, net, stored, acked, boots>>

\* Mutant: an HTTP client without a timeout waits for a lost request.
SendFailsOnAnswer ==
  /\ pc = "waiting" /\ reply = "err"
  /\ PutBack /\ UNCHANGED faults

\* An error answer, or the client's timeout on a request that is gone.
SendFails ==
  /\ pc = "waiting"
  /\ reply = "err" \/ (reply = "none" /\ ~InNet(reqNo))
  /\ PutBack /\ UNCHANGED faults

\* The client's timeout, or a lost answer, while the request may be stored.
SendTimesOut ==
  /\ pc = "waiting" /\ faults < MaxFaults
  /\ PutBack /\ faults' = faults + 1

-----------------------------------------------------------------------------
(* WAL.Save: the file is rewritten in place or removed.  The removal is    *)
(* taken to succeed (the code ignores its error).                          *)

\* It stays as it is when it cannot be opened, and is torn when the write
\* fails half way; the error is logged.
SaveWal ==
  /\ pc = "saveWal"
  /\ wal' \in {Newest(snap, WalMax), wal, Torn}
  /\ pc' = Loop(stopping) /\ snap' = <<>>
  /\ UNCHANGED <<stopping, buffer, flight, reqNo, next, serverVars, counters>>

\* Mutant: the WAL is kept after a successful Send.
KeepWal ==
  /\ pc = "clearWal"
  /\ pc' = Loop(stopping)
  /\ UNCHANGED <<stopping, buffer, flight, snap, reqNo, wal, next, serverVars, counters>>

ClearWal ==
  /\ pc = "clearWal"
  /\ wal' = <<>> /\ pc' = Loop(stopping)
  /\ UNCHANGED <<stopping, buffer, flight, snap, reqNo, next, serverVars, counters>>

-----------------------------------------------------------------------------
(* The network and the server (LogHandler.Ingest, LogStore.Ingest).        *)

\* The answer reaches the client only if it still waits for this request.
Answer(r, a) == reply' = IF pc = "waiting" /\ r.id = reqNo THEN a ELSE reply

Ingest(r) ==
  /\ net' = net \ {r}
  /\ stored' = [e \in Entries |->
       IF e \in ToSet(r.batch) THEN stored[e] + 1 ELSE stored[e]]
  /\ Answer(r, "ok")
  /\ UNCHANGED <<agentVars, counters>>

\* Refused (key, body, database) or lost on the way.
Refuse(r) ==
  /\ faults < MaxFaults /\ faults' = faults + 1
  /\ net' = net \ {r}
  /\ \/ Answer(r, "err")
     \/ UNCHANGED reply
  /\ UNCHANGED <<agentVars, stored, acked, retries, boots>>

Server == \E r \in net : Ingest(r)

Next ==
  \/ Start \/ EndProcess \/ Cancel
  \/ Push
  \/ FlushEmpty \/ FlushTake \/ SendSucceeds \/ SendFails \/ SendTimesOut
  \/ SaveWal \/ ClearWal
  \/ \E r \in net : Ingest(r) \/ Refuse(r)

Spec == Init /\ [][Next]_vars

\* The ticker fires for ever, Send returns after at most ten seconds, and
\* the server handles what it receives.
FairSpec ==
  /\ Spec
  /\ WF_vars(FlushEmpty) /\ WF_vars(FlushTake)
  /\ WF_vars(SendSucceeds)
  /\ WF_vars(SendFails)
  /\ WF_vars(SaveWal) /\ WF_vars(ClearWal) /\ WF_vars(Server)

-----------------------------------------------------------------------------
(* Properties. *)

\* The places an entry can still reach the server from.
Held(e) ==
  \/ e \in ToSet(buffer) \/ e \in ToSet(flight)
  \/ e \in ToSet(Readable(wal))
  \/ \E r \in net : e \in ToSet(r.batch)

\* Read, never stored, and in no place it could be sent from.
Lost(e) == e < next /\ stored[e] = 0 /\ ~Held(e)

\* Entries are kept in the order in which they were read and never twice:
\* taking them off, putting them back in front of what came in meanwhile,
\* and reloading the WAL all keep it (tailer.go:76, 203-217).
OrderKept ==
  /\ StrictlyIncreasing(flight \o buffer)
  /\ StrictlyIncreasing(snap)
  /\ wal # Torn => StrictlyIncreasing(wal)
  /\ \A i \in DOMAIN buffer : buffer[i] < next

\* The server stores an entry once per process, and once more for each
\* request the agent took for failed (tailer.go:207-226).
StoredBounded == \A e \in Entries : stored[e] <= retries[e] + boots

\* What the server has acknowledged to this process is out of its memory.
\* From the flush that follows on it is out of the WAL too, so that a
\* restart does not send it again (tailer.go:229-230).
AckedNotKept ==
  /\ acked \cap (ToSet(buffer) \cup ToSet(flight)) = {}
  /\ pc = "idle" => acked \cap ToSet(Readable(wal)) = {}

\* An entry is lost only when it is refused by a full buffer, given up to
\* make room for newer ones, cut off a request longer than BatchMax, or held
\* by a process that ends or a WAL that a later process overwrites or tears.
LossHasCause ==
  [][\A e \in Entries : Lost(e)' /\ ~Lost(e) =>
       \/ e = next /\ Len(buffer) = Cap
       \/ pc = "waiting" /\ pc' = "saveWal" /\ Len(flight) + Len(buffer) > Cap
       \/ pc = "waiting" /\ pc' = "clearWal" /\ Len(flight) > BatchMax
       \/ pc' = "down"
       \/ wal' # wal /\ e \in ToSet(Readable(wal)) \ ToSet(buffer)
       \/ net' # net /\ faults' > faults /\ e \notin ToSet(flight)]_vars

\* When a failed Send is put back, what is given up is older than all that
\* is kept, and the buffer is full (tailer.go:212-218).
GivesUpOldest ==
  [][pc = "waiting" /\ pc' = "saveWal" =>
       \A e \in ToSet(flight) \ ToSet(buffer') :
         Len(buffer') = Cap /\ \A k \in ToSet(buffer') : e < k]_vars

\* An agent that is left running ends up with nothing to send, once the
\* network and the server have failed for the last time.
EventuallyDrained ==
  <>[](pc \in {"down", "done"} \/ (buffer = <<>> /\ flight = <<>>))

\* wal.go:14-15 says that the WAL keeps the entries that were not sent.  So a
\* Send that reports success leaves none of the entries it was given unstored.
SuccessMeansStored ==
  [][pc = "waiting" /\ pc' = "clearWal" =>
       \A e \in ToSet(flight) : stored[e] > 0]_vars

\* The pipeline as the ledger of EntryLedger.
Status == [e \in Entries |->
  IF stored[e] > 0 THEN "stored"
  ELSE IF e >= next THEN "unread"
  ELSE IF Held(e) THEN "held" ELSE "lost"]

Ledger == INSTANCE EntryLedger WITH status <- Status
LedgerSpec == Ledger!Spec
=============================================================================
