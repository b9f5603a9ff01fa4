------------------------- MODULE MetricBufferProofs -------------------------
(***************************************************************************)
(* Proofs that the properties of MetricBuffer hold for every capacity of   *)
(* the buffer, every number of batches and every number of restarts.       *)
(*                                                                         *)
(* TypeInv and Order are inductive together.  On top of them Mirror,       *)
(* Counted and Kept are each inductive by themselves; they strengthen      *)
(* FileMirrorsBuffer, DeliveriesBounded and NoSilentLoss with what has to  *)
(* be known about the batches of the running flush.                        *)
(***************************************************************************)
EXTENDS MetricBuffer, SequenceTheorems, TLAPS

-----------------------------------------------------------------------------
(* The inductive invariants. *)

\* loadBufferFromFile does not cut to the limit: the file has to obey it.
Fits(f) == f # Torn => f \in Seq(Batches) /\ Len(f) <= Cap
TypeInv ==
  /\ TypeOK
  /\ Fits(file)
  /\ pc = "export" => cur # NoBatch

Below(s, n) == \A i \in DOMAIN s : s[i] < n

Order ==
  /\ StrictlyIncreasing(buffer) /\ Below(buffer, next)
  /\ file # Torn => StrictlyIncreasing(file) /\ Below(file, next)
  /\ cur # NoBatch => cur < next /\ Below(buffer, cur)

\* What this process may still send has been delivered once less than the
\* bound of DeliveriesBounded; what is not collected yet never.
Pending(b) == delivered[b] + 1 <= unacked[b] + boots
Counted ==
  /\ DeliveriesBounded
  /\ \A b \in Batches : b >= next => delivered[b] = 0
  /\ pc # "down" => boots > 0
  /\ pc \notin {"flush", "drop"} => sent = 0
  /\ \A i \in DOMAIN buffer : i > sent => Pending(buffer[i])
  /\ cur # NoBatch => Pending(cur)

\* The batches flushBuffer is about to take off have been delivered, and
\* between two calls no batch is in the reader's hands.
Kept ==
  /\ NoSilentLoss
  /\ pc \in {"idle", "addSave"} => cur = NoBatch
  /\ \A i \in DOMAIN buffer : i <= sent => delivered[buffer[i]] > 0

-----------------------------------------------------------------------------
(* Sequences of batches. *)

\* What appending does to a sequence (addToBuffer, buffered.go:53).
LEMMA AppendFacts ==
  ASSUME NEW s \in Seq(Batches), NEW b \in Batches
  PROVE  /\ Append(s, b) \in Seq(Batches)
         /\ Len(Append(s, b)) = Len(s) + 1
         /\ DOMAIN Append(s, b) = 1..(Len(s) + 1)
         /\ \A i \in 1..Len(s) : Append(s, b)[i] = s[i]
         /\ Append(s, b)[Len(s) + 1] = b
  OBVIOUS

\* What dropping the oldest batch does (addToBuffer, buffered.go:51).
LEMMA TailFacts ==
  ASSUME NEW s \in Seq(Batches), s # <<>>
  PROVE  /\ Tail(s) \in Seq(Batches)
         /\ Len(Tail(s)) = Len(s) - 1
         /\ DOMAIN Tail(s) = 1..(Len(s) - 1)
         /\ \A i \in 1..(Len(s) - 1) : Tail(s)[i] = s[i + 1]
         /\ Head(s) \in Batches /\ Head(s) = s[1]
         /\ 1 \in DOMAIN s /\ Len(s) > 0
  OBVIOUS

\* What taking off the first n batches does (flushBuffer, buffered.go:87).
LEMMA DropFacts ==
  ASSUME NEW s \in Seq(Batches), NEW n \in 0..Len(s)
  PROVE  /\ SubSeq(s, n + 1, Len(s)) \in Seq(Batches)
         /\ Len(SubSeq(s, n + 1, Len(s))) = Len(s) - n
         /\ DOMAIN SubSeq(s, n + 1, Len(s)) = 1..(Len(s) - n)
         /\ \A i \in 1..(Len(s) - n) : SubSeq(s, n + 1, Len(s))[i] = s[n + i]
  OBVIOUS

\* The elements are numbers.
LEMMA ElementFacts ==
  ASSUME NEW s \in Seq(Batches)
  PROVE  /\ Len(s) \in Nat /\ DOMAIN s = 1..Len(s)
         /\ \A i \in 1..Len(s) : s[i] \in Batches /\ s[i] \in Nat
<1>1. Len(s) \in Nat /\ DOMAIN s = 1..Len(s)  OBVIOUS
<1>2. \A i \in 1..Len(s) : s[i] \in Batches  OBVIOUS
<1>3. \A b \in Batches : b \in Nat  BY DEF Batches
<1>. QED BY <1>1, <1>2, <1>3

-----------------------------------------------------------------------------
(* Type correctness. *)

LEMMA InitType == Init => TypeInv
  BY CapAssumption, BoundAssumption
     DEF Init, TypeInv, TypeOK, Fits, PCs, Batches, NoBatch

\* The end of a process, from whichever action, and the file it leaves.
LEMMA EndProcessType ==
  ASSUME TypeInv, NEW f, EndProcess(f)
  PROVE  /\ pc' = "down" /\ buffer' = <<>> /\ sent' = 0 /\ cur' = NoBatch
         /\ file' = f /\ orphaned' \subseteq Batches
  BY DEF EndProcess, TypeInv, TypeOK, ToSet, NoBatch

LEMMA StoredType ==
  ASSUME TypeInv, NEW b \in Batches,
         Unstored \/ StoredLate(b) \/ Stored(b)
  PROVE  delivered' \in [Batches -> Nat] /\ unacked' \in [Batches -> Nat]
<1>. delivered \in [Batches -> Nat] /\ unacked \in [Batches -> Nat]
  BY DEF TypeInv, TypeOK
<1>1. CASE Unstored  BY <1>1 DEF Unstored
<1>2. CASE StoredLate(b)  BY <1>2 DEF StoredLate
<1>3. CASE Stored(b)  BY <1>3 DEF Stored
<1>. QED BY <1>1, <1>2, <1>3

LEMMA addToBufferType ==
  ASSUME TypeInv, NEW b \in Batches, addToBuffer(b)
  PROVE  /\ buffer' \in Seq(Batches) /\ Len(buffer') <= Cap
         /\ Len(buffer) <= Len(buffer') /\ evicted' \subseteq Batches
<1>. buffer \in Seq(Batches) /\ Len(buffer) <= Cap /\ evicted \subseteq Batches
  BY DEF TypeInv, TypeOK
<1>1. CASE Len(buffer) >= Cap
  <2>. DEFINE t == Tail(buffer)
  <2>1. /\ t \in Seq(Batches) /\ Len(t) = Len(buffer) - 1
        /\ Head(buffer) \in Batches
    BY <1>1, CapAssumption, TailFacts
  <2>2. Append(t, b) \in Seq(Batches) /\ Len(Append(t, b)) = Len(t) + 1
    BY <2>1, AppendFacts
  <2>3. buffer' = Append(t, b) /\ evicted' = evicted \cup {Head(buffer)}
    BY <1>1 DEF addToBuffer
  <2>. HIDE DEF t
  <2>. QED BY <2>1, <2>2, <2>3
<1>2. CASE Len(buffer) < Cap
  <2>1. /\ Append(buffer, b) \in Seq(Batches)
        /\ Len(Append(buffer, b)) = Len(buffer) + 1
    BY AppendFacts
  <2>2. buffer' = Append(buffer, b) /\ evicted' = evicted
    BY <1>2, CapAssumption DEF addToBuffer
  <2>. QED BY <1>2, <2>1, <2>2, CapAssumption
<1>. QED BY <1>1, <1>2, CapAssumption

\* A save leaves the buffer, the old file or a torn one.
LEMMA SavedType ==
  ASSUME TypeInv, NEW f, NEW ok, Saved(f, ok)
  PROVE  f \in Seq(Batches) \cup {Torn} /\ Fits(f) /\ ok \in BOOLEAN
  BY DEF Saved, Fits, TypeInv, TypeOK

LEMMA NextType == TypeInv /\ [Next]_vars => TypeInv'
<1>. SUFFICES ASSUME TypeInv, [Next]_vars PROVE TypeInv'
  OBVIOUS
<1>. USE CapAssumption, BoundAssumption
<1>. TypeOK /\ Fits(file) /\ (pc = "export" => cur # NoBatch)
  BY DEF TypeInv
<1>. USE DEF TypeInv, TypeOK, PCs, NoBatch
<1>1. CASE NewBufferedExporter
  <2>1. /\ boots < MaxBoots /\ boots' = boots + 1
        /\ pc' = "idle" /\ sent' = 0 /\ cur' = NoBatch
        /\ UNCHANGED <<next, delivered, unacked, evicted>>
    BY <1>1 DEF NewBufferedExporter
  <2>4. inSync' \in BOOLEAN
    BY <1>1 DEF NewBufferedExporter
  <2>5. boots' \in 0..MaxBoots
    BY <2>1
  <2>2. /\ buffer' \in Seq(Batches) /\ Len(buffer') <= Cap
        /\ file' = file \/ file' = <<>>
    <3>1. CASE file # Torn /\ buffer' = file /\ UNCHANGED file
      BY <3>1 DEF Fits
    <3>2. CASE buffer' = <<>> /\ file' \in {file, <<>>}
      BY <3>2
    <3>. QED BY <1>1, <3>1, <3>2 DEF NewBufferedExporter
  <2>3. orphaned' \subseteq Batches
    <3>1. OnDisk(file) \subseteq Batches
      BY DEF OnDisk, ToSet
    <3>. QED BY <1>1, <3>1 DEF NewBufferedExporter
  <2>6. file' \in Seq(Batches) \cup {Torn} /\ Fits(file)'
    <3>1. CASE file' = file  BY <3>1 DEF Fits
    <3>2. CASE file' = <<>>
      <4>1. <<>> \in Seq(Batches) /\ Len(<<>>) = 0  OBVIOUS
      <4>. QED BY <3>2, <4>1 DEF Fits
    <3>. QED BY <2>2, <3>1, <3>2
  <2>7. sent' \in 0..Len(buffer')
    BY <2>1, <2>2
  <2>. QED BY <2>1, <2>2, <2>3, <2>4, <2>5, <2>6, <2>7
<1>2. CASE Collect
  <2>1. cur' \in Batches /\ next' \in 1..(MaxBatch + 1) /\ cur' # 0
    BY <1>2 DEF Collect, Batches
  <2>2. pc' \in {"export", "flush"}
    BY <1>2 DEF Collect, EnterFlush
  <2>. QED BY <1>2, <2>1, <2>2 DEF Collect, Fits
<1>3. CASE ExportOk
  <2>1. cur \in Batches /\ Stored(cur)  BY <1>3 DEF ExportOk
  <2>2. delivered' \in [Batches -> Nat] /\ unacked' \in [Batches -> Nat]
    BY <2>1, StoredType
  <2>. QED BY <1>3, <2>2 DEF ExportOk
<1>4. CASE ExportFails
  <2>1. cur \in Batches /\ (Unstored \/ StoredLate(cur)) /\ addToBuffer(cur)
    BY <1>4 DEF ExportFails
  <2>2. /\ buffer' \in Seq(Batches) /\ Len(buffer') <= Cap
        /\ Len(buffer) <= Len(buffer') /\ evicted' \subseteq Batches
    BY <2>1, addToBufferType
  <2>3. delivered' \in [Batches -> Nat] /\ unacked' \in [Batches -> Nat]
    BY <2>1, StoredType
  <2>. QED BY <1>4, <2>2, <2>3 DEF ExportFails
<1>5. CASE AddSave
  <2>1. PICK f \in {buffer, file, Torn}, ok \in BOOLEAN :
          Saved(f, ok) /\ file' = f /\ inSync' = ok
    BY <1>5 DEF AddSave
  <2>2. file' \in Seq(Batches) \cup {Torn} /\ Fits(file') /\ inSync' \in BOOLEAN
    BY <2>1, SavedType
  <2>. QED BY <1>5, <2>2 DEF AddSave, Fits
<1>6. CASE FlushSendOk
  <2>1. buffer[sent + 1] \in Batches /\ Stored(buffer[sent + 1])
    BY <1>6 DEF FlushSendOk
  <2>2. delivered' \in [Batches -> Nat] /\ unacked' \in [Batches -> Nat]
    BY <2>1, StoredType
  <2>3. sent' \in 0..Len(buffer')
    BY <1>6 DEF FlushSendOk
  <2>. QED BY <1>6, <2>2, <2>3 DEF FlushSendOk, Fits
<1>7. CASE FlushSendFails
  <2>1. /\ buffer[sent + 1] \in Batches
        /\ Unstored \/ StoredLate(buffer[sent + 1])
    BY <1>7 DEF FlushSendFails
  <2>2. delivered' \in [Batches -> Nat] /\ unacked' \in [Batches -> Nat]
    BY <2>1, StoredType
  <2>. QED BY <1>7, <2>2 DEF FlushSendFails
<1>8. CASE FlushLoopEnds
  BY <1>8 DEF FlushLoopEnds, history
<1>9. CASE FlushNothingSent
  <2>1. CASE cur = NoBatch
    <3>1. EndProcess(file)  BY <1>9, <2>1 DEF FlushNothingSent
    <3>2. /\ pc' = "down" /\ buffer' = <<>> /\ sent' = 0 /\ cur' = NoBatch
          /\ file' = file /\ orphaned' \subseteq Batches
      BY <3>1, EndProcessType
    <3>. QED BY <1>9, <3>2 DEF FlushNothingSent
  <2>2. CASE cur # NoBatch
    BY <1>9, <2>2 DEF FlushNothingSent
  <2>. QED BY <2>1, <2>2
<1>10. CASE FlushDropSent
  <2>1. buffer' \in Seq(Batches) /\ Len(buffer') <= Cap
    <3>1. /\ SubSeq(buffer, sent + 1, Len(buffer)) \in Seq(Batches)
          /\ Len(SubSeq(buffer, sent + 1, Len(buffer))) = Len(buffer) - sent
      BY DropFacts
    <3>. QED BY <1>10, <3>1 DEF FlushDropSent
  <2>2. pc' = "flushSave" /\ sent' = 0 /\ UNCHANGED <<cur, file, history>>
    BY <1>10 DEF FlushDropSent
  <2>. QED BY <2>1, <2>2 DEF history, Fits
<1>11. CASE FlushSave
  <2>1. PICK f \in {buffer, file, Torn}, ok \in BOOLEAN :
          /\ Saved(f, ok) /\ inSync' = ok
          /\ IF cur = NoBatch THEN EndProcess(f)
             ELSE /\ pc' = "export" /\ file' = f
                  /\ UNCHANGED <<buffer, sent, cur, orphaned>>
    BY <1>11 DEF FlushSave
  <2>2. f \in Seq(Batches) \cup {Torn} /\ Fits(f) /\ inSync' \in BOOLEAN
    BY <2>1, SavedType
  <2>3. CASE cur = NoBatch
    <3>1. /\ pc' = "down" /\ buffer' = <<>> /\ sent' = 0 /\ cur' = NoBatch
          /\ file' = f /\ orphaned' \subseteq Batches
      BY <2>1, <2>3, EndProcessType
    <3>. QED BY <1>11, <2>2, <3>1 DEF FlushSave, Fits
  <2>4. CASE cur # NoBatch
    BY <1>11, <2>1, <2>2, <2>4 DEF FlushSave, Fits
  <2>. QED BY <2>3, <2>4
<1>12. CASE Shutdown
  <2>1. CASE buffer = <<>>
    <3>1. EndProcess(file)  BY <1>12, <2>1 DEF Shutdown
    <3>2. /\ pc' = "down" /\ buffer' = <<>> /\ sent' = 0 /\ cur' = NoBatch
          /\ file' = file /\ orphaned' \subseteq Batches
      BY <3>1, EndProcessType
    <3>. QED BY <1>12, <3>2 DEF Shutdown
  <2>2. CASE buffer # <<>>
    BY <1>12, <2>2 DEF Shutdown
  <2>. QED BY <2>1, <2>2
<1>13. CASE Crash
  <2>1. PICK f \in {file, Torn} : EndProcess(f)  BY <1>13 DEF Crash
  <2>2. /\ pc' = "down" /\ buffer' = <<>> /\ sent' = 0 /\ cur' = NoBatch
        /\ file' = f /\ orphaned' \subseteq Batches
    BY <2>1, EndProcessType
  <2>. QED BY <1>13, <2>2 DEF Crash, Fits
<1>14. CASE UNCHANGED vars
  BY <1>14 DEF vars, exporterVars, history
<1>. QED
  BY <1>1, <1>2, <1>3, <1>4, <1>5, <1>6, <1>7, <1>8, <1>9, <1>10, <1>11,
     <1>12, <1>13, <1>14 DEF Next

\* Every state is one the Go types and maxBufferSize allow: addToBuffer and
\* loadBufferFromFile never let the buffer grow over the limit.
THEOREM TypeCorrect == Spec => []TypeOK
<1>1. Init => TypeInv BY InitType
<1>2. TypeInv /\ [Next]_vars => TypeInv' BY NextType
<1>3. TypeInv => TypeOK BY DEF TypeInv
<1>. QED BY <1>1, <1>2, <1>3, PTL DEF Spec

-----------------------------------------------------------------------------
(* The order of the batches. *)

LEMMA AppendRises ==
  ASSUME NEW s \in Seq(Batches), NEW b \in Batches, NEW n \in Nat,
         StrictlyIncreasing(s), Below(s, b), b < n
  PROVE  StrictlyIncreasing(Append(s, b)) /\ Below(Append(s, b), n)
<1>. DEFINE t == Append(s, b)
<1>1. /\ DOMAIN t = 1..(Len(s) + 1) /\ DOMAIN s = 1..Len(s) /\ Len(s) \in Nat
      /\ \A i \in 1..Len(s) : t[i] = s[i] /\ s[i] \in Nat
      /\ t[Len(s) + 1] = b /\ b \in Nat
  BY AppendFacts, ElementFacts DEF Batches
<1>. HIDE DEF t
<1>2. \A i \in DOMAIN t : i # Len(s) + 1 => i \in 1..Len(s)
  BY <1>1
<1>3. StrictlyIncreasing(t)
  BY <1>1, <1>2 DEF StrictlyIncreasing, Below
<1>4. Below(t, n)
  BY <1>1, <1>2 DEF Below
<1>. QED BY <1>3, <1>4 DEF t

LEMMA TailRises ==
  ASSUME NEW s \in Seq(Batches), s # <<>>, NEW n, StrictlyIncreasing(s), Below(s, n)
  PROVE  /\ StrictlyIncreasing(Tail(s)) /\ Below(Tail(s), n)
         /\ \A i \in DOMAIN Tail(s) : Head(s) < Tail(s)[i]
  BY TailFacts DEF StrictlyIncreasing, Below

LEMMA DropRises ==
  ASSUME NEW s \in Seq(Batches), NEW n \in 0..Len(s), NEW m,
         StrictlyIncreasing(s), Below(s, m)
  PROVE  /\ StrictlyIncreasing(SubSeq(s, n + 1, Len(s)))
         /\ Below(SubSeq(s, n + 1, Len(s)), m)
  BY DropFacts DEF StrictlyIncreasing, Below

LEMMA EmptyRises ==
  StrictlyIncreasing(<<>>) /\ \A n : Below(<<>>, n)
  BY DEF StrictlyIncreasing, Below

\* What Order says of one sequence.
Rises(s, n) == StrictlyIncreasing(s) /\ Below(s, n)

LEMMA InitOrder == Init => Order
  BY EmptyRises DEF Init, Order

\* Neither the end of a process nor a save brings in anything new.
LEMMA EndProcessOrder ==
  ASSUME TypeInv, Order, NEW f \in {buffer, file, Torn}, EndProcess(f), next' = next
  PROVE  Order'
  BY EmptyRises DEF Order, EndProcess

LEMMA addToBufferOrder ==
  ASSUME TypeInv, Order, cur # NoBatch, addToBuffer(cur)
  PROVE  Rises(buffer', next)
<1>. /\ buffer \in Seq(Batches) /\ cur \in Batches /\ next \in Nat
     /\ StrictlyIncreasing(buffer) /\ Below(buffer, cur) /\ cur < next
  BY DEF TypeInv, TypeOK, Order
<1>1. CASE Len(buffer) >= Cap
  <2>1. buffer # <<>>  BY <1>1, CapAssumption
  <2>2. /\ Tail(buffer) \in Seq(Batches) /\ StrictlyIncreasing(Tail(buffer))
        /\ Below(Tail(buffer), cur)
    BY <2>1, TailFacts, TailRises
  <2>3. buffer' = Append(Tail(buffer), cur)  BY <1>1 DEF addToBuffer
  <2>. QED BY <2>2, <2>3, AppendRises DEF Rises
<1>2. CASE ~(Len(buffer) >= Cap)
  BY <1>2, AppendRises DEF addToBuffer, Rises
<1>. QED BY <1>1, <1>2

LEMMA NextOrder == TypeInv /\ Order /\ [Next]_vars => Order'
<1>. SUFFICES ASSUME TypeInv, Order, [Next]_vars PROVE Order'
  OBVIOUS
<1>1. CASE NewBufferedExporter
  BY <1>1, EmptyRises DEF NewBufferedExporter, Order
<1>2. CASE Collect
  <2>1. /\ cur' = next /\ next' = next + 1 /\ next \in Nat
        /\ UNCHANGED <<buffer, file>>
    BY <1>2, BoundAssumption DEF Collect, TypeInv, TypeOK
  <2>2. \A s : s \in Seq(Batches) /\ Below(s, next) => Below(s, next + 1)
    BY <2>1, ElementFacts DEF Below
  <2>3. Below(buffer, next + 1) /\ (file # Torn => Below(file, next + 1))
    BY <2>2 DEF Order, TypeInv, TypeOK
  <2>. QED BY <2>1, <2>3 DEF Order
<1>3. CASE ExportOk
  BY <1>3 DEF ExportOk, Order
<1>4. CASE ExportFails
  <2>1. cur # NoBatch /\ addToBuffer(cur)
    BY <1>4 DEF ExportFails, TypeInv
  <2>2. Rises(buffer', next)  BY <2>1, addToBufferOrder
  <2>. QED BY <1>4, <2>2 DEF ExportFails, Order, Rises
<1>5. CASE AddSave
  BY <1>5 DEF AddSave, Order
<1>6. CASE FlushSendOk
  BY <1>6 DEF FlushSendOk, Order
<1>7. CASE FlushSendFails
  BY <1>7 DEF FlushSendFails, Order
<1>8. CASE FlushLoopEnds
  BY <1>8 DEF FlushLoopEnds, history, Order
<1>9. CASE FlushNothingSent
  BY <1>9, EndProcessOrder DEF FlushNothingSent, Order
<1>10. CASE FlushDropSent
  <2>1. /\ buffer' = SubSeq(buffer, sent + 1, Len(buffer))
        /\ UNCHANGED <<cur, file, next>>
    BY <1>10 DEF FlushDropSent, history
  <2>2. buffer \in Seq(Batches) /\ sent \in 0..Len(buffer)
    BY DEF TypeInv, TypeOK
  <2>3. Rises(buffer', next) /\ (cur # NoBatch => Below(buffer', cur))
    BY <2>1, <2>2, DropRises DEF Order, Rises
  <2>. QED BY <2>1, <2>3 DEF Order, Rises
<1>11. CASE FlushSave
  <2>1. PICK f \in {buffer, file, Torn} :
          IF cur = NoBatch THEN EndProcess(f)
          ELSE file' = f /\ UNCHANGED <<buffer, cur>>
    BY <1>11 DEF FlushSave
  <2>2. next' = next  BY <1>11 DEF FlushSave
  <2>3. CASE cur = NoBatch  BY <2>1, <2>2, <2>3, EndProcessOrder
  <2>4. CASE cur # NoBatch  BY <2>1, <2>2, <2>4 DEF Order
  <2>. QED BY <2>3, <2>4
<1>12. CASE Shutdown
  BY <1>12, EndProcessOrder DEF Shutdown, Order
<1>13. CASE Crash
  BY <1>13, EndProcessOrder DEF Crash
<1>14. CASE UNCHANGED vars
  BY <1>14 DEF vars, exporterVars, history, Order
<1>. QED
  BY <1>1, <1>2, <1>3, <1>4, <1>5, <1>6, <1>7, <1>8, <1>9, <1>10, <1>11,
     <1>12, <1>13, <1>14 DEF Next

\* Evictions, prefix drops, failed sends and reloads never reorder or repeat
\* what is kept, and what is kept is older than what is being exported.
THEOREM OrderKept == Spec => []BufferInOrder
<1>1. Init => TypeInv /\ Order
  BY InitType, InitOrder
<1>2. TypeInv /\ Order /\ [Next]_vars => (TypeInv /\ Order)'
  BY NextType, NextOrder
<1>3. TypeInv /\ Order => BufferInOrder
  BY DEF Order, BufferInOrder, Below
<1>. QED BY <1>1, <1>2, <1>3, PTL DEF Spec

-----------------------------------------------------------------------------
(* The file and the buffer. *)

LEMMA NextMirror == TypeInv /\ FileMirrorsBuffer /\ [Next]_vars => FileMirrorsBuffer'
<1>. SUFFICES ASSUME TypeInv, FileMirrorsBuffer, [Next]_vars
              PROVE  FileMirrorsBuffer'
  OBVIOUS
<1>. USE DEF FileMirrorsBuffer
<1>1. CASE NewBufferedExporter  BY <1>1 DEF NewBufferedExporter
<1>2. CASE Collect  BY <1>2 DEF Collect
<1>3. CASE ExportOk  BY <1>3 DEF ExportOk
<1>4. CASE ExportFails  BY <1>4 DEF ExportFails
<1>5. CASE AddSave  BY <1>5 DEF AddSave, Saved
<1>6. CASE FlushSendOk  BY <1>6 DEF FlushSendOk
<1>7. CASE FlushSendFails  BY <1>7 DEF FlushSendFails
<1>8. CASE FlushLoopEnds  BY <1>8 DEF FlushLoopEnds, history
<1>9. CASE FlushNothingSent  BY <1>9 DEF FlushNothingSent, EndProcess
<1>10. CASE FlushDropSent  BY <1>10 DEF FlushDropSent
<1>11. CASE FlushSave
  <2>1. PICK f \in {buffer, file, Torn}, ok \in BOOLEAN :
          /\ Saved(f, ok) /\ inSync' = ok
          /\ IF cur = NoBatch THEN EndProcess(f)
             ELSE /\ pc' = "export" /\ file' = f
                  /\ UNCHANGED <<buffer, sent, cur, orphaned>>
    BY <1>11 DEF FlushSave
  <2>2. CASE cur = NoBatch  BY <2>1, <2>2 DEF EndProcess
  <2>3. CASE cur # NoBatch  BY <2>1, <2>3 DEF Saved
  <2>. QED BY <2>2, <2>3
<1>12. CASE Shutdown  BY <1>12 DEF Shutdown, EndProcess
<1>13. CASE Crash  BY <1>13 DEF Crash, EndProcess
<1>14. CASE UNCHANGED vars  BY <1>14 DEF vars, exporterVars, history
<1>. QED
  BY <1>1, <1>2, <1>3, <1>4, <1>5, <1>6, <1>7, <1>8, <1>9, <1>10, <1>11,
     <1>12, <1>13, <1>14 DEF Next

\* While the disk works, a crash outside a save finds in the file what is in
\* memory.
THEOREM FileMirrored == Spec => []FileMirrorsBuffer
<1>1. Init => TypeInv /\ FileMirrorsBuffer
  BY InitType DEF Init, FileMirrorsBuffer
<1>2. TypeInv /\ FileMirrorsBuffer /\ [Next]_vars => (TypeInv /\ FileMirrorsBuffer)'
  BY NextType, NextMirror
<1>. QED BY <1>1, <1>2, PTL DEF Spec

LEMMA OrphansOfEnd ==
  ASSUME file = buffer, buffer # Torn, EndProcess(file)
  PROVE  orphaned' \ orphaned \subseteq {cur}
  BY DEF EndProcess, OnDisk

LEMMA OrphanedStep ==
  ASSUME TypeInv, FileMirrorsBuffer, [Next]_vars,
         inSync, pc \notin {"down", "flushSave", "addSave"}
  PROVE  orphaned' \ orphaned \subseteq {cur}
<1>1. file = buffer /\ buffer # Torn
  <2>1. Batches \subseteq Nat  BY DEF Batches
  <2>2. buffer \in Seq(Nat)
    <3>1. buffer \in Seq(Batches)  BY DEF TypeInv, TypeOK
    <3>. QED BY <2>1, <3>1, SeqMonotonic
  <2>. QED BY <2>2, TornAssumption DEF FileMirrorsBuffer
<1>2. orphaned' = orphaned \/ EndProcess(file)
  BY DEF Next, vars, exporterVars, history, NewBufferedExporter, Collect,
     ExportOk, ExportFails, AddSave, FlushSendOk, FlushSendFails,
     FlushLoopEnds, FlushNothingSent, FlushDropSent, FlushSave, Shutdown, Crash
<1>. QED BY <1>1, <1>2, OrphansOfEnd

\* While the disk works, whatever ends the process outside a save, it takes
\* with it only the batch Export was called with.
THEOREM OrphansInFlightOnly == Spec => OnlyInFlightOrphaned
<1>1. Init => TypeInv /\ FileMirrorsBuffer
  BY InitType DEF Init, FileMirrorsBuffer
<1>2. TypeInv /\ FileMirrorsBuffer /\ [Next]_vars => (TypeInv /\ FileMirrorsBuffer)'
  BY NextType, NextMirror
<1>3. TypeInv /\ FileMirrorsBuffer /\ [Next]_vars
      => [inSync /\ pc \notin {"down", "flushSave", "addSave"}
          => orphaned' \ orphaned \subseteq {cur}]_vars
  BY OrphanedStep
<1>. QED BY <1>1, <1>2, <1>3, PTL DEF Spec, OnlyInFlightOrphaned

-----------------------------------------------------------------------------
(* Eviction. *)

LEMMA EvictionStep ==
  ASSUME TypeInv, Order, [Next]_vars, NEW b \in evicted' \ evicted
  PROVE  Len(buffer) = Cap /\ \A c \in ToSet(buffer') : b < c
<1>1. cur # NoBatch /\ addToBuffer(cur)
  BY DEF Next, vars, exporterVars, history, NewBufferedExporter, Collect,
     ExportOk, ExportFails, AddSave, FlushSendOk, FlushSendFails,
     FlushLoopEnds, FlushNothingSent, FlushDropSent, FlushSave, Shutdown, Crash,
     TypeInv
<1>2. /\ buffer \in Seq(Batches) /\ Len(buffer) <= Cap /\ Cap \in Nat \ {0}
      /\ cur \in Batches /\ StrictlyIncreasing(buffer) /\ Below(buffer, cur)
  BY <1>1, CapAssumption DEF TypeInv, TypeOK, Order
<1>3. Len(buffer) >= Cap /\ b = Head(buffer) /\ buffer' = Append(Tail(buffer), cur)
  BY <1>1 DEF addToBuffer
<1>4. Len(buffer) = Cap /\ buffer # <<>>
  BY <1>2, <1>3
<1>5. /\ Tail(buffer) \in Seq(Batches) /\ Head(buffer) = buffer[1]
      /\ 1 \in DOMAIN buffer
      /\ \A i \in DOMAIN Tail(buffer) : Head(buffer) < Tail(buffer)[i]
  BY <1>2, <1>4, TailFacts, TailRises
<1>6. b < cur
  BY <1>2, <1>3, <1>5 DEF Below
<1>. DEFINE t == Tail(buffer)
<1>7. \A i \in DOMAIN Append(t, cur) : b < Append(t, cur)[i]
  <2>1. /\ DOMAIN Append(t, cur) = 1..(Len(t) + 1) /\ DOMAIN t = 1..Len(t)
        /\ \A i \in 1..Len(t) : Append(t, cur)[i] = t[i]
        /\ Append(t, cur)[Len(t) + 1] = cur /\ Len(t) \in Nat
    BY <1>2, <1>5, AppendFacts, ElementFacts
  <2>. HIDE DEF t
  <2>2. \A i \in DOMAIN t : b < t[i]  BY <1>3, <1>5 DEF t
  <2>3. \A i \in 1..(Len(t) + 1) : i \in 1..Len(t) \/ i = Len(t) + 1  BY <2>1
  <2>. QED BY <1>6, <2>1, <2>2, <2>3
<1>. QED BY <1>3, <1>4, <1>7 DEF ToSet

\* Only a full buffer evicts, and it evicts its oldest batch.
THEOREM OldestEvicted == Spec => EvictsOldest
<1>1. Init => TypeInv /\ Order
  BY InitType, InitOrder
<1>2. TypeInv /\ Order /\ [Next]_vars => (TypeInv /\ Order)'
  BY NextType, NextOrder
<1>3. TypeInv /\ Order /\ [Next]_vars
      => [\A b \in evicted' \ evicted :
            /\ Len(buffer) = Cap
            /\ \A c \in ToSet(buffer') : b < c]_vars
  BY EvictionStep
<1>. QED BY <1>1, <1>2, <1>3, PTL DEF Spec, EvictsOldest

-----------------------------------------------------------------------------
(* The bound on deliveries. *)

LEMMA InitCounted == Init => Counted
  BY DEF Init, Counted, DeliveriesBounded, NoBatch, Batches

\* When the deliveries stand still and the process goes on, it is enough that
\* no batch becomes pending that was not.
LEMMA CountedStill ==
  ASSUME TypeInv, Counted, UNCHANGED <<delivered, unacked, boots, next>>,
         pc # "down", pc' \notin {"flush", "drop"} => sent' = 0,
         \A i \in DOMAIN buffer' : i > sent' => Pending(buffer'[i]),
         cur' # NoBatch => Pending(cur')
  PROVE  Counted'
  BY DEF Counted, DeliveriesBounded, Pending

LEMMA EndProcessCounted ==
  ASSUME TypeInv, Counted, NEW f, EndProcess(f),
         UNCHANGED <<delivered, unacked, boots, next>>
  PROVE  Counted'
  BY DEF Counted, DeliveriesBounded, Pending, EndProcess, NoBatch

\* A delivery nobody was told of is counted on both sides of the bound.
LEMMA UntoldKeepsPending ==
  ASSUME TypeInv, NEW b \in Batches, Unstored \/ StoredLate(b), boots' = boots
  PROVE  /\ \A c \in Batches : Pending(c) => Pending(c)'
         /\ DeliveriesBounded => DeliveriesBounded'
         /\ \A c \in Batches : c # b => delivered'[c] = delivered[c]
<1>. /\ delivered \in [Batches -> Nat] /\ unacked \in [Batches -> Nat]
     /\ boots \in Nat
  BY BoundAssumption DEF TypeInv, TypeOK
<1>1. CASE Unstored
  BY <1>1 DEF Unstored, Pending, DeliveriesBounded
<1>2. CASE StoredLate(b)
  BY <1>2 DEF StoredLate, Pending, DeliveriesBounded
<1>. QED BY <1>1, <1>2

\* One the exporter was told of uses up what was pending of that batch.
LEMMA ToldKeepsBound ==
  ASSUME TypeInv, NEW b \in Batches, Stored(b), Pending(b), boots' = boots
  PROVE  /\ \A c \in Batches : c # b /\ Pending(c) => Pending(c)'
         /\ DeliveriesBounded => DeliveriesBounded'
         /\ \A c \in Batches : c # b => delivered'[c] = delivered[c]
<1>. /\ delivered \in [Batches -> Nat] /\ unacked \in [Batches -> Nat]
     /\ boots \in Nat
  BY BoundAssumption DEF TypeInv, TypeOK
<1>. QED BY DEF Stored, Pending, DeliveriesBounded

LEMMA BufferedFacts ==
  ASSUME TypeInv, Order
  PROVE  /\ \A i \in DOMAIN buffer : buffer[i] \in Batches /\ buffer[i] < next
         /\ \A i, j \in DOMAIN buffer : i # j => buffer[i] # buffer[j]
         /\ cur # NoBatch =>
              /\ cur \in Batches /\ cur < next
              /\ \A i \in DOMAIN buffer : buffer[i] # cur
         /\ DOMAIN buffer = 1..Len(buffer) /\ Len(buffer) \in Nat /\ next \in Nat
<1>1. /\ buffer \in Seq(Batches) /\ next \in Nat
      /\ cur # NoBatch => cur \in Batches /\ cur \in Nat
  BY BoundAssumption DEF TypeInv, TypeOK, Batches, NoBatch
<1>2. \A i, j \in DOMAIN buffer : i # j => buffer[i] # buffer[j]
  BY <1>1, ElementFacts DEF Order, StrictlyIncreasing
<1>. QED BY <1>1, <1>2, ElementFacts DEF Order, Below

\* What addToBuffer leaves was in the buffer or is the new batch.
LEMMA addToBufferElements ==
  ASSUME TypeInv, NEW b \in Batches, addToBuffer(b)
  PROVE  \A i \in DOMAIN buffer' :
           buffer'[i] = b \/ \E j \in DOMAIN buffer : buffer'[i] = buffer[j]
<1>. buffer \in Seq(Batches) /\ Cap \in Nat \ {0}
  BY CapAssumption DEF TypeInv, TypeOK
<1>1. CASE Len(buffer) >= Cap
  <2>. DEFINE t == Tail(buffer)
  <2>1. buffer # <<>>  BY <1>1
  <2>2. /\ t \in Seq(Batches) /\ DOMAIN t = 1..Len(t) /\ Len(t) \in Nat
        /\ \A i \in 1..Len(t) : t[i] = buffer[i + 1] /\ i + 1 \in DOMAIN buffer
    BY <2>1, TailFacts, ElementFacts
  <2>3. buffer' = Append(t, b)  BY <1>1 DEF addToBuffer
  <2>. HIDE DEF t
  <2>4. /\ DOMAIN buffer' = 1..(Len(t) + 1)
        /\ \A i \in 1..Len(t) : buffer'[i] = t[i]
        /\ buffer'[Len(t) + 1] = b
    BY <2>2, <2>3, AppendFacts
  <2>5. \A i \in 1..(Len(t) + 1) : i \in 1..Len(t) \/ i = Len(t) + 1
    BY <2>2
  <2>. QED BY <2>2, <2>4, <2>5
<1>2. CASE ~(Len(buffer) >= Cap)
  <2>1. buffer' = Append(buffer, b)  BY <1>2 DEF addToBuffer
  <2>. QED BY <2>1, AppendFacts
<1>. QED BY <1>1, <1>2

LEMMA NextCounted == TypeInv /\ Order /\ Counted /\ [Next]_vars => Counted'
<1>. SUFFICES ASSUME TypeInv, Order, Counted, [Next]_vars PROVE Counted'
  OBVIOUS
<1>. USE BufferedFacts
<1>. sent \in Nat /\ boots \in Nat
  BY BoundAssumption DEF TypeInv, TypeOK
<1>. USE DEF NoBatch
<1>1. CASE NewBufferedExporter
  <2>1. /\ boots' = boots + 1 /\ pc' = "idle" /\ sent' = 0 /\ cur' = NoBatch
        /\ UNCHANGED <<next, delivered, unacked>>
    BY <1>1 DEF NewBufferedExporter
  <2>2. \A b \in Batches : Pending(b)' /\ delivered'[b] <= unacked'[b] + boots'
    <3>1. /\ delivered \in [Batches -> Nat] /\ unacked \in [Batches -> Nat]
          /\ \A b \in Batches : delivered[b] <= unacked[b] + boots
      BY DEF Counted, DeliveriesBounded, TypeInv, TypeOK
    <3>. QED BY <2>1, <3>1 DEF Pending
  <2>3. \A i \in DOMAIN buffer' : buffer'[i] \in Batches
    <3>1. buffer' \in Seq(Batches)
      BY NextType DEF TypeInv, TypeOK
    <3>. QED BY <3>1, ElementFacts
  <2>. QED BY <2>1, <2>2, <2>3 DEF Counted, DeliveriesBounded, Pending
<1>2. CASE Collect
  <2>1. /\ cur' = next /\ next \in Batches /\ next' = next + 1
        /\ pc' \in {"flush", "export"} /\ sent = 0 /\ boots > 0
        /\ UNCHANGED <<buffer, sent, delivered, unacked, boots>>
    <3>1. next \in 1..MaxBatch  BY <1>2, BoundAssumption DEF Collect, TypeInv, TypeOK
    <3>2. sent = 0 /\ boots > 0  BY <1>2 DEF Collect, Counted
    <3>. QED BY <1>2, <3>1, <3>2 DEF Collect, EnterFlush, Batches
  <2>2. Pending(next)
    <3>1. delivered[next] = 0 /\ unacked[next] \in Nat
      BY <2>1 DEF Counted, TypeInv, TypeOK
    <3>. QED BY <2>1, <3>1 DEF Pending
  <2>3. \A b \in Batches : b >= next' => b >= next
    BY <2>1 DEF Batches
  <2>. QED BY <2>1, <2>2, <2>3 DEF Counted, DeliveriesBounded, Pending
<1>3. CASE ExportOk
  <2>1. /\ cur # NoBatch /\ Stored(cur) /\ sent = 0 /\ Pending(cur) /\ pc # "down"
        /\ cur' = NoBatch /\ pc' = "idle"
        /\ UNCHANGED <<buffer, sent, next, boots>>
    BY <1>3 DEF ExportOk, Counted, TypeInv
  <2>2. /\ \A c \in Batches : c # cur /\ Pending(c) => Pending(c)'
        /\ DeliveriesBounded'
        /\ \A c \in Batches : c # cur => delivered'[c] = delivered[c]
    BY <2>1, ToldKeepsBound DEF Counted
  <2>3. \A c \in Batches : c >= next => c # cur
    BY <2>1 DEF Batches
  <2>. QED BY <2>1, <2>2, <2>3 DEF Counted, Pending
<1>4. CASE ExportFails
  <2>1. /\ cur # NoBatch /\ (Unstored \/ StoredLate(cur)) /\ addToBuffer(cur)
        /\ sent = 0 /\ Pending(cur) /\ pc # "down"
        /\ cur' = NoBatch /\ pc' = "addSave"
        /\ UNCHANGED <<sent, next, boots>>
    BY <1>4 DEF ExportFails, Counted, TypeInv
  <2>2. /\ \A c \in Batches : Pending(c) => Pending(c)'
        /\ DeliveriesBounded'
        /\ \A c \in Batches : c # cur => delivered'[c] = delivered[c]
    BY <2>1, UntoldKeepsPending DEF Counted
  <2>3. \A c \in Batches : c >= next => c # cur
    BY <2>1 DEF Batches
  <2>4. (\A i \in DOMAIN buffer : Pending(buffer[i]))'
    <3>1. \A j \in DOMAIN buffer : buffer[j] \in Batches /\ Pending(buffer[j])
      BY <2>1 DEF Counted
    <3>2. \A i \in DOMAIN buffer' :
            buffer'[i] = cur \/ \E j \in DOMAIN buffer : buffer'[i] = buffer[j]
      BY <2>1, addToBufferElements
    <3>3. \A i \in DOMAIN buffer' : \E c \in Batches : c = buffer'[i] /\ Pending(c)
      BY <2>1, <3>1, <3>2
    <3>. QED BY <2>2, <3>3 DEF Pending
  <2>. QED BY <2>1, <2>2, <2>3, <2>4 DEF Counted
<1>5. CASE AddSave
  BY <1>5, CountedStill DEF AddSave, Counted
<1>6. CASE FlushSendOk
  <2>. DEFINE b == buffer[sent + 1]
  <2>1. /\ pc = "flush" /\ sent + 1 \in DOMAIN buffer /\ Stored(b)
        /\ sent' = sent + 1 /\ UNCHANGED <<pc, buffer, cur, next, boots>>
    BY <1>6 DEF FlushSendOk
  <2>2. b \in Batches /\ b < next /\ Pending(b)
    BY <2>1 DEF Counted
  <2>3. /\ \A c \in Batches : c # b /\ Pending(c) => Pending(c)'
        /\ DeliveriesBounded'
        /\ \A c \in Batches : c # b => delivered'[c] = delivered[c]
    BY <2>1, <2>2, ToldKeepsBound DEF Counted
  <2>4. \A c \in Batches : c >= next => c # b
    BY <2>2 DEF Batches
  <2>5. \A i \in DOMAIN buffer : i > sent + 1 => Pending(buffer[i])'
    BY <2>1, <2>3 DEF Counted, Pending
  <2>6. cur # NoBatch => Pending(cur)'
    BY <2>1, <2>3 DEF Counted, Pending
  <2>. QED BY <2>1, <2>3, <2>4, <2>5, <2>6 DEF Counted, Pending
<1>7. CASE FlushSendFails
  <2>. DEFINE b == buffer[sent + 1]
  <2>1. /\ sent + 1 \in DOMAIN buffer /\ (Unstored \/ StoredLate(b))
        /\ pc = "flush" /\ pc' = "drop" /\ UNCHANGED <<buffer, sent, cur, next, boots>>
    BY <1>7 DEF FlushSendFails
  <2>2. b \in Batches /\ b < next
    BY <2>1
  <2>3. /\ \A c \in Batches : Pending(c) => Pending(c)'
        /\ DeliveriesBounded'
        /\ \A c \in Batches : c # b => delivered'[c] = delivered[c]
    BY <2>1, <2>2, UntoldKeepsPending DEF Counted
  <2>4. \A c \in Batches : c >= next => c # b
    BY <2>2 DEF Batches
  <2>. QED BY <2>1, <2>3, <2>4 DEF Counted, Pending
<1>8. CASE FlushLoopEnds
  BY <1>8, CountedStill DEF FlushLoopEnds, history, Counted
<1>9. CASE FlushNothingSent
  <2>1. CASE cur = NoBatch
    BY <1>9, <2>1, EndProcessCounted DEF FlushNothingSent
  <2>2. CASE cur # NoBatch
    BY <1>9, <2>2, CountedStill DEF FlushNothingSent, Counted
  <2>. QED BY <2>1, <2>2
<1>10. CASE FlushDropSent
  <2>1. /\ buffer' = SubSeq(buffer, sent + 1, Len(buffer)) /\ sent' = 0
        /\ pc = "drop" /\ UNCHANGED <<cur, next, delivered, unacked, boots>>
    BY <1>10 DEF FlushDropSent, history
  <2>2. /\ DOMAIN buffer' = 1..(Len(buffer) - sent)
        /\ \A i \in 1..(Len(buffer) - sent) : buffer'[i] = buffer[sent + i]
    BY <2>1, DropFacts DEF TypeInv, TypeOK
  <2>3. \A i \in DOMAIN buffer' : Pending(buffer'[i])
    BY <2>2 DEF Counted
  <2>. QED BY <2>1, <2>3, CountedStill DEF Counted
<1>11. CASE FlushSave
  <2>1. PICK f \in {buffer, file, Torn} :
          IF cur = NoBatch THEN EndProcess(f)
          ELSE pc' = "export" /\ UNCHANGED <<buffer, sent, cur>>
    BY <1>11 DEF FlushSave
  <2>2. pc = "flushSave" /\ UNCHANGED <<delivered, unacked, boots, next>>
    BY <1>11 DEF FlushSave
  <2>3. CASE cur = NoBatch  BY <2>1, <2>2, <2>3, EndProcessCounted
  <2>4. CASE cur # NoBatch  BY <2>1, <2>2, <2>4, CountedStill DEF Counted
  <2>. QED BY <2>3, <2>4
<1>12. CASE Shutdown
  <2>1. CASE buffer = <<>>
    BY <1>12, <2>1, EndProcessCounted DEF Shutdown
  <2>2. CASE buffer # <<>>
    BY <1>12, <2>2, CountedStill DEF Shutdown, Counted
  <2>. QED BY <2>1, <2>2
<1>13. CASE Crash
  BY <1>13, EndProcessCounted DEF Crash
<1>14. CASE UNCHANGED vars
  BY <1>14 DEF vars, exporterVars, history, Counted, DeliveriesBounded, Pending
<1>. QED
  BY <1>1, <1>2, <1>3, <1>4, <1>5, <1>6, <1>7, <1>8, <1>9, <1>10, <1>11,
     <1>12, <1>13, <1>14 DEF Next

\* The collector gets a batch again only for an error that hid a delivery or
\* for a restart.
THEOREM DeliveryBound == Spec => []DeliveriesBounded
<1>1. Init => TypeInv /\ Order /\ Counted
  BY InitType, InitOrder, InitCounted
<1>2. TypeInv /\ Order /\ Counted /\ [Next]_vars => (TypeInv /\ Order /\ Counted)'
  BY NextType, NextOrder, NextCounted
<1>3. Counted => DeliveriesBounded
  BY DEF Counted
<1>. QED BY <1>1, <1>2, <1>3, PTL DEF Spec

-----------------------------------------------------------------------------
(* No batch is lost without a trace. *)

Safe(b) == delivered[b] > 0 \/ b \in evicted \cup orphaned

\* What is accounted for stays so if deliveries, evictions and orphans only
\* grow and no batch leaves the agent's hands that is not safe.
LEMMA KeptStill ==
  ASSUME TypeInv, Kept, next' = next,
         \A b \in Batches : Safe(b) => Safe(b)',
         \A b \in Batches : b \in Held => b \in Held' \/ Safe(b)'
  PROVE  NoSilentLoss'
<1>1. \A b \in 1..(next - 1) : b \in Batches
  BY BoundAssumption DEF TypeInv, TypeOK, Batches
<1>2. \A b \in 1..(next - 1) : Safe(b) \/ b \in Held
  BY DEF Kept, NoSilentLoss, Safe
<1>3. \A b \in 1..(next - 1) : Safe(b)' \/ b \in Held'
  BY <1>1, <1>2
<1>. QED BY <1>3 DEF NoSilentLoss, Safe

LEMMA SafeGrows ==
  ASSUME TypeInv, evicted \subseteq evicted', orphaned \subseteq orphaned',
         \/ UNCHANGED delivered
         \/ \E b \in Batches : delivered' = [delivered EXCEPT ![b] = @ + 1]
  PROVE  \A c \in Batches :
           (Safe(c) => Safe(c)') /\ (delivered[c] > 0 => delivered'[c] > 0)
<1>. delivered \in [Batches -> Nat]  BY DEF TypeInv, TypeOK
<1>. QED BY DEF Safe

LEMMA EndProcessKept ==
  ASSUME TypeInv, Kept, pc # "down", NEW f, EndProcess(f),
         UNCHANGED <<next, delivered, evicted>>
  PROVE  Kept'
<1>1. /\ pc' = "down" /\ buffer' = <<>> /\ file' = f
      /\ orphaned' = orphaned \cup
           {b \in (ToSet(buffer) \cup {cur}) \ OnDisk(f) :
              b # NoBatch /\ delivered[b] = 0}
  BY DEF EndProcess
<1>2. \A b \in Batches : b \in Held => b \in Held' \/ Safe(b)'
  <2>1. \A b \in Batches : b # NoBatch /\ delivered[b] \in Nat
    BY DEF TypeInv, TypeOK, Batches, NoBatch
  <2>2. Held = ToSet(buffer) \cup {cur} /\ Held' = OnDisk(f)
    BY <1>1 DEF Held, OnDisk
  <2>. QED BY <1>1, <2>1, <2>2 DEF Safe
<1>3. NoSilentLoss'
  BY <1>1, <1>2, SafeGrows, KeptStill
<1>. QED BY <1>1, <1>3 DEF Kept

LEMMA addToBufferKeeps ==
  ASSUME TypeInv, NEW b \in Batches, addToBuffer(b)
  PROVE  /\ \A c \in ToSet(buffer) : c \in ToSet(buffer') \cup evicted'
         /\ b \in ToSet(buffer') /\ evicted \subseteq evicted'
<1>. buffer \in Seq(Batches) /\ Cap \in Nat \ {0}
  BY CapAssumption DEF TypeInv, TypeOK
<1>1. CASE Len(buffer) >= Cap
  <2>. DEFINE t == Tail(buffer)
  <2>1. buffer # <<>>  BY <1>1
  <2>2. /\ t \in Seq(Batches) /\ Len(t) = Len(buffer) - 1 /\ Len(buffer) \in Nat
        /\ DOMAIN buffer = 1..Len(buffer)
        /\ \A i \in 1..Len(t) : t[i] = buffer[i + 1]
        /\ Head(buffer) = buffer[1]
    BY <2>1, TailFacts, ElementFacts
  <2>3. buffer' = Append(t, b) /\ evicted' = evicted \cup {Head(buffer)}
    BY <1>1 DEF addToBuffer
  <2>. HIDE DEF t
  <2>4. /\ DOMAIN buffer' = 1..(Len(t) + 1)
        /\ \A i \in 1..Len(t) : buffer'[i] = t[i]
        /\ buffer'[Len(t) + 1] = b
    BY <2>2, <2>3, AppendFacts
  <2>5. \A i \in DOMAIN buffer : i = 1 \/ (i - 1 \in 1..Len(t) /\ buffer[i] = t[i - 1])
    BY <2>2
  <2>6. \A i \in DOMAIN buffer : buffer[i] \in ToSet(buffer') \cup evicted'
    <3>. SUFFICES ASSUME NEW i \in DOMAIN buffer
                  PROVE  buffer[i] \in ToSet(buffer') \cup evicted'
      OBVIOUS
    <3>1. CASE i = 1  BY <2>2, <2>3, <3>1
    <3>2. CASE i # 1
      <4>1. i - 1 \in DOMAIN buffer' /\ buffer'[i - 1] = buffer[i]
        BY <2>2, <2>4, <2>5, <3>2
      <4>. QED BY <4>1 DEF ToSet
    <3>. QED BY <3>1, <3>2
  <2>7. b \in ToSet(buffer')
    BY <2>2, <2>4 DEF ToSet
  <2>. QED BY <2>3, <2>6, <2>7 DEF ToSet
<1>2. CASE ~(Len(buffer) >= Cap)
  <2>1. buffer' = Append(buffer, b) /\ evicted' = evicted
    BY <1>2 DEF addToBuffer
  <2>2. /\ DOMAIN buffer' = 1..(Len(buffer) + 1) /\ DOMAIN buffer = 1..Len(buffer)
        /\ Len(buffer) \in Nat
        /\ \A i \in 1..Len(buffer) : buffer'[i] = buffer[i]
        /\ buffer'[Len(buffer) + 1] = b
    BY <2>1, AppendFacts, ElementFacts
  <2>3. \A i \in DOMAIN buffer : i \in DOMAIN buffer' /\ buffer[i] = buffer'[i]
    BY <2>2
  <2>4. Len(buffer) + 1 \in DOMAIN buffer'
    BY <2>2
  <2>. QED BY <2>1, <2>2, <2>3, <2>4 DEF ToSet
<1>. QED BY <1>1, <1>2

LEMMA NextKept == TypeInv /\ Order /\ Counted /\ Kept /\ [Next]_vars => Kept'
<1>. SUFFICES ASSUME TypeInv, Order, Counted, Kept, [Next]_vars PROVE Kept'
  OBVIOUS
<1>. USE BufferedFacts
<1>1. CASE NewBufferedExporter
  <2>1. /\ pc = "down" /\ pc' = "idle" /\ sent' = 0 /\ cur' = NoBatch
        /\ orphaned \subseteq orphaned' /\ UNCHANGED <<next, delivered, evicted>>
    BY <1>1 DEF NewBufferedExporter
  <2>2. \A b \in Batches : b \in Held => b \in Held' \/ Safe(b)'
    <3>1. Held = OnDisk(file) /\ Held' = ToSet(buffer') \cup {NoBatch}
      BY <2>1 DEF Held
    <3>2. \A b \in Batches : delivered[b] \in Nat
      BY DEF TypeInv, TypeOK
    <3>3. CASE file # Torn /\ buffer' = file
      BY <3>1, <3>3 DEF OnDisk
    <3>4. CASE file = Torn
      BY <3>1, <3>4 DEF OnDisk
    <3>5. CASE orphaned' = orphaned \cup {b \in OnDisk(file) : delivered[b] = 0}
      BY <2>1, <3>1, <3>2, <3>5 DEF Safe
    <3>. QED BY <1>1, <3>3, <3>4, <3>5 DEF NewBufferedExporter
  <2>3. NoSilentLoss'  BY <2>1, <2>2, SafeGrows, KeptStill
  <2>4. \A i \in DOMAIN buffer' : ~(i <= sent')
    <3>1. buffer' \in Seq(Batches)  BY NextType DEF TypeInv, TypeOK
    <3>. QED BY <2>1, <3>1, ElementFacts
  <2>. QED BY <2>1, <2>3, <2>4 DEF Kept
<1>2. CASE Collect
  <2>1. /\ pc = "idle" /\ pc' \in {"flush", "export"} /\ cur = NoBatch
        /\ cur' = next /\ next' = next + 1 /\ next \in Nat
        /\ UNCHANGED <<buffer, sent, delivered, evicted, orphaned>>
    BY <1>2 DEF Collect, EnterFlush, Kept
  <2>2. \A b \in 1..(next' - 1) : b \in 1..(next - 1) \/ b = next
    BY <2>1
  <2>3. Held \ {NoBatch} \subseteq Held' /\ next \in Held'
    BY <2>1 DEF Held
  <2>4. \A b \in 1..(next - 1) : Safe(b) \/ b \in Held \ {NoBatch}
    BY DEF Kept, NoSilentLoss, Safe, NoBatch
  <2>5. NoSilentLoss'
    BY <2>1, <2>2, <2>3, <2>4 DEF NoSilentLoss, Safe
  <2>. QED BY <2>1, <2>5 DEF Kept
<1>3. CASE ExportOk
  <2>1. /\ cur # NoBatch /\ cur \in Batches /\ pc = "export" /\ sent = 0
        /\ delivered' = [delivered EXCEPT ![cur] = @ + 1]
        /\ cur' = NoBatch /\ pc' = "idle"
        /\ UNCHANGED <<buffer, sent, next, evicted, orphaned>>
    BY <1>3 DEF ExportOk, Stored, TypeInv, Counted
  <2>2. delivered'[cur] > 0
    BY <2>1 DEF TypeInv, TypeOK
  <2>3. \A b \in Batches : b \in Held => b \in Held' \/ Safe(b)'
    BY <2>1, <2>2 DEF Held, Safe
  <2>4. NoSilentLoss'  BY <2>1, <2>3, SafeGrows, KeptStill
  <2>. QED BY <2>1, <2>4 DEF Kept
<1>4. CASE ExportFails
  <2>1. /\ cur # NoBatch /\ cur \in Batches /\ pc = "export" /\ sent = 0
        /\ \/ UNCHANGED delivered
           \/ delivered' = [delivered EXCEPT ![cur] = @ + 1]
        /\ addToBuffer(cur) /\ cur' = NoBatch /\ pc' = "addSave"
        /\ UNCHANGED <<sent, next, orphaned>>
    BY <1>4 DEF ExportFails, Unstored, StoredLate, TypeInv, Counted
  <2>2. /\ \A c \in ToSet(buffer) : c \in ToSet(buffer') \cup evicted'
        /\ cur \in ToSet(buffer') /\ evicted \subseteq evicted'
    BY <2>1, addToBufferKeeps
  <2>3. \A b \in Batches : b \in Held => b \in Held' \/ Safe(b)'
    BY <2>1, <2>2 DEF Held, Safe
  <2>4. NoSilentLoss'  BY <2>1, <2>2, <2>3, SafeGrows, KeptStill
  <2>5. \A i \in DOMAIN buffer' : ~(i <= sent')
    <3>1. buffer' \in Seq(Batches)  BY NextType DEF TypeInv, TypeOK
    <3>. QED BY <2>1, <3>1, ElementFacts
  <2>. QED BY <2>1, <2>4, <2>5 DEF Kept
<1>5. CASE AddSave
  <2>1. /\ pc = "addSave" /\ pc' = "idle"
        /\ UNCHANGED <<buffer, sent, cur, next, delivered, evicted, orphaned>>
    BY <1>5 DEF AddSave
  <2>. QED BY <2>1 DEF Kept, NoSilentLoss, Held
<1>6. CASE FlushSendOk
  <2>. DEFINE b == buffer[sent + 1]
  <2>1. /\ pc = "flush" /\ sent + 1 \in DOMAIN buffer /\ b \in Batches
        /\ delivered' = [delivered EXCEPT ![b] = @ + 1] /\ sent' = sent + 1
        /\ UNCHANGED <<pc, buffer, cur, next, evicted, orphaned>>
    BY <1>6 DEF FlushSendOk, Stored, TypeInv, TypeOK
  <2>2. delivered'[b] > 0
    BY <2>1 DEF TypeInv, TypeOK
  <2>3. \A c \in Batches : (Safe(c) => Safe(c)') /\ (delivered[c] > 0 => delivered'[c] > 0)
    BY <2>1, SafeGrows
  <2>4. Held' = Held  BY <2>1 DEF Held
  <2>5. NoSilentLoss'  BY <2>1, <2>3, <2>4, KeptStill
  <2>6. \A i \in DOMAIN buffer : i <= sent + 1 => delivered'[buffer[i]] > 0
    <3>1. \A i \in DOMAIN buffer : i <= sent + 1 => i <= sent \/ i = sent + 1
      BY DEF TypeInv, TypeOK
    <3>. QED BY <2>2, <2>3, <3>1 DEF Kept
  <2>. QED BY <2>1, <2>5, <2>6 DEF Kept
<1>7. CASE FlushSendFails
  <2>. DEFINE b == buffer[sent + 1]
  <2>1. /\ pc = "flush" /\ pc' = "drop" /\ sent + 1 \in DOMAIN buffer /\ b \in Batches
        /\ \/ UNCHANGED delivered
           \/ delivered' = [delivered EXCEPT ![b] = @ + 1]
        /\ UNCHANGED <<buffer, sent, cur, next, evicted, orphaned>>
    BY <1>7 DEF FlushSendFails, Unstored, StoredLate, TypeInv, TypeOK
  <2>2. \A c \in Batches : (Safe(c) => Safe(c)') /\ (delivered[c] > 0 => delivered'[c] > 0)
    BY <2>1, SafeGrows
  <2>3. Held' = Held  BY <2>1 DEF Held
  <2>4. NoSilentLoss'  BY <2>1, <2>2, <2>3, KeptStill
  <2>. QED BY <2>1, <2>2, <2>4 DEF Kept
<1>8. CASE FlushLoopEnds
  BY <1>8 DEF FlushLoopEnds, history, Kept, NoSilentLoss, Held
<1>9. CASE FlushNothingSent
  <2>1. CASE cur = NoBatch
    BY <1>9, <2>1, EndProcessKept DEF FlushNothingSent
  <2>2. CASE cur # NoBatch
    BY <1>9, <2>2 DEF FlushNothingSent, Kept, NoSilentLoss, Held
  <2>. QED BY <2>1, <2>2
<1>10. CASE FlushDropSent
  <2>1. /\ buffer' = SubSeq(buffer, sent + 1, Len(buffer)) /\ sent' = 0
        /\ pc = "drop" /\ pc' = "flushSave"
        /\ UNCHANGED <<cur, next, delivered, evicted, orphaned>>
    BY <1>10 DEF FlushDropSent, history
  <2>2. /\ DOMAIN buffer' = 1..(Len(buffer) - sent)
        /\ \A i \in 1..(Len(buffer) - sent) : buffer'[i] = buffer[sent + i]
        /\ sent \in Nat
    BY <2>1, DropFacts DEF TypeInv, TypeOK
  <2>3. \A i \in DOMAIN buffer : delivered[buffer[i]] > 0 \/ buffer[i] \in ToSet(buffer')
    <3>. SUFFICES ASSUME NEW i \in DOMAIN buffer, i > sent
                  PROVE  buffer[i] \in ToSet(buffer')
      BY <2>2 DEF Kept
    <3>1. i - sent \in DOMAIN buffer' /\ buffer'[i - sent] = buffer[i]
      BY <2>2
    <3>. QED BY <3>1 DEF ToSet
  <2>4. \A b \in Batches : b \in Held => b \in Held' \/ Safe(b)'
    BY <2>1, <2>3 DEF Held, Safe, ToSet
  <2>5. NoSilentLoss'  BY <2>1, <2>4, SafeGrows, KeptStill
  <2>. QED BY <2>1, <2>2, <2>5 DEF Kept
<1>11. CASE FlushSave
  <2>1. PICK f \in {buffer, file, Torn} :
          IF cur = NoBatch THEN EndProcess(f)
          ELSE pc' = "export" /\ UNCHANGED <<buffer, sent, cur, orphaned>>
    BY <1>11 DEF FlushSave
  <2>2. pc = "flushSave" /\ UNCHANGED <<next, delivered, evicted>>
    BY <1>11 DEF FlushSave
  <2>3. CASE cur = NoBatch  BY <2>1, <2>2, <2>3, EndProcessKept
  <2>4. CASE cur # NoBatch  BY <2>1, <2>2, <2>4 DEF Kept, NoSilentLoss, Held
  <2>. QED BY <2>3, <2>4
<1>12. CASE Shutdown
  <2>1. CASE buffer = <<>>
    BY <1>12, <2>1, EndProcessKept DEF Shutdown
  <2>2. CASE buffer # <<>>
    BY <1>12, <2>2 DEF Shutdown, Kept, NoSilentLoss, Held
  <2>. QED BY <2>1, <2>2
<1>13. CASE Crash
  BY <1>13, EndProcessKept DEF Crash
<1>14. CASE UNCHANGED vars
  BY <1>14 DEF vars, exporterVars, history, Kept, NoSilentLoss, Held
<1>. QED
  BY <1>1, <1>2, <1>3, <1>4, <1>5, <1>6, <1>7, <1>8, <1>9, <1>10, <1>11,
     <1>12, <1>13, <1>14 DEF Next

\* Whatever fails and whenever the process ends, every batch collected was
\* delivered, or is held, or was evicted, or went down with a process.
THEOREM NothingLostSilently == Spec => []NoSilentLoss
<1>1. Init => Kept
  BY DEF Init, Kept, NoSilentLoss
<1>2. Init => TypeInv /\ Order /\ Counted /\ Kept
  BY <1>1, InitType, InitOrder, InitCounted
<1>3. TypeInv /\ Order /\ Counted /\ Kept /\ [Next]_vars
      => (TypeInv /\ Order /\ Counted /\ Kept)'
  BY NextType, NextOrder, NextCounted, NextKept
<1>4. Kept => NoSilentLoss
  BY DEF Kept
<1>. QED BY <1>2, <1>3, <1>4, PTL DEF Spec
=============================================================================
