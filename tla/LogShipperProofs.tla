--------------------------- MODULE LogShipperProofs ---------------------------
(***************************************************************************)
(* Proofs about LogShipper, for any sizes of the buffer, the request and   *)
(* the WAL and any number of entries, restarts and faults: the order of    *)
(* the entries, how often one is stored, why one is lost, and that the     *)
(* pipeline keeps the ledger of EntryLedger.                               *)
(***************************************************************************)
EXTENDS LogShipper, FiniteSetTheorems, SequenceTheorems, TLAPS

-----------------------------------------------------------------------------
(* Sequences of entries.                                                   *)

LEMMA ToSetType ==
  ASSUME NEW S, NEW s \in Seq(S)
  PROVE  ToSet(s) \subseteq S
BY DEF ToSet

LEMMA ToSetAppend ==
  ASSUME NEW S, NEW s \in Seq(S), NEW x \in S
  PROVE  ToSet(Append(s, x)) = ToSet(s) \cup {x}
<1>1. /\ DOMAIN Append(s, x) = 1..Len(s) + 1 /\ DOMAIN s = 1..Len(s) /\ Len(s) \in Nat
      /\ \A i \in 1..Len(s) + 1 : Append(s, x)[i] = IF i = Len(s) + 1 THEN x ELSE s[i]
  OBVIOUS
<1> QED
  BY <1>1 DEF ToSet

LEMMA ToSetConcat ==
  ASSUME NEW S, NEW s \in Seq(S), NEW t \in Seq(S)
  PROVE  ToSet(s \o t) = ToSet(s) \cup ToSet(t)
<1>1. /\ DOMAIN (s \o t) = 1..Len(s) + Len(t) /\ Len(s) \in Nat /\ Len(t) \in Nat
      /\ DOMAIN s = 1..Len(s) /\ DOMAIN t = 1..Len(t)
      /\ \A i \in 1..Len(s) + Len(t) : (s \o t)[i] = IF i <= Len(s) THEN s[i] ELSE t[i - Len(s)]
  OBVIOUS
<1>2. ToSet(s) \subseteq ToSet(s \o t)
  <2>1. \A i \in DOMAIN s : i \in DOMAIN (s \o t) /\ (s \o t)[i] = s[i]
    BY <1>1
  <2> QED
    BY <2>1 DEF ToSet
<1>3. ToSet(t) \subseteq ToSet(s \o t)
  <2>1. \A i \in DOMAIN t : Len(s) + i \in DOMAIN (s \o t) /\ (s \o t)[Len(s) + i] = t[i]
    BY <1>1
  <2> QED
    BY <2>1 DEF ToSet
<1>4. ToSet(s \o t) \subseteq ToSet(s) \cup ToSet(t)
  BY <1>1 DEF ToSet
<1> QED
  BY <1>2, <1>3, <1>4

LEMMA ToSetEmpty == ToSet(<< >>) = {}
BY DEF ToSet

LEMMA NewestFacts ==
  ASSUME NEW S, NEW s \in Seq(S), NEW n \in Nat
  PROVE  /\ Newest(s, n) \in Seq(S)
         /\ Len(Newest(s, n)) = IF Len(s) > n THEN n ELSE Len(s)
         /\ \A i \in 1..Len(Newest(s, n)) :
              /\ i + (Len(s) - Len(Newest(s, n))) \in 1..Len(s)
              /\ Newest(s, n)[i] = s[i + (Len(s) - Len(Newest(s, n)))]
         /\ ToSet(Newest(s, n)) \subseteq ToSet(s)
<1>1. Len(s) \in Nat /\ DOMAIN s = 1..Len(s)
  OBVIOUS
<1>2. CASE Len(s) <= n
  <2>1. Newest(s, n) = s
    BY <1>1, <1>2 DEF Newest
  <2>2. \A i \in 1..Len(s) : i + (Len(s) - Len(s)) = i
    BY <1>1
  <2>3. Len(Newest(s, n)) = (IF Len(s) > n THEN n ELSE Len(s))
    <3>1. ~(Len(s) > n)
      BY <1>1, <1>2
    <3> QED
      BY <2>1, <3>1
  <2> QED
    BY <1>1, <2>1, <2>2, <2>3
<1>3. CASE Len(s) > n
  <2>1. Newest(s, n) = SubSeq(s, Len(s) - n + 1, Len(s))
    BY <1>3 DEF Newest
  <2>2. Newest(s, n) \in Seq(S) /\ Len(Newest(s, n)) = n
    BY <1>1, <1>3, <2>1
  <2>3. \A i \in 1..n : Newest(s, n)[i] = s[i + (Len(s) - n)] /\ i + (Len(s) - n) \in 1..Len(s)
    BY <1>1, <1>3, <2>1
  <2>4. ToSet(Newest(s, n)) \subseteq ToSet(s)
    BY <1>1, <2>2, <2>3 DEF ToSet
  <2> QED
    BY <1>3, <2>2, <2>3, <2>4
<1> QED
  BY <1>1, <1>2, <1>3

LEMMA PrefixFacts ==
  ASSUME NEW S, NEW s \in Seq(S)
  PROVE  /\ SendPrefix(s) \in Seq(S) /\ ToSet(SendPrefix(s)) \subseteq ToSet(s)
         /\ Len(s) <= BatchMax => SendPrefix(s) = s
<1>1. Len(s) \in Nat /\ DOMAIN s = 1..Len(s) /\ BatchMax \in Nat
  BY SizeAssumption
<1>2. CASE Len(s) <= BatchMax
  <2>1. SendPrefix(s) = s
    <3>1. ~(Len(s) > BatchMax)
      BY <1>1, <1>2
    <3> QED
      BY <3>1 DEF SendPrefix
  <2> QED
    BY <1>2, <2>1
<1>3. CASE Len(s) > BatchMax
  <2>1. SendPrefix(s) = SubSeq(s, 1, BatchMax)
    BY <1>3 DEF SendPrefix
  <2>2. SendPrefix(s) \in Seq(S) /\ Len(SendPrefix(s)) = BatchMax
    BY <1>1, <1>3, <2>1
  <2>3. \A i \in 1..BatchMax : SendPrefix(s)[i] = s[i] /\ i \in DOMAIN s
    BY <1>1, <1>3, <2>1
  <2>4. ToSet(SendPrefix(s)) \subseteq ToSet(s)
    BY <2>2, <2>3 DEF ToSet
  <2> QED
    BY <1>1, <1>3, <2>2, <2>4
<1> QED
  BY <1>1, <1>2, <1>3

LEMMA IncreasingFacts ==
  ASSUME NEW s \in Seq(Nat), StrictlyIncreasing(s)
  PROVE  /\ \A n \in Nat : StrictlyIncreasing(Newest(s, n))
         /\ \A x \in Nat : (\A y \in ToSet(s) : y < x) => StrictlyIncreasing(Append(s, x))
         /\ \A t \in Seq(Nat) :
              StrictlyIncreasing(t) /\ (\A x \in ToSet(s), y \in ToSet(t) : x < y)
              => StrictlyIncreasing(s \o t)
<1>1. ASSUME NEW n \in Nat
      PROVE  StrictlyIncreasing(Newest(s, n))
  <2>1. /\ Newest(s, n) \in Seq(Nat) /\ Len(Newest(s, n)) \in Nat /\ Len(Newest(s, n)) <= Len(s)
        /\ \A i \in 1..Len(Newest(s, n)) :
              /\ i + (Len(s) - Len(Newest(s, n))) \in 1..Len(s)
              /\ Newest(s, n)[i] = s[i + (Len(s) - Len(Newest(s, n)))]
    BY NewestFacts
  <2>2. DOMAIN Newest(s, n) = 1..Len(Newest(s, n)) /\ DOMAIN s = 1..Len(s) /\ Len(s) \in Nat
    BY <2>1
  <2> DEFINE d == Len(s) - Len(Newest(s, n))
  <2>3. d \in Nat
    BY <2>1, <2>2
  <2>4. \A i, j \in 1..Len(s) : i < j => s[i] < s[j]
    BY <2>2 DEF StrictlyIncreasing
  <2> SUFFICES ASSUME NEW i \in 1..Len(Newest(s, n)), NEW j \in 1..Len(Newest(s, n)), i < j
               PROVE  Newest(s, n)[i] < Newest(s, n)[j]
    BY <2>2 DEF StrictlyIncreasing
  <2>5. /\ Newest(s, n)[i] = s[i + d] /\ Newest(s, n)[j] = s[j + d]
        /\ i + d \in 1..Len(s) /\ j + d \in 1..Len(s) /\ i \in Nat /\ j \in Nat
    BY <2>1
  <2> HIDE DEF d
  <2>6. i + d < j + d
    BY <2>3, <2>5
  <2> QED
    BY <2>4, <2>5, <2>6
<1>2. ASSUME NEW x \in Nat, \A y \in ToSet(s) : y < x
      PROVE  StrictlyIncreasing(Append(s, x))
  <2>1. /\ DOMAIN Append(s, x) = 1..Len(s) + 1 /\ DOMAIN s = 1..Len(s) /\ Len(s) \in Nat
        /\ \A i \in 1..Len(s) + 1 : Append(s, x)[i] = IF i = Len(s) + 1 THEN x ELSE s[i]
    OBVIOUS
  <2>2. \A i \in 1..Len(s) : s[i] < x
    BY <1>2, <2>1 DEF ToSet
  <2> QED
    BY <2>1, <2>2 DEF StrictlyIncreasing
<1>3. ASSUME NEW t \in Seq(Nat), StrictlyIncreasing(t), \A x \in ToSet(s), y \in ToSet(t) : x < y
      PROVE  StrictlyIncreasing(s \o t)
  <2>1. /\ DOMAIN (s \o t) = 1..Len(s) + Len(t) /\ Len(s) \in Nat /\ Len(t) \in Nat
        /\ DOMAIN s = 1..Len(s) /\ DOMAIN t = 1..Len(t)
        /\ \A i \in 1..Len(s) + Len(t) : (s \o t)[i] = IF i <= Len(s) THEN s[i] ELSE t[i - Len(s)]
    OBVIOUS
  <2>2. \A i \in 1..Len(s), j \in 1..Len(t) : s[i] < t[j]
    BY <1>3, <2>1 DEF ToSet
  <2> SUFFICES ASSUME NEW i \in 1..Len(s) + Len(t), NEW j \in 1..Len(s) + Len(t), i < j
               PROVE  (s \o t)[i] < (s \o t)[j]
    BY <2>1 DEF StrictlyIncreasing
  <2>3. CASE j <= Len(s)
    <3>1. i \in DOMAIN s /\ j \in DOMAIN s /\ (s \o t)[i] = s[i] /\ (s \o t)[j] = s[j]
      BY <2>1, <2>3
    <3> QED
      BY <3>1 DEF StrictlyIncreasing
  <2>4. CASE i <= Len(s) /\ j > Len(s)
    BY <2>1, <2>2, <2>4
  <2>5. CASE i > Len(s)
    <3>1. i - Len(s) \in 1..Len(t) /\ j - Len(s) \in 1..Len(t) /\ i - Len(s) < j - Len(s)
      BY <2>1, <2>5
    <3>2. t[i - Len(s)] < t[j - Len(s)]
      BY <1>3, <2>1, <3>1 DEF StrictlyIncreasing
    <3> QED
      BY <2>1, <2>5, <3>2
  <2> QED
    BY <2>1, <2>3, <2>4, <2>5
<1> QED
  BY <1>1, <1>2, <1>3
\* Refill keeps what came in meanwhile and the newest of what was taken, up
\* to a full buffer.
LEMMA RefillFacts ==
  ASSUME TypeOK
  PROVE  /\ Refill(flight) \in Seq(Entries) /\ Len(Refill(flight)) <= Cap
         /\ ToSet(buffer) \subseteq ToSet(Refill(flight))
         /\ ToSet(Refill(flight)) \subseteq ToSet(flight) \cup ToSet(buffer)
         /\ Len(flight) + Len(buffer) <= Cap => ToSet(flight) \subseteq ToSet(Refill(flight))
<1>1. /\ buffer \in Seq(Entries) /\ flight \in Seq(Entries) /\ Len(buffer) <= Cap
      /\ Len(buffer) \in Nat /\ Len(flight) \in Nat /\ Cap \in Nat
  BY SizeAssumption DEF TypeOK
<1>2. CASE Cap > Len(buffer)
  <2> DEFINE room == Cap - Len(buffer)
             kept == Newest(flight, room)
  <2>1. room \in Nat /\ Refill(flight) = kept \o buffer
    BY <1>1, <1>2 DEF Refill
  <2>2. kept \in Seq(Entries) /\ Len(kept) = (IF Len(flight) > room THEN room ELSE Len(flight))
        /\ ToSet(kept) \subseteq ToSet(flight)
    BY <1>1, <2>1, NewestFacts
  <2>3. Len(flight) <= room => kept = flight
    BY <1>1, <2>1 DEF Newest
  <2> HIDE DEF kept
  <2>4. Refill(flight) \in Seq(Entries) /\ Len(Refill(flight)) = Len(kept) + Len(buffer)
    BY <1>1, <2>1, <2>2, ConcatProperties
  <2>5. Len(Refill(flight)) <= Cap
    BY <1>1, <2>1, <2>2, <2>4
  <2>6. ToSet(Refill(flight)) = ToSet(kept) \cup ToSet(buffer)
    BY <1>1, <2>1, <2>2, ToSetConcat
  <2>7. Len(flight) + Len(buffer) <= Cap => Len(flight) <= room
    BY <1>1
  <2> QED
    BY <2>2, <2>3, <2>4, <2>5, <2>6, <2>7
<1>3. CASE ~(Cap > Len(buffer))
  <2>1. Refill(flight) = buffer
    BY <1>3 DEF Refill
  <2>2. Len(flight) + Len(buffer) <= Cap => flight = << >>
    BY <1>1, <1>3
  <2> QED
    BY <1>1, <2>1, <2>2, ToSetEmpty
<1> QED
  BY <1>2, <1>3

-----------------------------------------------------------------------------
(* Types.                                                                  *)

LEMMA ReadableFacts ==
  ASSUME TypeOK
  PROVE  /\ Readable(wal) \in Seq(Entries) /\ Len(Readable(wal)) <= Cap
         /\ Readable(wal) # Torn /\ Len(Readable(wal)) <= WalMax
<1>1. wal # Torn => wal \in Seq(Entries) /\ Len(wal) <= WalMax
  BY DEF TypeOK
<1>2. \A s \in Seq(Entries) : s # Torn
  <2>1. Entries \subseteq Nat
    BY DEF Entries
  <2> QED
    BY <2>1, TornAssumption, SeqMonotonic
<1>3. << >> \in Seq(Entries) /\ Len(<< >>) = 0
  OBVIOUS
<1>4. Cap \in Nat /\ WalMax \in Nat /\ WalMax <= Cap
  BY SizeAssumption
<1>5. CASE wal = Torn
  <2>1. Readable(wal) = << >>
    BY <1>5 DEF Readable
  <2>2. << >> \in Seq(Entries) /\ << >> # Torn
    BY <1>2, <1>3
  <2>3. Len(<< >>) <= Cap /\ Len(<< >>) <= WalMax
    BY <1>3, <1>4
  <2> QED
    BY <2>1, <2>2, <2>3
<1>6. CASE wal # Torn
  <2>1. Readable(wal) = wal
    BY <1>6 DEF Readable
  <2>2. Len(wal) \in Nat
    BY <1>1, <1>6
  <2> QED
    BY <1>1, <1>4, <1>6, <2>1, <2>2
<1> QED
  BY <1>5, <1>6

LEMMA TypeInit == Init => TypeOK
<1> SUFFICES ASSUME Init PROVE TypeOK
  OBVIOUS
<1>1. << >> \in Seq(Entries) /\ Len(<< >>) = 0
  OBVIOUS
<1> QED
  BY <1>1, SizeAssumption, BoundAssumption DEF Init, TypeOK, PCs

LEMMA PutBackType ==
  ASSUME TypeOK, PutBack, faults' \in 0..MaxFaults
  PROVE  TypeOK'
<1>1. << >> \in Seq(Entries) /\ Len(<< >>) = 0
  OBVIOUS
<1>2. retries' \in [Entries -> Nat]
  BY DEF PutBack, TypeOK
<1> QED
  BY <1>1, <1>2, RefillFacts, SizeAssumption DEF PutBack, TypeOK, PCs

LEMMA TypeStep == TypeOK /\ [Next]_vars => TypeOK'
<1> SUFFICES ASSUME TypeOK, [Next]_vars PROVE TypeOK'
  OBVIOUS
<1> USE DEF TypeOK
<1>0. << >> \in Seq(Entries) /\ Len(<< >>) = 0 /\ Cap \in Nat /\ WalMax \in Nat
  BY SizeAssumption
<1>1. CASE Start
  <2>1. buffer' \in Seq(Entries) /\ Len(buffer') <= Cap
    <3>1. Len(<< >>) <= Cap
      BY <1>0
    <3>2. buffer' \in {Readable(wal), << >>}
      BY <1>1 DEF Start
    <3> QED
      BY <1>0, <3>1, <3>2, ReadableFacts
  <2>2. wal' \in Seq(Entries) \cup {Torn} /\ (wal' # Torn => Len(wal') <= WalMax)
    BY <1>1, ReadableFacts DEF Start
  <2>3. boots' \in 0..MaxBoots /\ acked' = {}
    BY <1>1, BoundAssumption DEF Start
  <2> QED
    BY <1>1, <2>1, <2>2, <2>3 DEF Start, PCs, serverVars
<1>2. CASE EndProcess
  BY <1>0, <1>2 DEF EndProcess, PCs, counters
<1>3. CASE Cancel
  BY <1>3 DEF Cancel, serverVars, counters
<1>4. CASE Push
  <2>1. next \in Entries /\ next' \in 1..MaxEntry + 1
    BY <1>4, BoundAssumption DEF Push, Entries
  <2>2. buffer' \in Seq(Entries) /\ Len(buffer') <= Cap
    BY <1>0, <1>4, <2>1 DEF Push
  <2> QED
    BY <1>4, <2>1, <2>2 DEF Push, serverVars, counters
<1>5. CASE FlushEmpty
  BY <1>0, <1>5 DEF FlushEmpty, Begin, Loop, PCs, serverVars, counters
<1>6. CASE FlushTake
  <2>1. SendPrefix(buffer) \in Seq(Entries)
    BY PrefixFacts
  <2>2. net' \subseteq [id : Nat, batch : Seq(Entries)]
    BY <1>6, <2>1 DEF FlushTake
  <2> QED
    BY <1>0, <1>6, <2>2 DEF FlushTake, Begin, PCs, counters
<1>7. CASE SendSucceeds
  <2>1. ToSet(SendPrefix(flight)) \subseteq Entries
    BY PrefixFacts, ToSetType
  <2> QED
    BY <1>0, <1>7, <2>1 DEF SendSucceeds, PCs, serverVars
<1>8. CASE SendFails \/ SendTimesOut
  <2>1. PutBack /\ faults' \in 0..MaxFaults
    BY <1>8, BoundAssumption DEF SendFails, SendTimesOut
  <2> QED
    BY <2>1, PutBackType
<1>9. CASE SaveWal
  <2>1. Newest(snap, WalMax) \in Seq(Entries) /\ Len(Newest(snap, WalMax)) <= WalMax
    BY <1>0, NewestFacts
  <2> QED
    BY <1>0, <1>9, <2>1 DEF SaveWal, Loop, PCs, serverVars, counters
<1>10. CASE ClearWal
  BY <1>0, <1>10 DEF ClearWal, Loop, PCs, serverVars, counters
<1>11. ASSUME NEW r \in net, Ingest(r)
       PROVE  TypeOK'
  BY <1>11 DEF Ingest, Answer, agentVars, counters
<1>12. ASSUME NEW r \in net, Refuse(r)
       PROVE  TypeOK'
  BY <1>12, BoundAssumption DEF Refuse, Answer, agentVars
<1>13. CASE UNCHANGED vars
  BY <1>13 DEF vars, agentVars, serverVars, counters
<1> QED
  BY <1>1, <1>2, <1>3, <1>4, <1>5, <1>6, <1>7, <1>8, <1>9, <1>10, <1>11, <1>12, <1>13 DEF Next
-----------------------------------------------------------------------------
(* The inductive invariants, on top of TypeOK.                             *)

\* What is where in the flush: entries are in flight only while Send waits,
\* and what is to be saved is in the buffer too.
PlaceInv ==
  /\ pc # "waiting" => flight = << >>
  /\ pc # "saveWal" => snap = << >>
  /\ pc = "down" => buffer = << >>
  /\ ToSet(snap) \subseteq ToSet(buffer)

\* Every place holds entries in order, all of them read, and what is in flight
\* is older than what came in meanwhile.
OrderInv ==
  /\ StrictlyIncreasing(flight) /\ StrictlyIncreasing(buffer) /\ StrictlyIncreasing(snap)
  /\ wal # Torn => StrictlyIncreasing(wal)
  /\ \A x \in ToSet(flight), y \in ToSet(buffer) : x < y
  /\ \A x \in ToSet(flight) \cup ToSet(buffer) \cup ToSet(snap) \cup ToSet(Readable(wal)) : x < next

\* An acknowledged entry is out of the WAL until one is written after it.
AckInv ==
  /\ \A e \in acked : e < next
  /\ acked \cap (ToSet(buffer) \cup ToSet(flight)) = {}
  /\ pc \in {"idle", "waiting", "saveWal"} => acked \cap ToSet(Readable(wal)) = {}

\* The request that Send waits for holds what was taken, and a success says
\* that the server has stored it.
NetInv ==
  /\ \A r \in net : r.id <= reqNo /\ \A e \in ToSet(r.batch) : e < next
  /\ \A e \in Entries : e >= next => stored[e] = 0
  /\ pc = "waiting" => \A r \in net : r.id = reqNo => r.batch = SendPrefix(flight)
  /\ pc = "waiting" /\ reply = "ok" => \A e \in ToSet(SendPrefix(flight)) : stored[e] > 0

\* The requests that may still store an entry, and whether this process may
\* send it again before it takes a request for failed.
Owed(e) == {r \in net : e \in ToSet(r.batch)}
Ready(e) == e \in ToSet(buffer) \cup (ToSet(flight) \ ToSet(SendPrefix(flight)))

\* Stored, on the way, or still to be sent: each time is paid for by a start
\* of the process or by a request that it took for failed.
CountInv ==
  /\ IsFiniteSet(net) /\ (pc # "down" => boots > 0)
  /\ \A e \in Entries :
       stored[e] + Cardinality(Owed(e)) + (IF Ready(e) THEN 1 ELSE 0) <= retries[e] + boots

LEMMA PlaceInit == Init => PlaceInv
BY ToSetEmpty DEF Init, PlaceInv

LEMMA PlaceStep == TypeOK /\ PlaceInv /\ [Next]_vars => PlaceInv'
<1> SUFFICES ASSUME TypeOK, PlaceInv, [Next]_vars PROVE PlaceInv'
  OBVIOUS
<1> USE ToSetEmpty DEF PlaceInv
<1>1. CASE Start
  BY <1>1 DEF Start
<1>2. CASE EndProcess
  BY <1>2 DEF EndProcess
<1>3. CASE Cancel
  BY <1>3 DEF Cancel
<1>4. CASE Push
  <2>1. ToSet(buffer) \subseteq ToSet(buffer')
    <3>1. next \in Entries /\ buffer \in Seq(Entries)
      BY <1>4 DEF Push, TypeOK, Entries
    <3> QED
      BY <1>4, <3>1, ToSetAppend DEF Push
  <2> QED
    BY <1>4, <2>1 DEF Push
<1>5. CASE FlushEmpty
  BY <1>5 DEF FlushEmpty, Loop
<1>6. CASE FlushTake
  BY <1>6 DEF FlushTake
<1>7. CASE SendSucceeds
  BY <1>7 DEF SendSucceeds
<1>8. CASE SendFails \/ SendTimesOut
  BY <1>8 DEF SendFails, SendTimesOut, PutBack
<1>9. CASE SaveWal
  BY <1>9 DEF SaveWal, Loop
<1>10. CASE ClearWal
  BY <1>10 DEF ClearWal, Loop
<1>11. ASSUME NEW r \in net, Ingest(r) \/ Refuse(r)
       PROVE  PlaceInv'
  BY <1>11 DEF Ingest, Refuse, agentVars
<1>12. CASE UNCHANGED vars
  BY <1>12 DEF vars, agentVars
<1> QED
  BY <1>1, <1>2, <1>3, <1>4, <1>5, <1>6, <1>7, <1>8, <1>9, <1>10, <1>11, <1>12 DEF Next

LEMMA EmptyFacts ==
  StrictlyIncreasing(<< >>) /\ ToSet(<< >>) = {} /\ Readable(<< >>) = << >> /\ Readable(Torn) = << >>
BY ToSetEmpty DEF StrictlyIncreasing, Readable

LEMMA OrderInit == Init => OrderInv
BY EmptyFacts DEF Init, OrderInv

\* What is read next is newer than anything in the pipeline.
LEMMA OrderStep == TypeOK /\ PlaceInv /\ OrderInv /\ [Next]_vars => OrderInv'
<1> SUFFICES ASSUME TypeOK, PlaceInv, OrderInv, [Next]_vars PROVE OrderInv'
  OBVIOUS
<1>0. /\ flight \in Seq(Nat) /\ buffer \in Seq(Nat) /\ snap \in Seq(Nat) /\ Readable(wal) \in Seq(Nat)
      /\ flight \in Seq(Entries) /\ buffer \in Seq(Entries) /\ snap \in Seq(Entries)
      /\ next \in Nat /\ Cap \in Nat /\ WalMax \in Nat
  <2>1. Entries \subseteq Nat
    BY DEF Entries
  <2>2. /\ flight \in Seq(Entries) /\ buffer \in Seq(Entries) /\ snap \in Seq(Entries)
        /\ Readable(wal) \in Seq(Entries)
    BY ReadableFacts DEF TypeOK
  <2>3. next \in Nat /\ Cap \in Nat /\ WalMax \in Nat
    BY SizeAssumption DEF TypeOK
  <2> QED
    BY <2>1, <2>2, <2>3, SeqMonotonic
<1>w. StrictlyIncreasing(Readable(wal)) /\ (wal # Torn => Readable(wal) = wal)
  BY EmptyFacts DEF OrderInv, Readable
<1>1. CASE Start
  <2>1. flight = << >> /\ snap = << >>
    BY <1>1 DEF Start, PlaceInv
  <2>2. /\ buffer' \in {Readable(wal), << >>} /\ wal' \in {Readable(wal), wal}
        /\ UNCHANGED <<flight, snap, next>>
    BY <1>1 DEF Start
  <2>3. Readable(Readable(wal)) = Readable(wal)
    BY DEF Readable
  <2> QED
    BY <1>w, <2>1, <2>2, <2>3, EmptyFacts DEF OrderInv
<1>2. CASE EndProcess
  BY <1>2, EmptyFacts DEF EndProcess, OrderInv
<1>3. CASE Cancel
  BY <1>3 DEF Cancel, OrderInv
<1>4. CASE Push
  <2>1. next' = next + 1 /\ UNCHANGED <<flight, snap, wal>> /\ next \in Entries
    BY <1>4 DEF Push, TypeOK, Entries
  <2>2. \A x \in ToSet(flight) \cup ToSet(buffer) \cup ToSet(snap) \cup ToSet(Readable(wal)) :
          x \in Nat /\ x < next
    BY <1>0, ToSetType DEF OrderInv
  <2>3. StrictlyIncreasing(buffer') /\ ToSet(buffer') \subseteq ToSet(buffer) \cup {next}
    <3>1. StrictlyIncreasing(Append(buffer, next)) /\ ToSet(Append(buffer, next)) = ToSet(buffer) \cup {next}
      BY <1>0, <2>1, <2>2, IncreasingFacts, ToSetAppend DEF OrderInv
    <3> QED
      BY <1>4, <3>1 DEF Push, OrderInv
  <2> QED
    BY <1>0, <2>1, <2>2, <2>3 DEF OrderInv
<1>5. CASE FlushEmpty
  BY <1>5, EmptyFacts DEF FlushEmpty, OrderInv
<1>6. CASE FlushTake
  BY <1>6, EmptyFacts DEF FlushTake, OrderInv, PlaceInv
<1>7. CASE SendSucceeds
  BY <1>7, EmptyFacts DEF SendSucceeds, OrderInv
<1>8. CASE SendFails \/ SendTimesOut
  <2>1. buffer' = Refill(flight) /\ snap' = Refill(flight) /\ flight' = << >> /\ UNCHANGED <<wal, next>>
    BY <1>8 DEF SendFails, SendTimesOut, PutBack
  <2>2. StrictlyIncreasing(Refill(flight))
    <3>1. CASE Cap > Len(buffer)
      <4>1. Cap - Len(buffer) \in Nat /\ Refill(flight) = Newest(flight, Cap - Len(buffer)) \o buffer
        BY <1>0, <3>1 DEF Refill
      <4>2. /\ Newest(flight, Cap - Len(buffer)) \in Seq(Nat)
            /\ ToSet(Newest(flight, Cap - Len(buffer))) \subseteq ToSet(flight)
            /\ StrictlyIncreasing(Newest(flight, Cap - Len(buffer)))
        BY <1>0, <4>1, NewestFacts, IncreasingFacts DEF OrderInv
      <4> QED
        BY <1>0, <4>1, <4>2, IncreasingFacts DEF OrderInv
    <3>2. CASE ~(Cap > Len(buffer))
      BY <3>2 DEF Refill, OrderInv
    <3> QED
      BY <3>1, <3>2
  <2> QED
    BY <2>1, <2>2, RefillFacts, EmptyFacts DEF OrderInv
<1>9. CASE SaveWal
  <2>1. StrictlyIncreasing(Newest(snap, WalMax)) /\ ToSet(Newest(snap, WalMax)) \subseteq ToSet(snap)
    BY <1>0, NewestFacts, IncreasingFacts DEF OrderInv
  <2>2. ToSet(Readable(Newest(snap, WalMax))) \subseteq ToSet(snap)
    BY <2>1, EmptyFacts DEF Readable
  <2> QED
    BY <1>9, <2>1, <2>2, EmptyFacts DEF SaveWal, OrderInv
<1>10. CASE ClearWal
  BY <1>10, EmptyFacts DEF ClearWal, OrderInv
<1>11. ASSUME NEW r \in net, Ingest(r) \/ Refuse(r)
       PROVE  OrderInv'
  BY <1>11 DEF Ingest, Refuse, agentVars, OrderInv
<1>12. CASE UNCHANGED vars
  BY <1>12 DEF vars, agentVars, OrderInv
<1> QED
  BY <1>1, <1>2, <1>3, <1>4, <1>5, <1>6, <1>7, <1>8, <1>9, <1>10, <1>11, <1>12 DEF Next
LEMMA AckInit == Init => AckInv
BY EmptyFacts DEF Init, AckInv

LEMMA AckStep == TypeOK /\ PlaceInv /\ OrderInv /\ AckInv /\ [Next]_vars => AckInv'
<1> SUFFICES ASSUME TypeOK, PlaceInv, OrderInv, AckInv, [Next]_vars PROVE AckInv'
  OBVIOUS
<1>0. /\ flight \in Seq(Entries) /\ buffer \in Seq(Entries) /\ snap \in Seq(Entries)
      /\ acked \subseteq Nat /\ next \in Nat /\ WalMax \in Nat
  BY SizeAssumption DEF TypeOK, Entries
<1>1. CASE Start
  <2>1. acked' = {}
    BY <1>1 DEF Start
  <2> QED
    BY <2>1 DEF AckInv
<1>2. CASE EndProcess
  BY <1>2, EmptyFacts DEF EndProcess, AckInv, counters
<1>3. CASE Cancel
  BY <1>3 DEF Cancel, AckInv, counters
<1>4. CASE Push
  <2>1. next' = next + 1 /\ UNCHANGED <<pc, flight, wal, acked>> /\ next \in Entries
    BY <1>4 DEF Push, TypeOK, Entries, counters
  <2>2. ToSet(buffer') \subseteq ToSet(buffer) \cup {next}
    BY <1>0, <1>4, <2>1, ToSetAppend DEF Push
  <2>3. next \notin acked /\ \A e \in acked : e < next'
    BY <1>0, <2>1 DEF AckInv
  <2> QED
    BY <2>1, <2>2, <2>3 DEF AckInv
<1>5. CASE FlushEmpty
  BY <1>5, EmptyFacts DEF FlushEmpty, AckInv, counters
<1>6. CASE FlushTake
  BY <1>6, EmptyFacts DEF FlushTake, AckInv, PlaceInv, counters
<1>7. CASE SendSucceeds
  <2>1. ToSet(SendPrefix(flight)) \subseteq ToSet(flight)
    BY <1>0, PrefixFacts
  <2>2. \A x \in ToSet(flight) : x < next /\ x \notin ToSet(buffer)
    <3>1. \A x \in ToSet(flight) : x \in Nat /\ ~(x < x)
      <4>1. ToSet(flight) \subseteq Entries
        BY <1>0, ToSetType
      <4>3. Entries \subseteq Nat
        BY DEF Entries
      <4>2. \A x \in Nat : ~(x < x)
        OBVIOUS
      <4> QED
        BY <4>1, <4>2, <4>3
    <3> QED
      BY <3>1 DEF OrderInv
  <2>3. /\ pc' = "clearWal" /\ acked' = acked \cup ToSet(SendPrefix(flight))
        /\ flight' = << >> /\ UNCHANGED <<buffer, next>>
    BY <1>7 DEF SendSucceeds
  <2> QED
    BY <2>1, <2>2, <2>3, EmptyFacts DEF AckInv
<1>8. CASE SendFails \/ SendTimesOut
  <2>1. /\ buffer' = Refill(flight) /\ flight' = << >> /\ pc = "waiting"
        /\ UNCHANGED <<wal, next, acked>>
    BY <1>8 DEF SendFails, SendTimesOut, PutBack
  <2> QED
    BY <2>1, RefillFacts, EmptyFacts DEF AckInv
<1>9. CASE SaveWal
  <2>1. ToSet(Newest(snap, WalMax)) \subseteq ToSet(buffer)
    BY <1>0, NewestFacts DEF PlaceInv
  <2>2. ToSet(Readable(Newest(snap, WalMax))) \subseteq ToSet(buffer)
    BY <2>1, EmptyFacts DEF Readable
  <2> QED
    BY <1>9, <2>2, EmptyFacts DEF SaveWal, AckInv, counters
<1>10. CASE ClearWal
  BY <1>10, EmptyFacts DEF ClearWal, AckInv, counters
<1>11. ASSUME NEW r \in net, Ingest(r) \/ Refuse(r)
       PROVE  AckInv'
  BY <1>11 DEF Ingest, Refuse, agentVars, counters, AckInv
<1>12. CASE UNCHANGED vars
  BY <1>12 DEF vars, agentVars, counters, AckInv
<1> QED
  BY <1>1, <1>2, <1>3, <1>4, <1>5, <1>6, <1>7, <1>8, <1>9, <1>10, <1>11, <1>12 DEF Next

LEMMA NetInit == Init => NetInv
BY DEF Init, NetInv

LEMMA NetStep == TypeOK /\ PlaceInv /\ OrderInv /\ NetInv /\ [Next]_vars => NetInv'
<1> SUFFICES ASSUME TypeOK, PlaceInv, OrderInv, NetInv, [Next]_vars PROVE NetInv'
  OBVIOUS
<1>0. /\ flight \in Seq(Entries) /\ buffer \in Seq(Entries) /\ next \in Nat /\ reqNo \in Nat
      /\ stored \in [Entries -> Nat] /\ \A r \in net : r.id \in Nat /\ ToSet(r.batch) \subseteq Nat
  <2>1. \A r \in net : r.id \in Nat /\ ToSet(r.batch) \subseteq Entries
    BY ToSetType DEF TypeOK
  <2>2. Entries \subseteq Nat
    BY DEF Entries
  <2>3. next \in Nat
    BY DEF TypeOK
  <2> QED
    BY <2>1, <2>2, <2>3 DEF TypeOK
<1>1. ASSUME UNCHANGED <<next, net, reqNo, stored>>, pc' # "waiting"
      PROVE  NetInv'
  BY <1>1 DEF NetInv
<1>2. CASE Start \/ EndProcess
  BY <1>1, <1>2 DEF Start, EndProcess, serverVars
<1>3. CASE Cancel
  BY <1>3 DEF Cancel, serverVars, NetInv
<1>4. CASE Push
  <2>1. next' = next + 1 /\ UNCHANGED <<pc, flight, net, reqNo, reply, stored>>
    BY <1>4 DEF Push, serverVars
  <2>2. \A e : e \in Nat /\ e < next => e < next'
    BY <1>0, <2>1
  <2>3. \A e \in Entries : e >= next' => e >= next
    BY <1>0, <2>1 DEF Entries
  <2> QED
    BY <1>0, <2>1, <2>2, <2>3 DEF NetInv
<1>5. CASE FlushEmpty \/ SendSucceeds \/ SendFails \/ SendTimesOut \/ SaveWal \/ ClearWal
  <2>1. pc' # "waiting"
    BY <1>5 DEF FlushEmpty, SendSucceeds, SendFails, SendTimesOut, PutBack, SaveWal, ClearWal, Loop
  <2>2. UNCHANGED <<next, net, reqNo, stored>>
    BY <1>5 DEF FlushEmpty, SendSucceeds, SendFails, SendTimesOut, PutBack, SaveWal, ClearWal, serverVars
  <2> QED
    BY <1>1, <2>1, <2>2
<1>6. CASE FlushTake
  <2> DEFINE q == [id |-> reqNo + 1, batch |-> SendPrefix(buffer)]
  <2>1. /\ net' = net \cup {q} /\ reqNo' = reqNo + 1 /\ flight' = buffer /\ reply' = "none"
        /\ UNCHANGED <<next, stored>>
    BY <1>6 DEF FlushTake
  <2>2. \A e \in ToSet(SendPrefix(buffer)) : e < next
    BY <1>0, PrefixFacts DEF OrderInv
  <2>3. \A r \in net : r.id <= reqNo' /\ r.id # reqNo'
    BY <1>0, <2>1 DEF NetInv
  <2>4. reqNo' <= reqNo'
    BY <1>0, <2>1
  <2>5. q.id = reqNo' /\ q.batch = SendPrefix(flight')
    BY <2>1
  <2> HIDE DEF q
  <2>6. \A r \in net' : /\ r.id <= reqNo' /\ (r.id = reqNo' => r.batch = SendPrefix(flight'))
                        /\ \A e \in ToSet(r.batch) : e < next'
    BY <2>1, <2>2, <2>3, <2>4, <2>5 DEF NetInv
  <2> QED
    BY <2>1, <2>6 DEF NetInv
<1>7. ASSUME NEW r \in net, Ingest(r)
      PROVE  NetInv'
  <2>1. /\ net' \subseteq net /\ UNCHANGED <<pc, flight, reqNo, next>>
        /\ stored' = [e \in Entries |-> IF e \in ToSet(r.batch) THEN stored[e] + 1 ELSE stored[e]]
        /\ reply' = (IF pc = "waiting" /\ r.id = reqNo THEN "ok" ELSE reply)
    BY <1>7 DEF Ingest, Answer, agentVars
  <2>2. \A e \in Entries : e >= next => stored'[e] = 0
    <3> SUFFICES ASSUME NEW e \in Entries, e >= next PROVE stored'[e] = 0
      OBVIOUS
    <3>1. e \notin ToSet(r.batch)
      BY <1>0 DEF NetInv, Entries
    <3> QED
      BY <2>1, <3>1 DEF NetInv
  <2>3. ASSUME pc = "waiting", reply' = "ok", NEW e \in ToSet(SendPrefix(flight))
        PROVE  stored'[e] > 0
    <3>1. e \in Entries
      BY <1>0, PrefixFacts, ToSetType
    <3>2. stored'[e] = (IF e \in ToSet(r.batch) THEN stored[e] + 1 ELSE stored[e]) /\ stored[e] \in Nat
      BY <1>0, <2>1, <3>1
    <3>3. e \in ToSet(r.batch) \/ stored[e] > 0
      BY <2>1, <2>3 DEF NetInv
    <3> QED
      BY <3>2, <3>3
  <2> QED
    BY <2>1, <2>2, <2>3 DEF NetInv
<1>8. ASSUME NEW r \in net, Refuse(r)
      PROVE  NetInv'
  <2>1. net' \subseteq net /\ UNCHANGED <<pc, flight, reqNo, next, stored>> /\ reply' \in {reply, "err"}
    BY <1>8 DEF Refuse, Answer, agentVars
  <2> QED
    BY <2>1 DEF NetInv
<1>9. CASE UNCHANGED vars
  BY <1>9 DEF vars, agentVars, serverVars, NetInv
<1> QED
  BY <1>2, <1>3, <1>4, <1>5, <1>6, <1>7, <1>8, <1>9 DEF Next
-----------------------------------------------------------------------------
(* How often an entry is stored.                                           *)

\* Requests that hold an entry, when the network gains or loses one.
LEMMA OwedFacts ==
  ASSUME IsFiniteSet(net), NEW e, NEW r
  PROVE  /\ IsFiniteSet(Owed(e)) /\ Cardinality(Owed(e)) \in Nat
         /\ \A N : N \subseteq net =>
              Cardinality({q \in N : e \in ToSet(q.batch)}) <= Cardinality(Owed(e))
              /\ Cardinality({q \in N : e \in ToSet(q.batch)}) \in Nat
         /\ e \in ToSet(r.batch) =>
              Cardinality({q \in net \cup {r} : e \in ToSet(q.batch)}) <= Cardinality(Owed(e)) + 1
         /\ e \notin ToSet(r.batch) => {q \in net \cup {r} : e \in ToSet(q.batch)} = Owed(e)
         /\ Cardinality({q \in net \cup {r} : e \in ToSet(q.batch)}) \in Nat
         /\ r \in net /\ e \in ToSet(r.batch) =>
              Cardinality({q \in net \ {r} : e \in ToSet(q.batch)}) = Cardinality(Owed(e)) - 1
<1>1. IsFiniteSet(Owed(e)) /\ Cardinality(Owed(e)) \in Nat
  BY FS_Subset, FS_CardinalityType DEF Owed
<1>2. ASSUME NEW N, N \subseteq net
      PROVE  Cardinality({q \in N : e \in ToSet(q.batch)}) <= Cardinality(Owed(e))
             /\ Cardinality({q \in N : e \in ToSet(q.batch)}) \in Nat
  <2>1. {q \in N : e \in ToSet(q.batch)} \subseteq Owed(e)
    BY <1>2 DEF Owed
  <2> QED
    BY <1>1, <2>1, FS_Subset, FS_CardinalityType
<1>3. CASE e \in ToSet(r.batch)
  <2>1. {q \in net \cup {r} : e \in ToSet(q.batch)} = Owed(e) \cup {r}
    BY <1>3 DEF Owed
  <2>2. r \in net => {q \in net \ {r} : e \in ToSet(q.batch)} = Owed(e) \ {r} /\ r \in Owed(e)
    BY <1>3 DEF Owed
  <2>3. Cardinality(Owed(e) \cup {r}) <= Cardinality(Owed(e)) + 1 /\ Cardinality(Owed(e) \cup {r}) \in Nat
    <3>1. Cardinality(Owed(e) \cup {r}) = IF r \in Owed(e) THEN Cardinality(Owed(e)) ELSE Cardinality(Owed(e)) + 1
      BY <1>1, FS_AddElement
    <3> QED
      BY <1>1, <3>1
  <2>4. r \in Owed(e) => Cardinality(Owed(e) \ {r}) = Cardinality(Owed(e)) - 1
    BY <1>1, FS_RemoveElement
  <2> QED
    BY <1>1, <1>2, <1>3, <2>1, <2>2, <2>3, <2>4
<1>4. CASE e \notin ToSet(r.batch)
  <2>1. {q \in net \cup {r} : e \in ToSet(q.batch)} = Owed(e)
    BY <1>4 DEF Owed
  <2> QED
    BY <1>1, <1>2, <1>4, <2>1
<1> QED
  BY <1>3, <1>4

LEMMA CountInit == Init => CountInv
<1> SUFFICES ASSUME Init PROVE CountInv
  OBVIOUS
<1>1. net = {} /\ IsFiniteSet(net) /\ \A e : Owed(e) = {} /\ Cardinality(Owed(e)) = 0
  BY FS_EmptySet DEF Init, Owed
<1>2. \A e \in Entries : stored[e] = 0 /\ retries[e] = 0 /\ ~Ready(e)
  BY EmptyFacts DEF Init, Ready
<1>3. pc = "down" /\ boots = 0
  BY DEF Init
<1> QED
  BY <1>1, <1>2, <1>3 DEF CountInv

LEMMA CountStep ==
  TypeOK /\ PlaceInv /\ OrderInv /\ NetInv /\ CountInv /\ [Next]_vars => CountInv'
<1> SUFFICES ASSUME TypeOK, PlaceInv, OrderInv, NetInv, CountInv, [Next]_vars PROVE CountInv'
  OBVIOUS
<1>0. /\ flight \in Seq(Entries) /\ buffer \in Seq(Entries) /\ next \in Nat /\ boots \in Nat
      /\ stored \in [Entries -> Nat] /\ retries \in [Entries -> Nat] /\ IsFiniteSet(net)
  BY DEF TypeOK, CountInv
<1>c. \A e \in Entries :
        /\ Cardinality(Owed(e)) \in Nat /\ stored[e] \in Nat /\ retries[e] \in Nat
        /\ stored[e] + Cardinality(Owed(e)) + (IF Ready(e) THEN 1 ELSE 0) <= retries[e] + boots
  BY <1>0, OwedFacts DEF CountInv
<1>d. ASSUME NEW e \in Entries
      PROVE  stored[e] + Cardinality(Owed(e)) <= retries[e] + boots
  <2>1. CASE Ready(e)
    <3>1. stored[e] + Cardinality(Owed(e)) + 1 <= retries[e] + boots
      BY <1>c, <2>1
    <3> QED
      BY <1>0, <1>c, <3>1
  <2>2. CASE ~Ready(e)
    <3>1. stored[e] + Cardinality(Owed(e)) + 0 <= retries[e] + boots
      BY <1>c, <2>2
    <3> QED
      BY <1>0, <1>c, <3>1
  <2> QED
    BY <2>1, <2>2
\* A step that stores nothing, and after which no entry is ready that was not.
<1>1. ASSUME UNCHANGED <<net, stored, retries, boots>>, \A e \in Entries : Ready(e)' => Ready(e),
             pc' # "down" => pc # "down"
      PROVE  CountInv'
  <2>1. \A e \in Entries : Owed(e)' = Owed(e)
    BY <1>1 DEF Owed
  <2> QED
    BY <1>0, <1>1, <1>c, <2>1 DEF CountInv
<1>2. CASE Start
  <2>1. boots' = boots + 1 /\ UNCHANGED <<net, stored, retries>>
    BY <1>2 DEF Start, serverVars
  <2>2. ASSUME NEW e \in Entries
        PROVE  stored'[e] + Cardinality(Owed(e)') + (IF Ready(e)' THEN 1 ELSE 0) <= retries'[e] + boots'
    <3>1. Owed(e)' = Owed(e)
      BY <2>1 DEF Owed
    <3>2. (IF Ready(e)' THEN 1 ELSE 0) \in {0, 1} /\ (IF Ready(e) THEN 1 ELSE 0) \in {0, 1}
      OBVIOUS
    <3>3. stored'[e] = stored[e] /\ Cardinality(Owed(e)') = Cardinality(Owed(e)) /\ retries'[e] = retries[e]
      BY <2>1, <3>1
    <3>4. stored[e] + Cardinality(Owed(e)) + 1 <= retries[e] + boots + 1
      BY <1>0, <1>c, <1>d
    <3>5. stored[e] + Cardinality(Owed(e)) + 0 <= retries[e] + (boots + 1)
      BY <1>0, <1>c, <1>d
    <3>6. retries[e] + boots + 1 = retries[e] + (boots + 1)
      BY <1>0, <1>c
    <3> QED
      BY <2>1, <3>3, <3>4, <3>5, <3>6
  <2> QED
    BY <1>0, <2>1, <2>2 DEF CountInv
<1>3. CASE EndProcess
  BY <1>1, <1>3, EmptyFacts DEF EndProcess, counters, Ready
<1>4. CASE Cancel \/ FlushEmpty \/ SaveWal \/ ClearWal
  <2>1. UNCHANGED <<buffer, flight, net, stored, retries, boots>> /\ pc # "down"
    BY <1>4 DEF Cancel, FlushEmpty, SaveWal, ClearWal, serverVars, counters
  <2> QED
    BY <1>1, <2>1 DEF Ready
<1>5. CASE Push
  <2>1. UNCHANGED <<net, flight, stored, retries, boots>> /\ pc # "down" /\ next \in Entries
    BY <1>5 DEF Push, serverVars, counters, TypeOK, Entries
  <2>2. ToSet(buffer') \subseteq ToSet(buffer) \cup {next}
    BY <1>0, <1>5, <2>1, ToSetAppend DEF Push
  <2>3. ASSUME NEW e \in Entries
        PROVE  stored'[e] + Cardinality(Owed(e)') + (IF Ready(e)' THEN 1 ELSE 0) <= retries'[e] + boots'
    <3>1. CASE e = next
      <4>1. stored[e] = 0 /\ Owed(e) = {}
        <5>1. next >= next /\ ~(next < next)
          BY <1>0
        <5> QED
          BY <3>1, <5>1 DEF NetInv, Owed
      <4>2. Cardinality(Owed(e)') = 0
        BY <2>1, <4>1, FS_EmptySet DEF Owed
      <4>3. boots > 0
        BY <2>1 DEF CountInv
      <4> QED
        BY <1>0, <1>c, <2>1, <4>1, <4>2, <4>3
    <3>2. CASE e # next
      <4>1. Ready(e)' => Ready(e)
        BY <2>1, <2>2, <3>2 DEF Ready
      <4>2. Owed(e)' = Owed(e)
        BY <2>1 DEF Owed
      <4> QED
        BY <1>0, <1>c, <2>1, <4>1, <4>2
    <3> QED
      BY <3>1, <3>2
  <2> QED
    BY <1>0, <2>1, <2>3 DEF CountInv
<1>6. CASE FlushTake
  <2> DEFINE q == [id |-> reqNo + 1, batch |-> SendPrefix(buffer)]
  <2>1. /\ net' = net \cup {q} /\ flight = << >> /\ flight' = buffer /\ buffer' = << >>
        /\ pc # "down" /\ UNCHANGED <<stored, retries, boots>>
    BY <1>6 DEF FlushTake, counters, PlaceInv
  <2>2. ToSet(SendPrefix(buffer)) \subseteq ToSet(buffer) /\ q.batch = SendPrefix(buffer)
    BY <1>0, PrefixFacts
  <2> HIDE DEF q
  <2>3. ASSUME NEW e \in Entries
        PROVE  stored'[e] + Cardinality(Owed(e)') + (IF Ready(e)' THEN 1 ELSE 0) <= retries'[e] + boots'
    <3>1. Owed(e)' = {p \in net \cup {q} : e \in ToSet(p.batch)}
      BY <2>1 DEF Owed
    <3>2. CASE e \in ToSet(q.batch)
      <4>1. Ready(e) /\ ~Ready(e)'
        BY <2>1, <2>2, <3>2, EmptyFacts DEF Ready
      <4>2. Cardinality(Owed(e)') <= Cardinality(Owed(e)) + 1 /\ Cardinality(Owed(e)') \in Nat
        BY <1>0, <3>1, <3>2, OwedFacts
      <4> QED
        BY <1>0, <1>c, <2>1, <4>1, <4>2
    <3>3. CASE e \notin ToSet(q.batch)
      <4>1. Ready(e)' => Ready(e)
        BY <2>1, <2>2, EmptyFacts DEF Ready
      <4>2. Cardinality(Owed(e)') = Cardinality(Owed(e))
        BY <1>0, <3>1, <3>3, OwedFacts
      <4> QED
        BY <1>0, <1>c, <2>1, <4>1, <4>2
    <3> QED
      BY <3>2, <3>3
  <2>4. IsFiniteSet(net')
    BY <1>0, <2>1, FS_AddElement
  <2> QED
    BY <1>0, <2>1, <2>3, <2>4 DEF CountInv
<1>7. CASE SendSucceeds
  <2>1. flight' = << >> /\ pc # "down" /\ UNCHANGED <<buffer, net, stored, retries, boots>>
    BY <1>7 DEF SendSucceeds, serverVars
  <2> QED
    BY <1>1, <2>1, EmptyFacts DEF Ready
<1>8. CASE SendFails \/ SendTimesOut
  <2>1. /\ buffer' = Refill(flight) /\ flight' = << >> /\ pc # "down"
        /\ retries' = [e \in Entries |->
             IF e \in ToSet(SendPrefix(flight)) THEN retries[e] + 1 ELSE retries[e]]
        /\ UNCHANGED <<net, stored, boots>>
    BY <1>8 DEF SendFails, SendTimesOut, PutBack
  <2>2. ToSet(Refill(flight)) \subseteq ToSet(flight) \cup ToSet(buffer)
    BY RefillFacts
  <2>3. ASSUME NEW e \in Entries
        PROVE  stored'[e] + Cardinality(Owed(e)') + (IF Ready(e)' THEN 1 ELSE 0) <= retries'[e] + boots'
    <3>1. Owed(e)' = Owed(e)
      BY <2>1 DEF Owed
    <3>2. CASE e \in ToSet(SendPrefix(flight))
      <4>1. retries'[e] = retries[e] + 1
        BY <2>1, <3>2
      <4>2. (IF Ready(e)' THEN 1 ELSE 0) \in {0, 1} /\ (IF Ready(e) THEN 1 ELSE 0) \in {0, 1}
        OBVIOUS
      <4>3. stored'[e] = stored[e] /\ Cardinality(Owed(e)') = Cardinality(Owed(e)) /\ boots' = boots
        BY <2>1, <3>1
      <4>4. stored[e] + Cardinality(Owed(e)) + 1 <= retries[e] + boots + 1
        BY <1>0, <1>c, <1>d
      <4>5. stored[e] + Cardinality(Owed(e)) + 0 <= retries[e] + 1 + boots
        BY <1>0, <1>c, <1>d
      <4>6. retries[e] + boots + 1 = retries[e] + 1 + boots
        BY <1>0, <1>c
      <4> QED
        BY <4>1, <4>3, <4>4, <4>5, <4>6
    <3>3. CASE e \notin ToSet(SendPrefix(flight))
      <4>1. Ready(e)' => Ready(e)
        BY <2>1, <2>2, <3>3, EmptyFacts DEF Ready
      <4>2. retries'[e] = retries[e]
        BY <2>1, <3>3
      <4> QED
        BY <1>0, <1>c, <2>1, <3>1, <4>1, <4>2
    <3> QED
      BY <3>2, <3>3
  <2> QED
    BY <1>0, <2>1, <2>3 DEF CountInv
<1>9. ASSUME NEW r \in net, Ingest(r)
      PROVE  CountInv'
  <2>1. /\ net' = net \ {r} /\ UNCHANGED <<pc, buffer, flight, retries, boots>>
        /\ stored' = [e \in Entries |-> IF e \in ToSet(r.batch) THEN stored[e] + 1 ELSE stored[e]]
    BY <1>9 DEF Ingest, agentVars, counters
  <2>2. ASSUME NEW e \in Entries
        PROVE  stored'[e] + Cardinality(Owed(e)') + (IF Ready(e)' THEN 1 ELSE 0) <= retries'[e] + boots'
    <3>1. Owed(e)' = {p \in net \ {r} : e \in ToSet(p.batch)} /\ (Ready(e)' <=> Ready(e))
      BY <2>1 DEF Owed, Ready
    <3>2. CASE e \in ToSet(r.batch)
      <4>1. Cardinality(Owed(e)') = Cardinality(Owed(e)) - 1
        BY <1>0, <3>1, <3>2, OwedFacts
      <4>2. stored'[e] = stored[e] + 1
        BY <2>1, <3>2
      <4> QED
        BY <1>0, <1>c, <2>1, <3>1, <4>1, <4>2
    <3>3. CASE e \notin ToSet(r.batch)
      <4>1. Owed(e)' = Owed(e)
        BY <3>1, <3>3 DEF Owed
      <4>2. stored'[e] = stored[e]
        BY <2>1, <3>3
      <4> QED
        BY <1>0, <1>c, <2>1, <3>1, <4>1, <4>2
    <3> QED
      BY <3>2, <3>3
  <2>3. IsFiniteSet(net')
    BY <1>0, <2>1, FS_RemoveElement
  <2> QED
    BY <1>0, <2>1, <2>2, <2>3 DEF CountInv
<1>10. ASSUME NEW r \in net, Refuse(r)
       PROVE  CountInv'
  <2>1. net' = net \ {r} /\ UNCHANGED <<pc, buffer, flight, stored, retries, boots>>
    BY <1>10 DEF Refuse, agentVars
  <2>2. ASSUME NEW e \in Entries
        PROVE  stored'[e] + Cardinality(Owed(e)') + (IF Ready(e)' THEN 1 ELSE 0) <= retries'[e] + boots'
    <3>1. Owed(e)' = {p \in net \ {r} : e \in ToSet(p.batch)} /\ (Ready(e)' <=> Ready(e))
      BY <2>1 DEF Owed, Ready
    <3>2. Cardinality(Owed(e)') <= Cardinality(Owed(e)) /\ Cardinality(Owed(e)') \in Nat
      BY <1>0, <3>1, OwedFacts
    <3> QED
      BY <1>0, <1>c, <2>1, <3>1, <3>2
  <2>3. IsFiniteSet(net')
    BY <1>0, <2>1, FS_RemoveElement
  <2> QED
    BY <1>0, <2>1, <2>2, <2>3 DEF CountInv
<1>11. CASE UNCHANGED vars
  BY <1>1, <1>11 DEF vars, agentVars, serverVars, counters, Ready
<1> QED
  BY <1>2, <1>3, <1>4, <1>5, <1>6, <1>7, <1>8, <1>9, <1>10, <1>11 DEF Next
-----------------------------------------------------------------------------
(* Steps: what is given up, lost and stored.                               *)

Inv == TypeOK /\ PlaceInv /\ OrderInv /\ AckInv /\ NetInv /\ CountInv

LEMMA Invariant == Spec => []Inv
<1>1. Init => Inv
  BY TypeInit, PlaceInit, OrderInit, AckInit, NetInit, CountInit DEF Inv
<1>2. Inv /\ [Next]_vars => Inv'
  BY TypeStep, PlaceStep, OrderStep, AckStep, NetStep, CountStep DEF Inv
<1> QED
  BY <1>1, <1>2, PTL DEF Spec

\* What Refill gives up is older than all it keeps, and it fills the buffer.
LEMMA RefillGivesUpOldest ==
  ASSUME TypeOK, OrderInv, NEW e \in ToSet(flight) \ ToSet(Refill(flight))
  PROVE  Len(Refill(flight)) = Cap /\ \A k \in ToSet(Refill(flight)) : e < k
<1>1. /\ buffer \in Seq(Entries) /\ flight \in Seq(Entries) /\ Len(buffer) <= Cap
      /\ Len(buffer) \in Nat /\ Len(flight) \in Nat /\ Cap \in Nat /\ DOMAIN flight = 1..Len(flight)
  BY SizeAssumption DEF TypeOK
<1>2. CASE Cap > Len(buffer)
  <2> DEFINE room == Cap - Len(buffer)
             kept == Newest(flight, room)
  <2>1. room \in Nat /\ Refill(flight) = kept \o buffer /\ room + Len(buffer) = Cap
    BY <1>1, <1>2 DEF Refill
  <2>2. /\ kept \in Seq(Entries) /\ Len(kept) = (IF Len(flight) > room THEN room ELSE Len(flight))
        /\ \A i \in 1..Len(kept) : /\ i + (Len(flight) - Len(kept)) \in 1..Len(flight)
                                   /\ kept[i] = flight[i + (Len(flight) - Len(kept))]
    BY <1>1, <2>1, NewestFacts
  <2>3. Len(flight) <= room => kept = flight
    BY <1>1, <2>1 DEF Newest
  <2> HIDE DEF kept
  <2>4. /\ Len(Refill(flight)) = Len(kept) + Len(buffer)
        /\ ToSet(Refill(flight)) = ToSet(kept) \cup ToSet(buffer)
    <3>1. Len(kept \o buffer) = Len(kept) + Len(buffer)
      BY <1>1, <2>2, ConcatProperties
    <3>2. ToSet(kept \o buffer) = ToSet(kept) \cup ToSet(buffer)
      BY <1>1, <2>2, ToSetConcat
    <3> QED
      BY <2>1, <3>1, <3>2
  <2>5. Len(flight) > room /\ Len(kept) = room
    <3>1. ~(Len(flight) <= room)
      BY <2>3, <2>4
    <3> QED
      BY <1>1, <2>1, <2>2, <3>1
  <2>6. ASSUME NEW k \in ToSet(kept)
        PROVE  e < k
    <3>1. PICK i \in 1..Len(kept) : k = kept[i]
      BY <2>2, <2>6 DEF ToSet
    <3>2. PICK j \in 1..Len(flight) : e = flight[j]
      BY <1>1 DEF ToSet
    <3> DEFINE d == Len(flight) - Len(kept)
    <3>3. d \in Nat /\ i + d \in 1..Len(flight) /\ k = flight[i + d]
      BY <1>1, <2>1, <2>2, <2>5, <3>1
    <3>4. j <= d
      <4>1. SUFFICES ASSUME j > d PROVE FALSE
        BY <3>2, <3>3
      <4>2. j - d \in 1..Len(kept) /\ (j - d) + d = j
        BY <1>1, <2>1, <2>5, <3>2, <3>3, <4>1
      <4>3. kept[j - d] = flight[j]
        BY <2>2, <4>2
      <4>4. DOMAIN kept = 1..Len(kept)
        BY <2>2
      <4>5. kept[j - d] \in ToSet(kept)
        BY <4>2, <4>4 DEF ToSet
      <4> QED
        BY <2>4, <3>2, <4>3, <4>5
    <3>5. j < i + d
      BY <3>1, <3>2, <3>3, <3>4
    <3> HIDE DEF d
    <3> QED
      BY <1>1, <3>2, <3>3, <3>5 DEF OrderInv, StrictlyIncreasing
  <2>7. \A k \in ToSet(buffer) : e < k
    BY DEF OrderInv
  <2> QED
    BY <2>1, <2>4, <2>5, <2>6, <2>7
<1>3. CASE ~(Cap > Len(buffer))
  <2>1. Refill(flight) = buffer /\ Len(buffer) = Cap
    BY <1>1, <1>3 DEF Refill
  <2> QED
    BY <2>1 DEF OrderInv
<1> QED
  BY <1>2, <1>3

\* Which steps are a failed or a successful Send.
LEMMA SendSteps ==
  ASSUME Next, pc = "waiting"
  PROVE  /\ pc' = "saveWal" => PutBack
         /\ pc' = "clearWal" => SendSucceeds
<1>1. CASE Start \/ EndProcess \/ FlushEmpty \/ FlushTake \/ SaveWal \/ ClearWal
  BY <1>1 DEF Start, EndProcess, FlushEmpty, FlushTake, SaveWal, ClearWal
<1>2. CASE Cancel \/ Push
  BY <1>2 DEF Cancel, Push
<1>3. ASSUME NEW r \in net, Ingest(r) \/ Refuse(r)
      PROVE  pc' = pc
  BY <1>3 DEF Ingest, Refuse, agentVars
<1>4. CASE SendSucceeds
  BY <1>4 DEF SendSucceeds
<1>5. CASE SendFails \/ SendTimesOut
  BY <1>5 DEF SendFails, SendTimesOut, PutBack
<1> QED
  BY <1>1, <1>2, <1>3, <1>4, <1>5 DEF Next

\* The server only adds, and stores what a request on its way holds.
LEMMA StoreMoves ==
  ASSUME TypeOK, Next, NEW e \in Entries
  PROVE  /\ stored[e] \in Nat /\ stored'[e] \in Nat /\ stored[e] <= stored'[e]
         /\ stored'[e] # stored[e] => \E r \in net : e \in ToSet(r.batch)
<1>0. stored \in [Entries -> Nat]
  BY DEF TypeOK
<1>1. ASSUME NEW r \in net, Ingest(r)
      PROVE  /\ stored'[e] \in {stored[e], stored[e] + 1}
             /\ stored'[e] # stored[e] => e \in ToSet(r.batch)
  BY <1>0, <1>1 DEF Ingest
<1>2. \/ UNCHANGED stored
      \/ \E r \in net : Ingest(r)
  BY DEF Next, Start, EndProcess, Cancel, Push, FlushEmpty, FlushTake, SendSucceeds, SendFails,
     SendTimesOut, PutBack, SaveWal, ClearWal, Refuse, serverVars
<1> QED
  BY <1>0, <1>1, <1>2

\* Only Push reads an entry.
LEMMA ReadMoves ==
  ASSUME TypeOK, Next
  PROVE  next \in Nat /\ (next' = next \/ (Push /\ next' = next + 1))
<1>1. next \in Nat
  BY DEF TypeOK
<1>2. ASSUME Start \/ EndProcess \/ Cancel \/ FlushEmpty \/ FlushTake \/ SaveWal \/ ClearWal
      PROVE  next' = next
  BY <1>2 DEF Start, EndProcess, Cancel, FlushEmpty, FlushTake, SaveWal, ClearWal
<1>3. ASSUME SendSucceeds \/ SendFails \/ SendTimesOut
      PROVE  next' = next
  BY <1>3 DEF SendSucceeds, SendFails, SendTimesOut, PutBack
<1>4. ASSUME NEW r \in net, Ingest(r) \/ Refuse(r)
      PROVE  next' = next
  BY <1>4 DEF Ingest, Refuse, agentVars
<1>5. ASSUME Push
      PROVE  next' = next + 1
  BY <1>5 DEF Push
<1> QED
  BY <1>1, <1>2, <1>3, <1>4, <1>5 DEF Next

\* Nothing comes into the pipeline but the entry that is read.
LEMMA HeldMoves ==
  ASSUME Inv, Next, NEW e \in Entries, Held(e)', e # next \/ next' = next
  PROVE  Held(e)
<1> USE DEF Inv
<1>0. flight \in Seq(Entries) /\ buffer \in Seq(Entries) /\ snap \in Seq(Entries) /\ WalMax \in Nat
  BY SizeAssumption DEF TypeOK
<1>1. CASE Start
  <2>1. /\ UNCHANGED <<flight, net>> /\ wal' \in {Readable(wal), wal} /\ buffer' \in {Readable(wal), << >>}
    BY <1>1 DEF Start, serverVars
  <2>2. Readable(Readable(wal)) = Readable(wal)
    BY DEF Readable
  <2> QED
    BY <2>1, <2>2, EmptyFacts DEF Held
<1>2. CASE EndProcess
  BY <1>2, EmptyFacts DEF EndProcess, Held
<1>3. CASE Cancel
  BY <1>3 DEF Cancel, Held, serverVars
<1>4. CASE Push
  <2>1. next' = next + 1 /\ next \in Entries /\ UNCHANGED <<flight, wal, net>>
    BY <1>4 DEF Push, TypeOK, Entries, serverVars
  <2>2. ToSet(buffer') \subseteq ToSet(buffer) \cup {next}
    BY <1>0, <1>4, <2>1, ToSetAppend DEF Push
  <2>3. next' # next
    BY <2>1 DEF Entries
  <2> QED
    BY <2>1, <2>2, <2>3 DEF Held
<1>5. CASE FlushEmpty \/ ClearWal
  BY <1>5, EmptyFacts DEF FlushEmpty, ClearWal, Held, serverVars
<1>6. CASE FlushTake
  <2> DEFINE q == [id |-> reqNo + 1, batch |-> SendPrefix(buffer)]
  <2>1. net' = net \cup {q} /\ flight' = buffer /\ buffer' = << >> /\ UNCHANGED wal
    BY <1>6 DEF FlushTake
  <2>2. ToSet(q.batch) \subseteq ToSet(buffer)
    BY <1>0, PrefixFacts
  <2> HIDE DEF q
  <2> QED
    BY <2>1, <2>2, EmptyFacts DEF Held
<1>7. CASE SendSucceeds
  BY <1>7, EmptyFacts DEF SendSucceeds, Held, serverVars
<1>8. CASE SendFails \/ SendTimesOut
  <2>1. buffer' = Refill(flight) /\ flight' = << >> /\ UNCHANGED <<wal, net>>
    BY <1>8 DEF SendFails, SendTimesOut, PutBack
  <2> QED
    BY <2>1, RefillFacts, EmptyFacts DEF Held
<1>9. CASE SaveWal
  <2>1. ToSet(Newest(snap, WalMax)) \subseteq ToSet(buffer)
    BY <1>0, NewestFacts DEF PlaceInv
  <2>2. ToSet(Readable(Newest(snap, WalMax))) \subseteq ToSet(buffer)
    BY <2>1, EmptyFacts DEF Readable
  <2> QED
    BY <1>9, <2>2, EmptyFacts DEF SaveWal, Held, serverVars
<1>10. ASSUME NEW r \in net, Ingest(r) \/ Refuse(r)
       PROVE  Held(e)
  <2>1. net' \subseteq net /\ UNCHANGED <<buffer, flight, wal>>
    BY <1>10 DEF Ingest, Refuse, agentVars
  <2> QED
    BY <2>1 DEF Held
<1> QED
  BY <1>1, <1>2, <1>3, <1>4, <1>5, <1>6, <1>7, <1>8, <1>9, <1>10 DEF Next
\* Why a step loses an entry (LossHasCause, for one step and one entry).
LEMMA LossStep ==
  ASSUME Inv, Next, NEW e \in Entries, Lost(e)', ~Lost(e)
  PROVE  \/ e = next /\ Len(buffer) = Cap
         \/ pc = "waiting" /\ pc' = "saveWal" /\ Len(flight) + Len(buffer) > Cap
         \/ pc = "waiting" /\ pc' = "clearWal" /\ Len(flight) > BatchMax
         \/ pc' = "down"
         \/ wal' # wal /\ e \in ToSet(Readable(wal)) \ ToSet(buffer)
         \/ net' # net /\ faults' > faults /\ e \notin ToSet(flight)
<1> USE DEF Inv
<1>0. /\ flight \in Seq(Entries) /\ buffer \in Seq(Entries) /\ next \in Nat /\ e \in Nat
      /\ Cap \in Nat /\ Len(buffer) \in Nat /\ Len(buffer) <= Cap /\ Len(flight) \in Nat
      /\ faults \in Nat /\ BatchMax \in Nat
  BY SizeAssumption DEF TypeOK, Entries
<1>1. e < next' /\ stored'[e] = 0 /\ stored[e] = 0 /\ ~Held(e)'
  BY StoreMoves DEF Lost
<1>2. CASE Push
  <2>1. next' = next + 1 /\ UNCHANGED <<flight, wal, net>> /\ next \in Entries
        /\ buffer' = IF Len(buffer) < Cap THEN Append(buffer, next) ELSE buffer
    BY <1>2 DEF Push, TypeOK, Entries, serverVars
  <2>2. CASE Len(buffer) < Cap
    <3>1. ToSet(buffer') = ToSet(buffer) \cup {next}
      BY <1>0, <2>1, <2>2, ToSetAppend
    <3>2. e # next /\ ~Held(e)
      BY <1>1, <2>1, <3>1 DEF Held
    <3> QED
      BY <1>0, <1>1, <2>1, <3>2 DEF Lost
  <2>3. CASE ~(Len(buffer) < Cap)
    <3>1. Len(buffer) = Cap /\ buffer' = buffer
      BY <1>0, <2>1, <2>3
    <3>2. ~Held(e)
      BY <1>1, <2>1, <3>1 DEF Held
    <3> QED
      BY <1>0, <1>1, <2>1, <3>1, <3>2 DEF Lost
  <2> QED
    BY <2>2, <2>3
<1>3. ASSUME ~Push
      PROVE  e < next /\ Held(e)
  BY <1>1, <1>3, ReadMoves DEF Lost
<1>4. CASE Start
  <2>1. /\ UNCHANGED <<flight, net>> /\ buffer = << >> /\ ~Push
        /\ \/ buffer' = Readable(wal) /\ wal' = Readable(wal)
           \/ buffer' = << >> /\ wal' = wal
    BY <1>4 DEF Start, Push, serverVars, PlaceInv
  <2> QED
    BY <1>1, <1>3, <2>1, EmptyFacts DEF Held
<1>5. CASE EndProcess
  BY <1>5 DEF EndProcess
<1>6. CASE Cancel
  <2>1. UNCHANGED <<buffer, flight, wal, net, next>>
    BY <1>6 DEF Cancel, serverVars
  <2>2. ~Push
    BY <1>0, <2>1 DEF Push
  <2> QED
    BY <1>1, <1>3, <2>1, <2>2 DEF Held
<1>7. CASE FlushEmpty \/ ClearWal \/ SaveWal
  <2>1. UNCHANGED <<buffer, flight, net, next>>
    BY <1>7 DEF FlushEmpty, ClearWal, SaveWal, serverVars
  <2>2. ~Push
    BY <1>0, <2>1 DEF Push
  <2> QED
    BY <1>1, <1>3, <2>1, <2>2 DEF Held
<1>8. CASE FlushTake
  <2>1. net \subseteq net' /\ flight = << >> /\ flight' = buffer /\ UNCHANGED <<wal, next>>
    BY <1>8 DEF FlushTake, PlaceInv
  <2>2. ~Push
    BY <1>0, <2>1 DEF Push
  <2> QED
    BY <1>1, <1>3, <2>1, <2>2, EmptyFacts DEF Held
<1>9. CASE SendSucceeds
  <2>1. pc = "waiting" /\ pc' = "clearWal" /\ reply = "ok" /\ UNCHANGED <<buffer, wal, net, next>>
    BY <1>9 DEF SendSucceeds, serverVars
  <2>2. ~Push
    BY <1>0, <2>1 DEF Push
  <2>3. e \in ToSet(flight)
    BY <1>1, <1>3, <2>1, <2>2 DEF Held
  <2>4. e \notin ToSet(SendPrefix(flight))
    BY <1>1, <2>1 DEF NetInv
  <2>5. ~(Len(flight) <= BatchMax)
    BY <1>0, <2>3, <2>4, PrefixFacts
  <2> QED
    BY <1>0, <2>1, <2>5
<1>10. CASE SendFails \/ SendTimesOut
  <2>1. /\ pc = "waiting" /\ pc' = "saveWal" /\ buffer' = Refill(flight)
        /\ UNCHANGED <<wal, net, next>>
    BY <1>10 DEF SendFails, SendTimesOut, PutBack
  <2>2. ~Push
    BY <1>0, <2>1 DEF Push
  <2>3. ~(Len(flight) + Len(buffer) <= Cap)
    BY <1>1, <1>3, <2>1, <2>2, RefillFacts DEF Held
  <2> QED
    BY <1>0, <2>1, <2>3
<1>11. ASSUME NEW r \in net, Ingest(r)
       PROVE  FALSE
  <2>1. /\ net' = net \ {r} /\ UNCHANGED <<buffer, flight, wal, next>>
        /\ stored' = [x \in Entries |-> IF x \in ToSet(r.batch) THEN stored[x] + 1 ELSE stored[x]]
    BY <1>11 DEF Ingest, agentVars
  <2>2. ~Push
    BY <1>0, <2>1 DEF Push
  <2>3. e \notin ToSet(r.batch)
    BY <1>1, <2>1
  <2> QED
    BY <1>1, <1>3, <2>1, <2>2, <2>3 DEF Held
<1>12. ASSUME NEW r \in net, Refuse(r)
       PROVE  net' # net /\ faults' > faults /\ e \notin ToSet(flight)
  <2>1. net' = net \ {r} /\ UNCHANGED <<buffer, flight, wal, next>> /\ faults' = faults + 1
    BY <1>12 DEF Refuse, agentVars
  <2> QED
    BY <1>0, <1>1, <1>12, <2>1 DEF Held
<1> QED
  BY <1>2, <1>4, <1>5, <1>6, <1>7, <1>8, <1>9, <1>10, <1>11, <1>12 DEF Next

-----------------------------------------------------------------------------
(* The theorems.                                                           *)

\* The variables keep their types, and the buffer, what is in flight and the
\* WAL their sizes (TypeOK), for any sizes and any number of entries.
THEOREM TypeCorrect == Spec => []TypeOK
<1>1. Inv => TypeOK
  BY DEF Inv
<1> QED
  BY <1>1, Invariant, PTL

\* Entries stay in the order in which they were read, and none is there twice
\* (OrderKept), through every flush, failure and restart.
THEOREM EntriesInOrder == Spec => []OrderKept
<1>1. Inv => OrderKept
  <2> SUFFICES ASSUME Inv PROVE OrderKept
    OBVIOUS
  <2>1. TypeOK /\ OrderInv
    BY DEF Inv
  <2>2. flight \in Seq(Entries) /\ buffer \in Seq(Entries) /\ Entries \subseteq Nat
    BY <2>1 DEF TypeOK, Entries
  <2>3. flight \in Seq(Nat) /\ buffer \in Seq(Nat)
    BY <2>2, SeqMonotonic
  <2>4. StrictlyIncreasing(flight \o buffer)
    BY <2>1, <2>3, IncreasingFacts DEF OrderInv
  <2>5. \A i \in DOMAIN buffer : buffer[i] \in ToSet(buffer)
    BY DEF ToSet
  <2> QED
    BY <2>1, <2>4, <2>5 DEF OrderKept, OrderInv
<1> QED
  BY <1>1, Invariant, PTL

\* What the server has acknowledged to this process is neither sent again nor
\* in the WAL that the next flush leaves (AckedNotKept).
THEOREM AcknowledgedLeaves == Spec => []AckedNotKept
<1>1. Inv => AckedNotKept
  BY DEF Inv, AckInv, AckedNotKept
<1> QED
  BY <1>1, Invariant, PTL

\* The server stores an entry at most once per start of the process and per
\* request that the agent took for failed (StoredBounded).
THEOREM StoredPerAttempt == Spec => []StoredBounded
<1>1. Inv => StoredBounded
  <2> SUFFICES ASSUME Inv, NEW e \in Entries PROVE stored[e] <= retries[e] + boots
    BY DEF StoredBounded
  <2>1. stored[e] \in Nat /\ retries[e] \in Nat /\ boots \in Nat /\ Cardinality(Owed(e)) \in Nat
    <3>1. stored \in [Entries -> Nat] /\ retries \in [Entries -> Nat] /\ boots \in Nat /\ IsFiniteSet(net)
      BY DEF Inv, TypeOK, CountInv
    <3> QED
      BY <3>1, OwedFacts
  <2>2. stored[e] + Cardinality(Owed(e)) + (IF Ready(e) THEN 1 ELSE 0) <= retries[e] + boots
    BY DEF Inv, CountInv
  <2>3. CASE Ready(e)
    BY <2>1, <2>2, <2>3
  <2>4. CASE ~Ready(e)
    BY <2>1, <2>2, <2>4
  <2> QED
    BY <2>3, <2>4
<1> QED
  BY <1>1, Invariant, PTL

\* A failed Send gives up entries only when the buffer is full, and then the
\* oldest ones (GivesUpOldest).
THEOREM OldestGivenUp == Spec => GivesUpOldest
<1>1. Inv /\ [Next]_vars =>
        [pc = "waiting" /\ pc' = "saveWal" =>
           \A e \in ToSet(flight) \ ToSet(buffer') :
             Len(buffer') = Cap /\ \A k \in ToSet(buffer') : e < k]_vars
  <2> SUFFICES ASSUME Inv, Next, pc = "waiting", pc' = "saveWal"
               PROVE  \A e \in ToSet(flight) \ ToSet(buffer') :
                        Len(buffer') = Cap /\ \A k \in ToSet(buffer') : e < k
    OBVIOUS
  <2>1. buffer' = Refill(flight)
    BY SendSteps DEF PutBack
  <2> QED
    BY <2>1, RefillGivesUpOldest DEF Inv
<1> QED
  BY <1>1, Invariant, PTL DEF Spec, GivesUpOldest

\* An entry is lost only for one of the causes that LossHasCause lists.
THEOREM LossExplained == Spec => LossHasCause
<1>1. Inv /\ [Next]_vars =>
        [\A e \in Entries : Lost(e)' /\ ~Lost(e) =>
           \/ e = next /\ Len(buffer) = Cap
           \/ pc = "waiting" /\ pc' = "saveWal" /\ Len(flight) + Len(buffer) > Cap
           \/ pc = "waiting" /\ pc' = "clearWal" /\ Len(flight) > BatchMax
           \/ pc' = "down"
           \/ wal' # wal /\ e \in ToSet(Readable(wal)) \ ToSet(buffer)
           \/ net' # net /\ faults' > faults /\ e \notin ToSet(flight)]_vars
  BY LossStep
<1> QED
  BY <1>1, Invariant, PTL DEF Spec, LossHasCause

LEMMA LedgerInit == Init => Ledger!Init
<1>1. Init => \A e \in Entries : stored[e] = 0 /\ e >= next
  BY DEF Init, Entries
<1> QED
  BY <1>1 DEF Ledger!Init, Status

LEMMA LedgerStep == Inv /\ [Next]_vars => [Ledger!Next]_Status
<1> SUFFICES ASSUME Inv, [Next]_vars PROVE [Ledger!Next]_Status
  OBVIOUS
<1>1. CASE UNCHANGED vars
  <2>1. UNCHANGED <<stored, next, buffer, flight, wal, net>>
    BY <1>1 DEF vars, agentVars, serverVars
  <2> QED
    BY <2>1 DEF Status, Held
<1>2. CASE Next
  <2> DEFINE Was(e) == IF stored[e] > 0 THEN "stored"
                       ELSE IF e >= next THEN "unread"
                       ELSE IF Held(e) THEN "held" ELSE "lost"
             Is(e) == IF stored'[e] > 0 THEN "stored"
                      ELSE IF e >= next' THEN "unread"
                      ELSE IF Held(e)' THEN "held" ELSE "lost"
  <2>1. ASSUME NEW e \in Entries
        PROVE  \/ Was(e) = "unread" /\ Is(e) \in {"held", "lost"}
               \/ Was(e) = "held" /\ Is(e) \in {"stored", "lost"}
               \/ Is(e) = Was(e)
    <3>1. /\ stored[e] \in Nat /\ stored'[e] \in Nat /\ stored[e] <= stored'[e]
          /\ stored'[e] # stored[e] => Held(e) /\ e < next
      BY <1>2, StoreMoves DEF Inv, NetInv, Held
    <3>2. next \in Nat /\ next' \in {next, next + 1} /\ e \in Nat
      BY <1>2, ReadMoves DEF Inv, Entries
    <3>3. Held(e)' /\ e < next => Held(e)
      BY <1>2, <3>2, HeldMoves
    <3> QED
      BY <3>1, <3>2, <3>3
  <2>2. \A e \in Entries : Status[e] = Was(e) /\ Status'[e] = Is(e)
    BY DEF Status
  <2>3. Status' \in [Entries -> Ledger!Statuses]
    BY DEF Status, Ledger!Statuses
  <2> HIDE DEF Was, Is
  <2> QED
    BY <2>1, <2>2, <2>3 DEF Ledger!Next, Ledger!Read, Ledger!Store, Ledger!Lose, Ledger!Rest
<1> QED
  BY <1>1, <1>2

\* The pipeline implements the ledger of EntryLedger (LedgerSpec): an entry is
\* read once and then held until it is stored or lost for good, whatever the
\* network, the disk and the end of the process do.
THEOREM KeepsLedger == Spec => LedgerSpec
BY LedgerInit, LedgerStep, Invariant, PTL DEF Spec, LedgerSpec, Ledger!Spec
=============================================================================
