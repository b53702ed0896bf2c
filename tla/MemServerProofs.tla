--------------------------- MODULE MemServerProofs ---------------------------
(***************************************************************************)
(* Proofs that the server with the in-memory store keeps its safety        *)
(* properties, for any finite set of metrics and handlers, any number of   *)
(* updates, any StoreInterval, with crashes or without.                    *)
(*                                                                         *)
(* MInv is inductive: one lemma for each of its parts.                     *)
(***************************************************************************)
EXTENDS MemServer, DataLemmas, FiniteSetTheorems, SequenceTheorems

-----------------------------------------------------------------------------
(* Files.                                                                   *)

Line == [id : Ids, val : Nat]

LEMMA IdsFinite == IsFiniteSet(Ids) /\ Cardinality(Ids) \in Nat
<1>1. IsFiniteSet(Ids)
  BY MemServerAssumption, FS_Union DEF Ids
<1>2. QED
  BY <1>1, FS_CardinalityType

\* The lines of f that ReadFromFile looks at for i are a bounded set.
LEMMA ReadFromFileProperty ==
    ASSUME NEW f \in Seq(Line \cup {Hole}), NEW i \in Ids
    PROVE  /\ ReadFromFile(f)[i] \in Nat
           /\ \/ /\ ReadFromFile(f)[i] = 0
                 /\ \A n \in Good(f) : f[n].id # i
              \/ \E n \in Good(f) : f[n].id = i /\ ReadFromFile(f)[i] = f[n].val
           /\ \A n \in Good(f) : n \in DOMAIN f /\ f[n] # Hole /\ f[n] \in Line
<1> DEFINE ns == {n \in Good(f) : f[n].id = i}
<1>1. \A n \in Good(f) : n \in 1..Len(f) /\ f[n] # Hole
  BY DEF Good
<1>2. \A n \in Good(f) : f[n] \in Line
  BY <1>1, ElementOfSeq
<1>3. ReadFromFile(f)[i] = IF ns = {} THEN 0 ELSE f[Max(ns)].val
  BY DEF ReadFromFile
<1>4. CASE ns = {}
  BY <1>1, <1>2, <1>3, <1>4
<1>5. CASE ns # {}
  <2>1. Len(f) \in Nat /\ ns \subseteq Nat /\ \A n \in ns : n <= Len(f)
    BY <1>1
  <2> HIDE DEF ns
  <2>2. Max(ns) \in ns
    BY <1>5, <2>1, MaxOfBounded
  <2>3. f[Max(ns)].val \in Nat
    BY <1>2, <2>2 DEF ns, Line
  <2>4. Max(ns) \in Good(f) /\ f[Max(ns)].id = i
    BY <2>2 DEF ns
  <2>5. ReadFromFile(f)[i] = f[Max(ns)].val
    BY <1>3, <1>5
  <2>6. QED
    BY <1>1, <1>2, <2>3, <2>4, <2>5
<1>6. QED
  BY <1>4, <1>5

\* What a write at an offset leaves in the file.
LEMMA WriteAtProperty ==
    ASSUME NEW f \in Seq(Line \cup {Hole}), NEW n \in Nat, NEW l \in Line
    PROVE  /\ WriteAt(f, n, l) \in Seq(Line \cup {Hole})
           /\ Len(WriteAt(f, n, l)) = IF Len(f) >= n + 1 THEN Len(f) ELSE n + 1
           /\ n + 1 \in DOMAIN WriteAt(f, n, l) /\ WriteAt(f, n, l)[n + 1] = l
           /\ \A m \in DOMAIN WriteAt(f, n, l) :
                 \/ m = n + 1
                 \/ m \in DOMAIN f /\ WriteAt(f, n, l)[m] = f[m]
                 \/ m \notin DOMAIN f /\ WriteAt(f, n, l)[m] = Hole
<1> DEFINE k == IF Len(f) >= n + 1 THEN Len(f) ELSE n + 1
           val(m) == CASE m = n + 1 -> l
                       [] m # n + 1 /\ m \in DOMAIN f -> f[m]
                       [] OTHER -> Hole
<1>1. Len(f) \in Nat /\ DOMAIN f = 1..Len(f)
  OBVIOUS
<1>2. k \in Nat /\ n + 1 \in 1..k /\ Max({Len(f), n + 1}) = k
  BY <1>1, MaxOfTwo
<1> HIDE DEF k
<1>3. WriteAt(f, n, l) = [m \in 1..k |-> val(m)]
  BY <1>2 DEF WriteAt
<1>4. \A m \in 1..k : val(m) \in Line \cup {Hole}
  BY <1>1, ElementOfSeq
<1>5. \A m \in 1..k : \/ m = n + 1
                      \/ m \in DOMAIN f /\ val(m) = f[m]
                      \/ m \notin DOMAIN f /\ val(m) = Hole
  OBVIOUS
<1>6. val(n + 1) = l
  OBVIOUS
<1> HIDE DEF val
<1>7. WriteAt(f, n, l) \in Seq(Line \cup {Hole}) /\ Len(WriteAt(f, n, l)) = k
  BY <1>2, <1>3, <1>4
<1>8. DOMAIN WriteAt(f, n, l) = 1..k
  BY <1>3
<1>9. QED
  BY <1>2, <1>3, <1>5, <1>6, <1>7, <1>8 DEF k

\* ReadFromFile of a file whose lines show what m holds.
LEMMA ReadFromFileType ==
    ASSUME NEW f \in Seq(Line \cup {Hole})
    PROVE  ReadFromFile(f) \in [Ids -> Nat]
<1>1. \A i \in Ids : ReadFromFile(f)[i] \in Nat
  BY ReadFromFileProperty
<1>2. QED
  BY <1>1 DEF ReadFromFile

-----------------------------------------------------------------------------
(* The handlers.                                                            *)

LEMMA UnansweredFinite ==
    \A i \in Ids : IsFiniteSet(Unanswered(i)) /\ Cardinality(Unanswered(i)) \in Nat
<1>1. IsFiniteSet(AllHandlers)
  BY MemServerAssumption, FS_Union DEF AllHandlers
<1>2. \A i \in Ids : Unanswered(i) \subseteq AllHandlers
  BY DEF Unanswered
<1>3. QED
  BY <1>1, <1>2, FS_Subset, FS_CardinalityType

\* Up to the store call a request changes nothing but its handler.
LEMMA BeforeWriteStep ==
    ASSUME MInv, Running, NEW h \in AllHandlers,
           \/ Open(h) \/ Abandon(h) \/ \E b \in SUBSET Ids \ {{}} : Accept(h, b)
           \/ CheckContext(h) \/ Cancelled(h)
    PROVE  MInv'
<1>a. TypeOK /\ AtRest /\ Offsets /\ NothingAhead /\ OwnFile /\ AckedKept
  BY DEF MInv
<1>b. /\ hst[h] # "stored" /\ (hst'[h] = "stored" => ctxDone)
      /\ hst' \in [AllHandlers -> {"idle", "receiving", "decoded", "writing", "stored"}]
      /\ hbatch' \in [AllHandlers -> SUBSET Ids]
      /\ \A g \in AllHandlers : g # h => hst'[g] = hst[g] /\ hbatch'[g] = hbatch[g]
  BY <1>a DEF Open, Abandon, Accept, CheckContext, Cancelled, TypeOK
<1>c. UNCHANGED <<procVars, memVars, file, saverVars, history>>
  BY DEF Open, Abandon, Accept, CheckContext, Cancelled
<1> USE DEF procVars, memVars, saverVars, history
<1>1. TypeOK'
  BY <1>a, <1>b, <1>c DEF TypeOK
<1>2. AtRest'
  BY <1>c DEF AtRest, Running
<1>3. Offsets' /\ NothingAhead' /\ OwnFile'
  BY <1>a, <1>c DEF Offsets, NothingAhead, NothingInvented, OwnFile, Saving
<1>4. AckedKept'
  <2>1. ~ctxDone => \A i \in Ids : Unanswered(i)' = Unanswered(i)
    BY <1>b DEF Unanswered
  <2>2. QED
    BY <1>a, <1>c, <2>1 DEF AckedKept, Running, Saving, ExitKeepsAcknowledged
<1>5. QED
  BY <1>1, <1>2, <1>3, <1>4 DEF MInv

\* The write finds no saver at work on the maps, and counts for the client that
\* has not been answered yet.
LEMMA WriteStep ==
    ASSUME MInv, Running, NEW h \in AllHandlers, NEW bad \in NotNumbers(h), Write(h, bad)
    PROVE  MInv'
<1>a. TypeOK /\ AtRest /\ Offsets /\ NothingAhead /\ OwnFile /\ AckedKept
  BY DEF MInv
<1>b. /\ hst[h] = "writing" /\ hst'[h] = "stored" /\ hbatch' = hbatch
      /\ hst' \in [AllHandlers -> {"idle", "receiving", "decoded", "writing", "stored"}]
      /\ \A g \in AllHandlers : g # h => hst'[g] = hst[g]
      /\ \A s \in Savers : sst[s] # "locked"
  BY <1>a DEF Write, TypeOK
<1>c. UNCHANGED <<procVars, file, saverVars, acked, ackedSig, lastSave, unsaved>>
  BY DEF Write
<1>d. /\ store' \in [Ids -> Nat] /\ applied' \in [Ids -> Nat]
      /\ \A i \in Ids : /\ store'[i] = IF i \in hbatch[h] THEN store[i] + 1 ELSE store[i]
                        /\ applied'[i] = IF i \in hbatch[h] THEN applied[i] + 1 ELSE applied[i]
                        /\ store[i] \in Nat /\ applied[i] \in Nat
                        /\ acked[i] \in Nat /\ ackedSig[i] \in Nat
  BY <1>a DEF Write, TypeOK
<1>e. nan' \subseteq GaugeIds
  BY <1>a DEF Write, NotNumbers, TypeOK
<1> USE DEF procVars, saverVars
<1>1. TypeOK'
  BY <1>a, <1>b, <1>c, <1>d, <1>e DEF TypeOK
<1>2. AtRest'
  BY <1>c DEF AtRest, Running
<1>3. Offsets'
  BY <1>a, <1>c DEF Offsets
<1>4. NothingAhead'
  <2>1. NothingInvented'
    BY <1>a, <1>d DEF NothingAhead, NothingInvented
  <2>2. ASSUME NEW n \in DOMAIN file, file[n] # Hole
        PROVE  file[n].val <= applied'[file[n].id]
    <3>1. file[n] \in Line
      BY <1>a, <2>2 DEF TypeOK, Line
    <3>2. file[n].id \in Ids /\ file[n].val \in Nat
      BY <3>1 DEF Line
    <3>3. file[n].val <= applied[file[n].id]
      BY <1>a, <2>2 DEF NothingAhead
    <3>4. QED
      BY <1>d, <3>2, <3>3
  <2>3. QED
    BY <1>c, <2>1, <2>2 DEF NothingAhead
<1>5. OwnFile'
  BY <1>a, <1>b, <1>c DEF OwnFile, Saving
<1>6. AckedKept'
  <2>1. ASSUME NEW i \in Ids, acked[i] + Cardinality(Unanswered(i)) <= store[i]
        PROVE  acked[i] + Cardinality(Unanswered(i)') <= store'[i]
    <3>1. CASE i \in hbatch[h]
      <4>1. Unanswered(i)' = Unanswered(i) \cup {h} /\ h \notin Unanswered(i)
        BY <1>b, <3>1 DEF Unanswered
      <4>2. Cardinality(Unanswered(i)') = Cardinality(Unanswered(i)) + 1
        BY <4>1, UnansweredFinite, FS_AddElement
      <4>3. QED
        BY <1>d, <2>1, <3>1, <4>2, UnansweredFinite
    <3>2. CASE i \notin hbatch[h]
      <4>1. Unanswered(i)' = Unanswered(i)
        BY <1>b, <3>2 DEF Unanswered
      <4>2. QED
        BY <1>d, <2>1, <3>2, <4>1
    <3>3. QED
      BY <3>1, <3>2
  <2>2. \A i \in Ids : ackedSig[i] <= store[i] => ackedSig[i] <= store'[i]
    BY <1>d
  <2>3. QED
    BY <1>a, <1>b, <1>c, <2>1, <2>2
       DEF AckedKept, Running, Saving, ExitKeepsAcknowledged, Savers
<1>7. QED
  BY <1>1, <1>2, <1>3, <1>4, <1>5, <1>6 DEF MInv

LEMMA RespondStep ==
    ASSUME MInv, Running, NEW h \in AllHandlers, Respond(h)
    PROVE  MInv'
<1>a. TypeOK /\ AtRest /\ Offsets /\ NothingAhead /\ OwnFile /\ AckedKept
  BY DEF MInv
<1>b. /\ hst[h] = "stored" /\ hst'[h] = "idle"
      /\ hst' \in [AllHandlers -> {"idle", "receiving", "decoded", "writing", "stored"}]
      /\ hbatch' \in [AllHandlers -> SUBSET Ids]
      /\ \A g \in AllHandlers : g # h => hst'[g] = hst[g] /\ hbatch'[g] = hbatch[g]
  BY <1>a DEF Respond, TypeOK
<1>c. UNCHANGED <<procVars, memVars, file, saverVars, applied, ackedSig, lastSave, unsaved>>
  BY DEF Respond
<1> USE DEF memVars
<1>d. /\ acked' \in [Ids -> Nat]
      /\ \A i \in Ids : /\ acked'[i] = IF i \in hbatch[h] THEN acked[i] + 1 ELSE acked[i]
                        /\ acked[i] \in Nat /\ store[i] \in Nat
  BY <1>a DEF Respond, TypeOK
<1> USE DEF procVars, saverVars
<1>1. TypeOK'
  BY <1>a, <1>b, <1>c, <1>d DEF TypeOK
<1>2. AtRest'
  BY <1>c DEF AtRest, Running
<1>3. Offsets' /\ NothingAhead' /\ OwnFile'
  BY <1>a, <1>c DEF Offsets, NothingAhead, NothingInvented, OwnFile, Saving
<1>4. AckedKept'
  <2>1. ASSUME NEW i \in Ids, acked[i] + Cardinality(Unanswered(i)) <= store[i]
        PROVE  acked'[i] + Cardinality(Unanswered(i)') <= store[i]
    <3>1. CASE i \in hbatch[h]
      <4>1. Unanswered(i)' = Unanswered(i) \ {h} /\ h \in Unanswered(i)
        BY <1>b, <3>1 DEF Unanswered
      <4>2. Cardinality(Unanswered(i)') = Cardinality(Unanswered(i)) - 1
        BY <4>1, UnansweredFinite, FS_RemoveElement
      <4>3. QED
        BY <1>d, <2>1, <3>1, <4>2, UnansweredFinite
    <3>2. CASE i \notin hbatch[h]
      <4>1. Unanswered(i)' = Unanswered(i)
        BY <1>b, <3>2 DEF Unanswered
      <4>2. QED
        BY <1>d, <2>1, <3>2, <4>1
    <3>3. QED
      BY <3>1, <3>2
  <2>2. QED
    BY <1>a, <1>c, <2>1 DEF AckedKept, Running, Saving, ExitKeepsAcknowledged
<1>5. QED
  BY <1>1, <1>2, <1>3, <1>4 DEF MInv

-----------------------------------------------------------------------------
(* The savers.                                                              *)

LEMMA SaversFacts ==
    ASSUME NEW s \in Savers
    PROVE  /\ Other(s) \in Savers /\ Other(s) # s /\ Other(Other(s)) = s
           /\ \A t \in Savers : t # s => t = Other(s)
  BY DEF Savers, Other

\* os.Create empties the file under whoever is writing it, and both savers are
\* marked for it.
LEMMA CreateStep ==
    ASSUME MInv, Running, NEW s \in Savers, Create(s)
    PROVE  MInv'
<1>a. TypeOK /\ AtRest /\ Offsets /\ NothingAhead /\ OwnFile /\ AckedKept
  BY DEF MInv
<1>b. /\ sst[s] = "idle" /\ sst'[s] = "created" /\ (s = "final" => ctxDone)
      /\ sst' \in [Savers -> {"idle", "created", "locked", "done"}]
      /\ \A t \in Savers : t # s => sst'[t] = sst[t]
      /\ file' = <<>>
  BY <1>a DEF Create, TypeOK
<1>d. /\ clean' \in [Savers -> BOOLEAN]
      /\ \A t \in Savers : t # s => ~clean'[t]
      /\ clean'[s] => sst[Other(s)] \notin {"created", "locked"}
  <2>1. clean' = [clean EXCEPT ![s] = sst[Other(s)] \notin {"created", "locked"},
                               ![Other(s)] = FALSE]
    BY DEF Create
  <2>2. clean \in [Savers -> BOOLEAN] /\ Other(s) \in Savers /\ Other(s) # s
    BY <1>a, SaversFacts DEF TypeOK
  <2>3. /\ clean'[s] = (sst[Other(s)] \notin {"created", "locked"})
        /\ clean'[Other(s)] = FALSE
    BY <2>1, <2>2, Zenon
  <2>4. clean' \in [Savers -> BOOLEAN]
    BY <2>1, <2>2, Zenon
  <2>5. \A t \in Savers : t # s => clean'[t] = FALSE
    BY <2>3, SaversFacts
  <2>6. QED
    BY <2>3, <2>4, <2>5
<1>c. UNCHANGED <<procVars, memVars, handlerVars, todo, offset, history>>
  BY DEF Create
<1> USE DEF procVars, memVars, handlerVars, history
<1>1. TypeOK'
  <2>1. file' \in Seq(Line \cup {Hole}) /\ Len(file') <= Cardinality(Ids)
    BY <1>b, IdsFinite
  <2>2. QED
    BY <1>d, <1>a, <1>b, <1>c, <2>1 DEF TypeOK, Line
<1>2. AtRest'
  BY <1>c DEF AtRest, Running
<1>3. Offsets'
  BY <1>a, <1>b, <1>c DEF Offsets
<1>4. NothingAhead'
  BY <1>a, <1>b, <1>c DEF NothingAhead, NothingInvented
<1>5. OwnFile'
  BY <1>d, <1>b, SaversFacts DEF OwnFile, Saving
<1>6. AckedKept'
  <2>1. sst'["final"] # "done" \/ ~clean'["final"]
    BY <1>b, <1>d DEF Savers
  <2>2. sst'["final"] # "idle" => ctxDone
    BY <1>a, <1>b DEF AckedKept, Savers
  <2>3. \A i \in Ids : Unanswered(i)' = Unanswered(i)
    BY <1>c DEF Unanswered
  <2>4. QED
    BY <1>a, <1>b, <1>c, <2>1, <2>2, <2>3
       DEF AckedKept, Running, ExitKeepsAcknowledged, Savers
<1>7. QED
  BY <1>1, <1>2, <1>3, <1>4, <1>5, <1>6 DEF MInv

LEMMA RLockStep ==
    ASSUME MInv, Running, NEW s \in Savers, RLock(s)
    PROVE  MInv'
<1>a. TypeOK /\ AtRest /\ Offsets /\ NothingAhead /\ OwnFile /\ AckedKept
  BY DEF MInv
<1> DEFINE present == {i \in Ids : store[i] > 0}
<1>b. /\ sst[s] = "created" /\ sst'[s] = "locked"
      /\ sst' \in [Savers -> {"idle", "created", "locked", "done"}]
      /\ todo' \in [Savers -> SUBSET Ids] /\ todo'[s] = present
      /\ \A t \in Savers : t # s => sst'[t] = sst[t] /\ todo'[t] = todo[t]
  BY <1>a DEF RLock, TypeOK
<1>c. UNCHANGED <<procVars, memVars, file, handlerVars, offset, clean, applied, acked, ackedSig,
                lastSave>>
  BY DEF RLock
<1>d. /\ unsaved' \subseteq GaugeIds
      /\ s = "final" => unsaved' = nan
      /\ s # "final" => unsaved' = unsaved
  BY <1>a DEF RLock, TypeOK
<1> USE DEF procVars, memVars, handlerVars
<1>1. TypeOK'
  BY <1>a, <1>b, <1>c, <1>d DEF TypeOK
<1>2. AtRest'
  BY <1>c DEF AtRest, Running
<1>3. Offsets'
  <2>1. Cardinality(present) <= Cardinality(Ids) /\ Cardinality(present) \in Nat
    <3>1. present \subseteq Ids
      OBVIOUS
    <3> HIDE DEF present
    <3>2. QED
      BY <3>1, IdsFinite, FS_Subset, FS_CardinalityType
  <2>2. offset[s] = 0
    BY <1>a, <1>b DEF Offsets
  <2> HIDE DEF present
  <2>3. QED
    BY <1>a, <1>b, <1>c, <2>1, <2>2, IdsFinite DEF Offsets
<1>4. NothingAhead'
  BY <1>a, <1>c DEF NothingAhead, NothingInvented
<1>5. OwnFile'
  <2>1. ASSUME NEW t \in Savers, clean[t], Saving(t)'
        PROVE  /\ ~Saving(Other(t))'
               /\ (sst[t] = "created" => file = <<>>)'
               /\ (sst[t] = "locked" =>
                    /\ Len(file) = offset[t]
                    /\ \A n \in DOMAIN file : /\ file[n] # Hole /\ file[n].id \notin nan
                                              /\ file[n].val = store[file[n].id]
                    /\ \A i \in Ids \ nan : store[i] > 0 /\ i \notin todo[t]
                          => \E n \in DOMAIN file : file[n].id = i)'
    <3>1. Saving(t) /\ ~Saving(Other(t))
      BY <1>a, <1>b, <2>1 DEF OwnFile, Saving
    <3>2. t = s
      BY <1>b, <3>1, SaversFacts DEF Saving
    <3>3. file = <<>> /\ offset[s] = 0
      BY <1>a, <1>b, <2>1, <3>1, <3>2 DEF OwnFile, Offsets
    <3>4. ~Saving(Other(t))'
      BY <1>b, <3>1, <3>2, SaversFacts DEF Saving
    <3>5. QED
      BY <1>b, <1>c, <3>2, <3>3, <3>4
  <2>2. QED
    BY <1>c, <2>1 DEF OwnFile
<1>6. AckedKept'
  <2>1. \A i \in Ids : Unanswered(i)' = Unanswered(i)
    BY <1>c DEF Unanswered
  <2>2. sst'["final"] = "locked" => unsaved' = nan
    BY <1>a, <1>b, <1>d DEF AckedKept, Savers
  <2>3. QED
    BY <1>a, <1>b, <1>c, <1>d, <2>1, <2>2
       DEF AckedKept, Running, ExitKeepsAcknowledged, Saving, Savers
<1>7. QED
  BY <1>1, <1>2, <1>3, <1>4, <1>5, <1>6 DEF MInv

\* A line lands at the saver's own offset: at the end of a file it has to itself,
\* anywhere in one it shares.
LEMMA WriteLineStep ==
    ASSUME MInv, Running, NEW s \in Savers, NEW i \in Ids, WriteLine(s, i)
    PROVE  MInv'
<1>a. TypeOK /\ AtRest /\ Offsets /\ NothingAhead /\ OwnFile /\ AckedKept
  BY DEF MInv
<1> DEFINE l == [id |-> i, val |-> store[i]]
           n == offset[s]
<1>b. /\ sst[s] = "locked" /\ i \in todo[s] /\ i \notin nan
      /\ file' = WriteAt(file, n, l)
      /\ offset'[s] = n + 1 /\ todo'[s] = todo[s] \ {i}
      /\ todo' \in [Savers -> SUBSET Ids]
      /\ \A t \in Savers : t # s => offset'[t] = offset[t] /\ todo'[t] = todo[t]
  BY <1>a DEF WriteLine, NextLine, TypeOK
<1>c. UNCHANGED <<procVars, memVars, handlerVars, sst, clean, history>>
  BY DEF WriteLine
<1>d. file \in Seq(Line \cup {Hole}) /\ Len(file) \in Nat /\ Len(file) <= Cardinality(Ids)
  BY <1>a DEF TypeOK, Line
<1>e. n \in Nat /\ l \in Line /\ l.id = i /\ l.val = store[i]
  BY <1>a DEF TypeOK, Line
<1>f. n + 1 + Cardinality(todo[s] \ {i}) <= Cardinality(Ids)
      /\ Cardinality(todo[s] \ {i}) \in Nat
  <2>1. todo[s] \subseteq Ids
    BY <1>a DEF TypeOK
  <2>2. IsFiniteSet(todo[s])
    BY <2>1, IdsFinite, FS_Subset
  <2>3. Cardinality(todo[s] \ {i}) = Cardinality(todo[s]) - 1 /\ IsFiniteSet(todo[s] \ {i})
    BY <1>b, <2>2, FS_RemoveElement
  <2>4. Cardinality(todo[s] \ {i}) \in Nat /\ Cardinality(todo[s]) \in Nat
    BY <2>2, <2>3, FS_CardinalityType
  <2>5. n + Cardinality(todo[s]) <= Cardinality(Ids)
    BY <1>a DEF Offsets
  <2> HIDE DEF n
  <2>6. QED
    BY <1>e, <2>3, <2>4, <2>5, IdsFinite
<1> HIDE DEF l, n
<1>g. /\ file' \in Seq(Line \cup {Hole})
      /\ Len(file') = IF Len(file) >= n + 1 THEN Len(file) ELSE n + 1
      /\ n + 1 \in DOMAIN file' /\ file'[n + 1] = l
      /\ \A m \in DOMAIN file' : \/ m = n + 1
                                 \/ m \in DOMAIN file /\ file'[m] = file[m]
                                 \/ m \notin DOMAIN file /\ file'[m] = Hole
  <2>1. file' = WriteAt(file, n, l)
    BY <1>b
  <2>2. QED
    BY <1>d, <1>e, <2>1, WriteAtProperty
<1> USE DEF procVars, memVars, handlerVars, history
<1>1. TypeOK'
  <2>1. Len(file') <= Cardinality(Ids)
    BY <1>d, <1>e, <1>f, <1>g, IdsFinite
  <2>2. offset'[s] \in 0..Cardinality(Ids)
    BY <1>b, <1>e, <1>f, IdsFinite
  <2>3. offset' \in [Savers -> 0..Cardinality(Ids)]
    BY <1>a, <2>2 DEF WriteLine, TypeOK
  <2>4. QED
    BY <1>a, <1>b, <1>c, <1>g, <2>1, <2>3 DEF TypeOK, Line
<1>2. AtRest'
  BY <1>c DEF AtRest, Running
<1>3. Offsets'
  BY <1>a, <1>b, <1>c, <1>f DEF Offsets
<1>4. NothingAhead'
  <2>1. NothingInvented /\ \A m \in DOMAIN file : file[m] # Hole => file[m].val <= applied[file[m].id]
    BY <1>a DEF NothingAhead
  <2>2. l.val <= applied[l.id]
    BY <1>e, <2>1 DEF NothingInvented
  <2>3. \A m \in DOMAIN file' : file'[m] # Hole => file'[m].val <= applied[file'[m].id]
    BY <1>g, <2>1, <2>2
  <2>4. QED
    BY <1>c, <2>1, <2>3 DEF NothingAhead, NothingInvented
<1>5. OwnFile'
  <2>1. ASSUME NEW t \in Savers, clean[t], Saving(t)
        PROVE  /\ t = s /\ ~Saving(Other(s))
               /\ Len(file) = n
               /\ \A m \in DOMAIN file : /\ file[m] # Hole /\ file[m].id \notin nan
                                         /\ file[m].val = store[file[m].id]
               /\ \A j \in Ids \ nan : store[j] > 0 /\ j \notin todo[s]
                     => \E m \in DOMAIN file : file[m].id = j
    <3>1. ~Saving(Other(t))
      BY <1>a, <2>1 DEF OwnFile
    <3>2. t = s
      BY <1>b, <3>1, SaversFacts DEF Saving
    <3>3. QED
      BY <1>a, <1>b, <2>1, <3>1, <3>2 DEF OwnFile, n
  <2>2. ASSUME clean[s], Saving(s), Len(file) = n
        PROVE  Len(file') = n + 1 /\ \A m \in DOMAIN file' : m = n + 1 \/ (m \in DOMAIN file /\ file'[m] = file[m])
    <3>1. Len(file') = n + 1
      BY <1>d, <1>e, <1>g, <2>2
    <3>2. DOMAIN file' = 1..(n + 1) /\ DOMAIN file = 1..n
      BY <1>d, <1>g, <2>2, <3>1
    <3>3. QED
      BY <1>e, <1>g, <3>1, <3>2
  <2>3. ASSUME NEW j \in Ids \ nan, store[j] > 0, j \notin todo'[s], clean[s], Saving(s)
        PROVE  \E m \in DOMAIN file' : file'[m].id = j
    <3>1. CASE j = i
      BY <1>e, <1>g, <3>1
    <3>2. CASE j # i
      <4>1. j \notin todo[s]
        BY <1>b, <2>3, <3>2
      <4>2. PICK m \in DOMAIN file : file[m].id = j
        BY <2>1, <2>3, <4>1
      <4>3. Len(file) = n
        BY <2>1, <2>3
      <4>4. DOMAIN file = 1..n /\ DOMAIN file' = 1..(n + 1)
        BY <1>d, <1>g, <2>2, <2>3, <4>3
      <4>5. m \in DOMAIN file' /\ m # n + 1
        BY <1>e, <4>4
      <4>6. QED
        BY <1>g, <4>2, <4>5
    <3>3. QED
      BY <3>1, <3>2
  <2>4. ASSUME NEW t \in Savers, clean[t], Saving(t)
        PROVE  /\ ~Saving(Other(t)) /\ sst[t] = "locked"
               /\ Len(file') = offset'[t]
               /\ \A m \in DOMAIN file' : /\ file'[m] # Hole /\ file'[m].id \notin nan
                                          /\ file'[m].val = store[file'[m].id]
               /\ \A j \in Ids \ nan : store[j] > 0 /\ j \notin todo'[t]
                     => \E m \in DOMAIN file' : file'[m].id = j
    <3>1. t = s /\ ~Saving(Other(t)) /\ Len(file) = n
      BY <2>1, <2>4
    <3>2. l # Hole
      BY <1>e, MemServerAssumption DEF Line
    <3>3. QED
      BY <1>b, <1>e, <1>g, <2>1, <2>2, <2>3, <2>4, <3>1, <3>2
  <2>5. QED
    BY <1>c, <2>4 DEF OwnFile, Saving
<1>6. AckedKept'
  <2>1. \A j \in Ids : Unanswered(j)' = Unanswered(j)
    BY <1>c DEF Unanswered
  <2>2. ~(sst["final"] = "done" /\ clean["final"])
    BY <1>a, <1>b DEF AckedKept, Saving, Savers
  <2>3. QED
    BY <1>a, <1>c, <2>1, <2>2 DEF AckedKept, Running, ExitKeepsAcknowledged, Saving
<1>7. QED
  BY <1>1, <1>2, <1>3, <1>4, <1>5, <1>6 DEF MInv

\* A gauge that is no number is passed over.
LEMMA DropLineStep ==
    ASSUME MInv, Running, NEW s \in Savers, NEW i \in Ids, DropLine(s, i)
    PROVE  MInv'
<1>a. TypeOK /\ AtRest /\ Offsets /\ NothingAhead /\ OwnFile /\ AckedKept
  BY DEF MInv
<1>b. /\ sst[s] = "locked" /\ i \in todo[s] /\ i \in nan
      /\ todo'[s] = todo[s] \ {i} /\ todo' \in [Savers -> SUBSET Ids]
      /\ \A t \in Savers : t # s => todo'[t] = todo[t]
  BY <1>a DEF DropLine, NextLine, TypeOK
<1>c. UNCHANGED <<procVars, memVars, file, handlerVars, sst, offset, clean, history>>
  BY DEF DropLine
<1> USE DEF procVars, memVars, handlerVars, history
<1>1. TypeOK' /\ AtRest' /\ NothingAhead'
  BY <1>a, <1>b, <1>c DEF TypeOK, AtRest, Running, NothingAhead, NothingInvented
<1>2. Offsets'
  <2>1. todo[s] \subseteq Ids /\ offset[s] \in Nat
    BY <1>a, IdsFinite DEF TypeOK
  <2>2. IsFiniteSet(todo[s])
    BY <2>1, IdsFinite, FS_Subset
  <2>3. Cardinality(todo[s] \ {i}) = Cardinality(todo[s]) - 1 /\ Cardinality(todo[s]) \in Nat
    BY <1>b, <2>2, FS_RemoveElement, FS_CardinalityType
  <2>4. offset[s] + Cardinality(todo'[s]) <= Cardinality(Ids)
    BY <1>a, <1>b, <2>1, <2>3, IdsFinite DEF Offsets
  <2>5. QED
    BY <1>a, <1>b, <1>c, <2>4 DEF Offsets
<1>3. OwnFile'
  BY <1>a, <1>b, <1>c DEF OwnFile, Saving
<1>4. AckedKept'
  <2>1. \A j \in Ids : Unanswered(j)' = Unanswered(j)
    BY <1>c DEF Unanswered
  <2>2. QED
    BY <1>a, <1>c, <2>1 DEF AckedKept, Running, ExitKeepsAcknowledged, Saving
<1>5. QED
  BY <1>1, <1>2, <1>3, <1>4 DEF MInv

\* The file of a saver that had it to itself, at the end of the save.
LEMMA SnapshotAtClose ==
    ASSUME MInv, NEW s \in Savers, sst[s] = "locked", todo[s] = {}, clean[s]
    PROVE  ReadFromFile(file) = [i \in Ids |-> IF i \in nan THEN 0 ELSE store[i]]
<1> DEFINE shown == [i \in Ids |-> IF i \in nan THEN 0 ELSE store[i]]
<1>a. TypeOK /\ OwnFile
  BY DEF MInv
<1>b. /\ \A n \in DOMAIN file : /\ file[n] # Hole /\ file[n].id \notin nan
                               /\ file[n].val = store[file[n].id]
      /\ \A i \in Ids \ nan : store[i] > 0 => \E n \in DOMAIN file : file[n].id = i
  BY <1>a DEF OwnFile, Saving
<1>c. file \in Seq(Line \cup {Hole}) /\ store \in [Ids -> Nat]
  BY <1>a DEF TypeOK, Line
<1>1. \A n \in DOMAIN file : n \in Good(file)
  BY <1>b, <1>c DEF Good
<1>2. ASSUME NEW i \in Ids
      PROVE  ReadFromFile(file)[i] = shown[i]
  <2>1. CASE ReadFromFile(file)[i] = 0 /\ \A n \in Good(file) : file[n].id # i
    BY <1>1, <1>b, <1>c, <2>1
  <2>2. CASE \E n \in Good(file) : file[n].id = i /\ ReadFromFile(file)[i] = file[n].val
    BY <1>b, <2>2 DEF Good
  <2>3. QED
    BY <1>c, <2>1, <2>2, ReadFromFileProperty
<1>3. ReadFromFile(file) \in [Ids -> Nat] /\ shown \in [Ids -> Nat]
  BY <1>c, ReadFromFileType
<1> HIDE DEF shown
<1>4. ReadFromFile(file) = shown
  BY <1>2, <1>3
<1>5. QED
  BY <1>4 DEF shown

LEMMA CloseStep ==
    ASSUME MInv, Running, NEW s \in Savers, Close(s)
    PROVE  MInv'
<1>a. TypeOK /\ AtRest /\ Offsets /\ NothingAhead /\ OwnFile /\ AckedKept
  BY DEF MInv
<1>b. /\ sst[s] = "locked" /\ todo[s] = {} /\ sst'[s] \in {"idle", "done"}
      /\ sst' \in [Savers -> {"idle", "created", "locked", "done"}]
      /\ offset'[s] = 0
      /\ \A t \in Savers : t # s => sst'[t] = sst[t] /\ offset'[t] = offset[t]
  BY <1>a DEF Close, TypeOK
<1>c. UNCHANGED <<procVars, memVars, file, handlerVars, todo, clean, applied, acked, ackedSig,
                unsaved>>
  BY DEF Close
<1> USE DEF procVars, memVars, handlerVars
<1>1. TypeOK'
  <2>1. file \in Seq(Line \cup {Hole})
    BY <1>a DEF TypeOK, Line
  <2>2. lastSave' \in [Ids -> Nat]
    BY <1>a, <2>1, ReadFromFileType DEF Close, TypeOK
  <2>3. offset' \in [Savers -> 0..Cardinality(Ids)]
    BY <1>a, IdsFinite DEF Close, TypeOK
  <2>4. QED
    BY <1>a, <1>b, <1>c, <2>2, <2>3 DEF TypeOK
<1>2. AtRest'
  BY <1>c DEF AtRest, Running
<1>3. Offsets'
  <2>1. Cardinality(todo[s]) = 0
    BY <1>b, FS_EmptySet
  <2>2. offset'[s] + Cardinality(todo[s]) <= Cardinality(Ids)
    BY <1>b, <2>1, IdsFinite
  <2>3. QED
    BY <1>a, <1>b, <1>c, <2>2 DEF Offsets
<1>4. NothingAhead'
  BY <1>a, <1>c DEF NothingAhead, NothingInvented
<1>5. OwnFile'
  <2>1. ASSUME NEW t \in Savers, clean'[t], Saving(t)'
        PROVE  FALSE
    <3>1. t # s /\ clean[t] /\ Saving(t)
      BY <1>b, <1>c, <2>1 DEF Saving
    <3>2. ~Saving(Other(t)) /\ Other(t) = s
      BY <1>a, <3>1, SaversFacts DEF OwnFile
    <3>3. QED
      BY <1>b, <3>2 DEF Saving
  <2>2. QED
    BY <2>1 DEF OwnFile
<1>6. AckedKept'
  <2>1. \A i \in Ids : Unanswered(i)' = Unanswered(i)
    BY <1>c DEF Unanswered
  <2>2. sst'["final"] # "idle" => ctxDone
    BY <1>a, <1>b DEF AckedKept, Savers
  <2>3. ASSUME sst'["final"] = "done", clean["final"]
        PROVE  /\ ~Saving("periodic")'
               /\ \A i \in Ids \ unsaved : ReadFromFile(file)[i] >= ackedSig[i]
    <3>1. "final" \in Savers /\ "periodic" \in Savers /\ Other("final") = "periodic"
      BY DEF Savers, Other
    <3>2. s = "final"
      BY <1>a, <1>b, <2>3, <3>1 DEF AckedKept, Saving, Savers
    <3>3. ~Saving("periodic") /\ ctxDone
      BY <1>a, <1>b, <2>3, <3>1, <3>2 DEF OwnFile, Saving, AckedKept
    <3>4. \A i \in Ids \ unsaved : ReadFromFile(file)[i] = store[i]
      <4>1. ReadFromFile(file) = [i \in Ids |-> IF i \in nan THEN 0 ELSE store[i]]
        BY <1>b, <2>3, <3>2, SnapshotAtClose
      <4>2. unsaved = nan
        BY <1>a, <1>b, <3>2 DEF AckedKept
      <4>3. QED
        BY <4>1, <4>2
    <3>5. \A i \in Ids : ackedSig[i] <= store[i] /\ ackedSig[i] \in Nat /\ store[i] \in Nat
      BY <1>a, <3>3 DEF AckedKept, TypeOK
    <3>6. QED
      BY <1>b, <3>1, <3>2, <3>3, <3>4, <3>5 DEF Saving
  <2>4. QED
    BY <1>a, <1>b, <1>c, <2>1, <2>2, <2>3
       DEF AckedKept, Running, ExitKeepsAcknowledged, Savers
<1>7. QED
  BY <1>1, <1>2, <1>3, <1>4, <1>5, <1>6 DEF MInv

-----------------------------------------------------------------------------
(* Shutdown, crash and restart.                                             *)

LEMMA SignalStep ==
    ASSUME MInv, Running, Signal
    PROVE  MInv'
<1>a. TypeOK /\ AtRest /\ Offsets /\ NothingAhead /\ OwnFile /\ AckedKept
  BY DEF MInv
<1>b. /\ ~ctxDone /\ ctxDone' /\ ctxDone' \in BOOLEAN /\ ackedSig' = acked
      /\ UNCHANGED <<proc, http, grpc, memVars, file, handlerVars, saverVars, applied, acked,
                     lastSave, unsaved>>
  BY DEF Signal
<1> USE DEF memVars, handlerVars, saverVars
<1>1. TypeOK'
  BY <1>a, <1>b DEF TypeOK
<1>2. AtRest' /\ Offsets' /\ NothingAhead' /\ OwnFile'
  BY <1>a, <1>b DEF AtRest, Running, Offsets, NothingAhead, NothingInvented, OwnFile, Saving
<1>3. AckedKept'
  <2>1. \A i \in Ids : acked[i] <= store[i]
    <3>1. \A i \in Ids : /\ acked[i] + Cardinality(Unanswered(i)) <= store[i]
                         /\ acked[i] \in Nat /\ store[i] \in Nat
      BY <1>a, <1>b DEF AckedKept, TypeOK
    <3>2. QED
      BY <3>1, UnansweredFinite
  <2>2. sst["final"] = "idle"
    BY <1>a, <1>b DEF AckedKept
  <2>3. QED
    BY <1>b, <2>1, <2>2 DEF AckedKept, Running, ExitKeepsAcknowledged
<1>4. QED
  BY <1>1, <1>2, <1>3 DEF MInv

LEMMA ListenersStep ==
    ASSUME MInv, Running, ShutdownHttp \/ HttpDown \/ StopGrpc \/ GrpcDown
    PROVE  MInv'
<1>a. TypeOK /\ AtRest /\ Offsets /\ NothingAhead /\ OwnFile /\ AckedKept
  BY DEF MInv
<1>b. /\ http' \in {"up", "closing", "down"} /\ grpc' \in {"up", "closing", "down"}
      /\ UNCHANGED <<proc, ctxDone, memVars, file, handlerVars, saverVars, history>>
  BY <1>a DEF ShutdownHttp, HttpDown, StopGrpc, GrpcDown, TypeOK
<1> USE DEF memVars, handlerVars, saverVars, history
<1>1. TypeOK'
  BY <1>a, <1>b DEF TypeOK
<1>2. AtRest' /\ Offsets' /\ NothingAhead' /\ OwnFile'
  BY <1>a, <1>b DEF AtRest, Running, Offsets, NothingAhead, NothingInvented, OwnFile, Saving
<1>3. AckedKept'
  <2>1. \A i \in Ids : Unanswered(i)' = Unanswered(i)
    BY <1>b DEF Unanswered
  <2>2. QED
    BY <1>a, <1>b, <2>1 DEF AckedKept, Running, ExitKeepsAcknowledged, Saving
<1>4. QED
  BY <1>1, <1>2, <1>3 DEF MInv

\* The process ends: the file stays, and after a graceful exit it is the one that
\* the final saver closed.
LEMMA GoneStep ==
    ASSUME MInv, Running, Exit \/ Crash
    PROVE  MInv'
<1>a. TypeOK /\ AtRest /\ Offsets /\ NothingAhead /\ OwnFile /\ AckedKept
  BY DEF MInv
<1>b. /\ proc' \in {"exited", "crashed"}
      /\ proc' = "exited" => sst["final"] = "done"
      /\ MemoryGone /\ UNCHANGED <<file, clean, history>>
  BY DEF Exit, Crash
<1> USE DEF history
<1>1. TypeOK'
  <2>1. Nothing \in [Ids -> Nat]
    BY DEF Nothing
  <2>2. offset' \in [Savers -> 0..Cardinality(Ids)]
    BY <1>b, IdsFinite DEF MemoryGone
  <2>3. QED
    BY <1>a, <1>b, <2>1, <2>2 DEF TypeOK, MemoryGone
<1>2. AtRest'
  BY <1>b DEF AtRest, Running, MemoryGone
<1>3. Offsets'
  BY <1>b, IdsFinite, FS_EmptySet DEF Offsets, MemoryGone
<1>4. NothingAhead'
  <2>1. \A i \in Ids : store'[i] = 0 /\ applied[i] \in Nat
    BY <1>a, <1>b DEF MemoryGone, Nothing, TypeOK
  <2>2. QED
    BY <1>a, <1>b, <2>1 DEF NothingAhead, NothingInvented
<1>5. OwnFile'
  BY <1>b DEF OwnFile, Saving, MemoryGone
<1>6. AckedKept'
  <2>1. ExitKeepsAcknowledged'
    BY <1>a, <1>b DEF AckedKept, ExitKeepsAcknowledged
  <2>2. ~Running' /\ sst'["final"] = "idle"
    BY <1>b DEF Running, MemoryGone, Savers
  <2>3. QED
    BY <2>1, <2>2 DEF AckedKept
<1>7. QED
  BY <1>1, <1>2, <1>3, <1>4, <1>5, <1>6 DEF MInv

LEMMA RestartStep ==
    ASSUME MInv, Restart
    PROVE  MInv'
<1>a. TypeOK /\ AtRest /\ Offsets /\ NothingAhead /\ OwnFile /\ AckedKept
  BY DEF MInv
<1>b. /\ ~Running /\ proc' = "running" /\ store' = ReadFromFile(file)
      /\ clean' = [s \in Savers |-> FALSE]
      /\ acked' = ReadFromFile(file) /\ ackedSig' = Nothing
      /\ UNCHANGED <<ctxDone, http, grpc, nan, file, handlerVars, sst, todo, offset, applied,
                     lastSave, unsaved>>
  BY DEF Restart
<1>c. file \in Seq(Line \cup {Hole})
  BY <1>a DEF TypeOK, Line
<1>d. /\ ~ctxDone
      /\ \A h \in AllHandlers : hst[h] = "idle"
      /\ \A s \in Savers : sst[s] = "idle"
  BY <1>a, <1>b DEF AtRest
<1>e. ReadFromFile(file) \in [Ids -> Nat]
  BY <1>c, ReadFromFileType
<1> USE DEF handlerVars
<1>1. TypeOK'
  <2>1. Nothing \in [Ids -> Nat]
    BY DEF Nothing
  <2>2. clean' \in [Savers -> BOOLEAN]
    BY <1>b, Zenon
  <2>3. QED
    BY <1>a, <1>b, <1>e, <2>1, <2>2 DEF TypeOK
<1>2. AtRest'
  BY <1>b DEF AtRest, Running
<1>3. Offsets'
  BY <1>a, <1>b DEF Offsets
<1>4. NothingAhead'
  <2>1. ASSUME NEW i \in Ids
        PROVE  ReadFromFile(file)[i] <= applied[i]
    <3>1. applied[i] \in Nat
      BY <1>a DEF TypeOK
    <3>2. CASE ReadFromFile(file)[i] = 0
      BY <3>1, <3>2
    <3>3. CASE \E n \in Good(file) : file[n].id = i /\ ReadFromFile(file)[i] = file[n].val
      BY <1>a, <1>c, <3>3, ReadFromFileProperty DEF NothingAhead
    <3>4. QED
      BY <1>c, <3>2, <3>3, ReadFromFileProperty
  <2>2. QED
    BY <1>a, <1>b, <2>1 DEF NothingAhead, NothingInvented
<1>5. OwnFile'
  BY <1>b, <1>d DEF OwnFile, Saving
<1>6. AckedKept'
  <2>1. \A i \in Ids : Unanswered(i)' = {}
    BY <1>b, <1>d DEF Unanswered
  <2>2. \A i \in Ids : acked'[i] + Cardinality(Unanswered(i)') <= store'[i]
    BY <1>b, <1>e, <2>1, FS_EmptySet
  <2>3. QED
    BY <1>b, <1>d, <2>2 DEF AckedKept, Running, ExitKeepsAcknowledged, Savers
<1>7. QED
  BY <1>1, <1>2, <1>3, <1>4, <1>5, <1>6 DEF MInv

-----------------------------------------------------------------------------
(* The theorems.                                                            *)

LEMMA MInitInv == Init => MInv
<1> SUFFICES ASSUME Init PROVE MInv
  OBVIOUS
<1> USE DEF Init
<1>0. Nothing \in [Ids -> Nat] /\ \A i \in Ids : Nothing[i] = 0
  BY DEF Nothing
<1>1. TypeOK
  <2>1. file \in Seq(Line \cup {Hole}) /\ Len(file) <= Cardinality(Ids)
    BY IdsFinite
  <2>2. offset \in [Savers -> 0..Cardinality(Ids)]
    BY IdsFinite
  <2>3. clean \in [Savers -> BOOLEAN]
    BY Zenon
  <2>4. QED
    BY <1>0, <2>1, <2>2, <2>3 DEF TypeOK, Line
<1>2. AtRest /\ OwnFile
  BY DEF AtRest, Running, OwnFile, Saving
<1>3. Offsets
  BY IdsFinite, FS_EmptySet DEF Offsets
<1>4. NothingAhead
  BY <1>0 DEF NothingAhead, NothingInvented
<1>5. AckedKept
  <2>1. \A i \in Ids : Unanswered(i) = {}
    BY DEF Unanswered
  <2>2. \A i \in Ids : Cardinality(Unanswered(i)) = 0
    BY <2>1, FS_EmptySet
  <2>3. \A i \in Ids : acked[i] = 0 /\ store[i] = 0
    BY <1>0
  <2>4. QED
    BY <2>2, <2>3 DEF AckedKept, Running, ExitKeepsAcknowledged, Savers
<1>6. QED
  BY <1>1, <1>2, <1>3, <1>4, <1>5 DEF MInv

LEMMA MStutter ==
    ASSUME MInv, UNCHANGED vars
    PROVE  MInv'
  BY DEF vars, procVars, memVars, handlerVars, saverVars, history, MInv, TypeOK, AtRest, Running,
     Offsets, NothingAhead, NothingInvented, OwnFile, Saving, AckedKept, Unanswered,
     ExitKeepsAcknowledged

LEMMA MNextInv ==
    ASSUME MInv, [Next]_vars
    PROVE  MInv'
<1>1. ASSUME Running, NEW h \in AllHandlers, HandlerStep(h)
      PROVE  MInv'
  BY <1>1, BeforeWriteStep, WriteStep, RespondStep DEF HandlerStep
<1>2. ASSUME Running, NEW s \in Savers, SaverStep(s)
      PROVE  MInv'
  BY <1>2, CreateStep, RLockStep, WriteLineStep, DropLineStep, CloseStep DEF SaverStep
<1>3. CASE Running /\ ProcessStep
  BY <1>3, SignalStep, ListenersStep, GoneStep DEF ProcessStep, GroupStep
<1>4. QED
  BY <1>1, <1>2, <1>3, RestartStep, MStutter DEF Next

\* MInv is an invariant of the server, through any crashes and restarts.
THEOREM MemServerInvariant == Spec => []MInv
<1>1. Init => MInv
  BY MInitInv
<1>2. MInv /\ [Next]_vars => MInv'
  BY MNextInv
<1>3. QED
  BY <1>1, <1>2, PTL DEF Spec

\* Types; the file never has more lines than there are metrics.
THEOREM MemServerTypes == Spec => []TypeOK
<1>1. MInv => TypeOK
  BY DEF MInv
<1>2. QED
  BY <1>1, MemServerInvariant, PTL

\* No update is invented by a restart, however savers overlapped or crashed.
THEOREM RestartInventsNothing == Spec => []NothingInvented
<1>1. MInv => NothingInvented
  BY DEF MInv, NothingAhead
<1>2. QED
  BY <1>1, MemServerInvariant, PTL

\* A save that was left alone is a snapshot of the store, but for the gauges
\* that are NaN or infinite, which SaveToFile leaves out.
THEOREM UntouchedSaveIsSnapshot == Spec => []SaveIsSnapshot
<1>1. MInv => SaveIsSnapshot
  BY SnapshotAtClose DEF SaveIsSnapshot
<1>2. QED
  BY <1>1, MemServerInvariant, PTL

\* A graceful exit keeps what was acknowledged before the signal, if the final
\* save was left alone and the metric was a number at that save.
THEOREM ExitKeepsWhatWasAcknowledged == Spec => []ExitKeepsAcknowledged
<1>1. MInv => ExitKeepsAcknowledged
  BY DEF MInv, AckedKept
<1>2. QED
  BY <1>1, MemServerInvariant, PTL
=============================================================================
