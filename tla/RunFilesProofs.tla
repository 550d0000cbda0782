--------------------------- MODULE RunFilesProofs ---------------------------
(***************************************************************************)
(* Theorems about the files through which tessariq processes talk.         *)
(***************************************************************************)
EXTENDS RunFiles, FiniteSetTheorems, SequenceTheorems, WellFoundedInduction, TLAPS

-----------------------------------------------------------------------------
(* Lines.                                                                  *)

\* A write at the end of the index adds a line, or spoils the last one.
LEMMA WrittenAtEnd ==
  ASSUME index \in Seq(Entries), NEW e \in Entries
  PROVE  Written(Len(index), e) =
           IF cut THEN [index EXCEPT ![Len(index)].state = "garbled"] ELSE Append(index, e)
<1>1. CASE cut
  BY <1>1 DEF Written
<1>2. CASE ~cut
  <2> DEFINE k == Len(index)
  <2>1. k \in Nat
    BY LenProperties
  <2>2. SubSeq(index, 1, k) = index
    BY SubSeqFull
  <2>3. SubSeq(index, k + 2, k) = <<>>
    BY <2>1, SubSeqEmpty
  <2>4. index \o <<e>> = Append(index, e)
    BY AppendIsConcat
  <2>5. Append(index, e) \in Seq(Entries)
    BY AppendProperties
  <2>6. Append(index, e) \o <<>> = Append(index, e)
    BY <2>5, ConcatEmptySeq
  <2>7. Written(k, e) = SubSeq(index, 1, k) \o <<e>> \o SubSeq(index, k + 2, k)
    BY <1>2 DEF Written
  <2> HIDE DEF k
  <2>8. Written(k, e) = Append(index, e)
    BY <2>2, <2>3, <2>4, <2>6, <2>7
  <2> QED
    BY <1>2, <2>8 DEF k
<1> QED
  BY <1>1, <1>2

\* The lines after a line has been added.
LEMMA AddedLine ==
  ASSUME NEW s \in Seq(Entries), NEW e \in Entries
  PROVE  /\ Append(s, e) \in Seq(Entries)
         /\ Len(s) \in Nat /\ DOMAIN s = 1..Len(s)
         /\ Len(Append(s, e)) = Len(s) + 1 /\ DOMAIN Append(s, e) = 1..(Len(s) + 1)
         /\ \A i \in 1..Len(s) : Append(s, e)[i] = s[i]
         /\ Append(s, e)[Len(s) + 1] = e
<1>1. Append(s, e) \in Seq(Entries)
  BY AppendProperties
<1>2. Len(Append(s, e)) = Len(s) + 1
  BY AppendProperties
<1>3. \A i \in 1..Len(s) : Append(s, e)[i] = s[i]
  BY AppendProperties
<1>4. Append(s, e)[Len(s) + 1] = e
  BY AppendProperties
<1>5. Len(s) \in Nat /\ DOMAIN s = 1..Len(s)
  BY LenProperties
<1>6. DOMAIN Append(s, e) = 1..Len(Append(s, e))
  BY <1>1, LenProperties
<1> QED
  BY <1>1, <1>2, <1>3, <1>4, <1>5, <1>6

\* The lines after the last one has been spoilt.
LEMMA SpoiltLine ==
  ASSUME NEW s \in Seq(Entries)
  PROVE  LET t == [s EXCEPT ![Len(s)].state = "garbled"]
         IN  /\ t \in Seq(Entries)
             /\ Len(t) = Len(s) /\ DOMAIN t = DOMAIN s /\ DOMAIN s = 1..Len(s) /\ Len(s) \in Nat
             /\ \A i \in 1..Len(s) : i # Len(s) => t[i] = s[i]
             /\ s # <<>> => t[Len(s)].state = "garbled"
<1> DEFINE t == [s EXCEPT ![Len(s)].state = "garbled"]
<1>1. Len(s) \in Nat /\ DOMAIN s = 1..Len(s) /\ s \in [1..Len(s) -> Entries]
  BY LenProperties
<1>2. DOMAIN t = DOMAIN s
  OBVIOUS
<1>3. \A i \in 1..Len(s) : i # Len(s) => t[i] = s[i]
  BY <1>1
<1>4. ASSUME Len(s) \in 1..Len(s)
      PROVE  t[Len(s)] = [s[Len(s)] EXCEPT !.state = "garbled"]
  BY <1>1, <1>4
<1>5. ASSUME NEW r \in Entries PROVE [r EXCEPT !.state = "garbled"] \in Entries
  BY DEF Entries
<1>6. t \in [1..Len(s) -> Entries]
  <2>1. ASSUME NEW i \in 1..Len(s) PROVE t[i] \in Entries
    <3>1. s[i] \in Entries
      BY <1>1
    <3>2. CASE i = Len(s)
      BY <1>4, <1>5, <3>1, <3>2
    <3>3. CASE i # Len(s)
      BY <1>3, <3>1, <3>3
    <3> QED
      BY <3>2, <3>3
  <2> QED
    BY <1>1, <1>2, <2>1
<1>7. t \in Seq(Entries) /\ Len(t) = Len(s)
  BY <1>1, <1>6
<1>8. ASSUME s # <<>> PROVE t[Len(s)].state = "garbled"
  <2>1. Len(s) \in 1..Len(s)
    BY <1>1, <1>8, EmptySeq
  <2>2. s[Len(s)] \in Entries
    BY <1>1, <2>1
  <2> QED
    BY <1>4, <2>1, <2>2 DEF Entries
<1> QED
  BY <1>1, <1>2, <1>3, <1>7, <1>8

-----------------------------------------------------------------------------
(* The index under its lock.                                               *)

\* Whoever is between its lock and its unlock holds the lock, so its offset is
\* still the end of the index when it writes.
LockInv ==
  /\ TypeOK
  /\ \A w \in Writers : pc[w] \in {"seek", "append"} => lock = w
  /\ \A w \in Writers : pc[w] = "append" => offset[w] = Len(index)
  /\ cut => index # <<>>

\* What AppendLine does: nothing, or a line is added, or the last is spoilt;
\* an entry is acknowledged exactly when the line it is in has its newline.
LEMMA AppendLineEffect ==
  ASSUME LockInv, NEW w \in Writers, AppendLine(w)
  PROVE  \/ UNCHANGED <<index, cut, acked>>
         \/ \E e, line \in Entries :
              /\ e = [by |-> w, run |-> target[w], state |-> data[w]]
              /\ line = e \/ line = [e EXCEPT !.state = "garbled"]
              /\ index' = IF cut THEN [index EXCEPT ![Len(index)].state = "garbled"]
                          ELSE Append(index, line)
              /\ \/ line = e /\ ~cut' /\ acked' = acked \cup {e}
                 \/ cut' /\ UNCHANGED acked
<1> DEFINE e == [by |-> w, run |-> target[w], state |-> data[w]]
           g == [e EXCEPT !.state = "garbled"]
<1>1. e \in Entries /\ g \in Entries
  BY DEF LockInv, TypeOK, Entries
<1>2. index \in Seq(Entries) /\ offset[w] = Len(index) /\ cut \in BOOLEAN
  BY DEF LockInv, TypeOK, AppendLine
<1>3. \A line \in Entries :
        Written(offset[w], line) =
          IF cut THEN [index EXCEPT ![Len(index)].state = "garbled"] ELSE Append(index, line)
  BY <1>2, WrittenAtEnd
<1>4. \/ index' = Written(offset[w], e) /\ cut' = FALSE /\ acked' = acked \cup {e}
      \/ UNCHANGED <<index, cut, acked>>
      \/ /\ \E line \in {e, g} : index' = Written(offset[w], line)
         /\ cut' = TRUE /\ UNCHANGED acked
  BY DEF AppendLine
<1> HIDE DEF g
<1>5. e = [by |-> w, run |-> target[w], state |-> data[w]] /\ g = [e EXCEPT !.state = "garbled"]
  BY DEF g
<1> HIDE DEF e
<1>6. CASE index' = Written(offset[w], e) /\ cut' = FALSE /\ acked' = acked \cup {e}
  BY <1>1, <1>3, <1>5, <1>6
<1>7. CASE /\ \E line \in {e, g} : index' = Written(offset[w], line)
           /\ cut' = TRUE /\ UNCHANGED acked
  <2>1. PICK line \in {e, g} : index' = Written(offset[w], line)
    BY <1>7
  <2> QED
    BY <1>1, <1>3, <1>5, <1>7, <2>1
<1> QED
  BY <1>4, <1>6, <1>7

\* So the index stays one of entries, and does not get shorter.
LEMMA AppendLineTypes ==
  ASSUME LockInv, NEW w \in Writers, AppendLine(w)
  PROVE  /\ index' \in Seq(Entries) /\ cut' \in BOOLEAN /\ acked' \subseteq Entries
         /\ cut' => index' # <<>>
<1> USE DEF LockInv, TypeOK
<1>1. CASE UNCHANGED <<index, cut, acked>>
  BY <1>1
<1>2. CASE ~UNCHANGED <<index, cut, acked>>
  <2>1. PICK e, line \in Entries :
          /\ index' = IF cut THEN [index EXCEPT ![Len(index)].state = "garbled"]
                      ELSE Append(index, line)
          /\ \/ line = e /\ ~cut' /\ acked' = acked \cup {e}
             \/ cut' /\ UNCHANGED acked
    BY <1>2, AppendLineEffect
  <2>2. cut' \in BOOLEAN /\ acked' \subseteq Entries
    BY <2>1 DEF AppendLine
  <2>3. CASE cut
    <3>1. index' \in Seq(Entries) /\ Len(index') = Len(index)
      BY <2>1, <2>3, SpoiltLine
    <3>2. index # <<>>
      BY <2>3
    <3>3. index' # <<>>
      BY <3>1, <3>2, EmptySeq
    <3> QED
      BY <2>2, <3>1, <3>3
  <2>4. CASE ~cut
    <3>1. index' = Append(index, line)
      BY <2>1, <2>4
    <3>2. index' \in Seq(Entries) /\ index' # <<>>
      BY <3>1, AppendProperties
    <3> QED
      BY <2>2, <3>2
  <2> QED
    BY <2>3, <2>4
<1> QED
  BY <1>1, <1>2

LEMMA InitLockInv == Init => LockInv
<1> SUFFICES ASSUME Init PROVE LockInv
  OBVIOUS
<1>1. index \in Seq(Entries)
  BY EmptySeq DEF Init
<1>2. TypeOK
  BY <1>1 DEF Init, TypeOK, Writers, Pcs, Contents, States, Outcomes
<1> QED
  BY <1>2 DEF Init, LockInv

\* The writes of status.json keep the types.
LEMMA StatusTypes ==
  ASSUME LockInv, NEW w \in Writers, OpenTmp(w) \/ FillTmp(w) \/ RenameTmp(w)
  PROVE  LockInv'
<1> USE DEF LockInv, TypeOK, Goto, Pcs, Contents, indexVars
<1>0. target[w] \in Runs /\ data[w] \in States
  OBVIOUS
<1>1. CASE OpenTmp(w)
  BY <1>0, <1>1 DEF OpenTmp
<1>2. CASE FillTmp(w)
  <2>1. PICK bytes \in Contents :
          /\ tmp' = IF fd[w] = "tmp" THEN [tmp EXCEPT ![target[w]] = bytes] ELSE tmp
          /\ json' = IF fd[w] = "json" THEN [json EXCEPT ![target[w]] = bytes] ELSE json
    BY <1>0, <1>2 DEF FillTmp, Overlay
  <2>2. pc' = [pc EXCEPT ![w] = "read"] \/ pc' = [pc EXCEPT ![w] = "failed"]
          \/ pc' = [pc EXCEPT ![w] = "rename"]
    BY <1>2 DEF FillTmp, WriteFailed
  <2>3. tmp' \in [Runs -> Contents] /\ json' \in [Runs -> Contents]
    BY <2>1
  <2>4. fd' = [fd EXCEPT ![w] = "none"] /\ UNCHANGED <<target, data, final, indexVars>>
    BY <1>2 DEF FillTmp
  <2> QED
    BY <2>2, <2>3, <2>4
<1>3. CASE RenameTmp(w)
  <2>1. \E l \in {"read", "failed", "idle"} : pc' = [pc EXCEPT ![w] = l]
    BY <1>3 DEF RenameTmp, WriteFailed
  <2>2. UNCHANGED <<json, tmp>>
          \/ /\ json' = [json EXCEPT ![target[w]] = tmp[target[w]]]
             /\ tmp' = [tmp EXCEPT ![target[w]] = "absent"]
    BY <1>3 DEF RenameTmp, statusVars
  <2>3. tmp' \in [Runs -> Contents] /\ json' \in [Runs -> Contents]
    <3>1. tmp[target[w]] \in Contents /\ "absent" \in Contents
      BY <1>0
    <3> QED
      BY <1>0, <2>2, <3>1
  <2>4. fd' \in [Writers -> {"none", "tmp", "json", "unlinked"}]
    BY <1>3 DEF RenameTmp, Renamed, statusVars
  <2>5. UNCHANGED <<target, data, final, indexVars>>
    BY <1>3 DEF RenameTmp
  <2>6. pc' \in [Writers -> Pcs] /\ \A v \in Writers : pc'[v] \in {"seek", "append"} => pc[v] = pc'[v]
    BY <2>1
  <2> QED
    BY <2>3, <2>4, <2>5, <2>6
<1> QED
  BY <1>1, <1>2, <1>3

\* So do the appends to the index ...
LEMMA IndexTypes ==
  ASSUME LockInv, NEW w \in Writers, LockIndex(w) \/ SeekIndex(w) \/ AppendLine(w)
  PROVE  LockInv'
<1> USE DEF LockInv, TypeOK, Goto, Pcs, statusVars
<1>1. CASE LockIndex(w)
  <2>1. \A v \in Writers : pc[v] \notin {"seek", "append"}
    BY <1>1, WritersAssumption DEF LockIndex, Writers
  <2> QED
    BY <1>1, <2>1 DEF LockIndex
<1>2. CASE SeekIndex(w)
  <2>1. Len(index) \in Nat
    BY LenProperties
  <2>2. offset' = [offset EXCEPT ![w] = Len(index)] /\ pc' = [pc EXCEPT ![w] = "append"] /\ lock = w
        /\ UNCHANGED <<target, data, final, statusVars, index, cut, lock, acked>>
    BY <1>2 DEF SeekIndex
  <2> QED
    BY <2>1, <2>2
<1>3. CASE AppendLine(w)
  <2>1. \A v \in Writers : v # w => pc[v] \notin {"seek", "append"}
    BY <1>3 DEF AppendLine
  <2>2. \E l \in {"done", "open", "failed"} : pc' = [pc EXCEPT ![w] = l]
    <3>1. ASSUME NEW failing, AfterAppend(w, failing)
          PROVE  \E l \in {"done", "open", "failed"} : pc' = [pc EXCEPT ![w] = l]
      <4>1. CASE w \in Runs
        BY <3>1, <4>1 DEF AfterAppend
      <4>2. CASE w \notin Runs
        BY <3>1, <4>2 DEF AfterAppend
      <4> QED
        BY <4>1, <4>2
    <3>2. AfterAppend(w, FALSE) \/ AfterAppend(w, TRUE)
      BY <1>3 DEF AppendLine
    <3> QED
      BY <3>1, <3>2
  <2>3. \A v \in Writers : pc'[v] \notin {"seek", "append"}
    BY <2>1, <2>2
  <2>4. pc' \in [Writers -> Pcs]
    BY <2>2
  <2>5. offset' = [offset EXCEPT ![w] = 0] /\ lock' = Nobody
        /\ UNCHANGED <<target, data, final, statusVars>>
    BY <1>3 DEF AppendLine
  <2>6. offset' \in [Writers -> Nat]
    BY <2>5
  <2>7. /\ index' \in Seq(Entries) /\ cut' \in BOOLEAN /\ acked' \subseteq Entries
        /\ cut' => index' # <<>>
    BY <1>3, AppendLineTypes
  <2> QED
    BY <2>3, <2>4, <2>5, <2>6, <2>7
<1> QED
  BY <1>1, <1>2, <1>3

\* ... and the rest, a crash included.
LEMMA WriterTypes ==
  ASSUME LockInv, NEW w \in Writers,
         FinishRun(w) \/ ReadOwnStatus(w) \/ Reconcile(w) \/ EnsureIndexState(w) \/ Crash(w)
  PROVE  LockInv'
<1> USE DEF LockInv, TypeOK, Goto, Pcs, statusVars, indexVars
<1>1. CASE FinishRun(w)
  BY <1>1 DEF FinishRun, States
<1>2. CASE ReadOwnStatus(w)
  <2>1. CASE json[w] \in States
    BY <1>2, <2>1 DEF ReadOwnStatus
  <2>2. CASE json[w] \notin States
    BY <1>2, <2>2 DEF ReadOwnStatus
  <2> QED
    BY <2>1, <2>2
<1>3. CASE Reconcile(w)
  <2>1. \E l \in {"read", "open", "failed"} : pc' = [pc EXCEPT ![w] = l]
    BY <1>3 DEF Reconcile, Outcomes
  <2>2. data' \in [Writers -> States]
    BY <1>3 DEF Reconcile, States, Outcomes
  <2>3. UNCHANGED <<target, final, statusVars, indexVars>>
    BY <1>3 DEF Reconcile
  <2> QED
    BY <2>1, <2>2, <2>3
<1>4. CASE EnsureIndexState(w)
  <2>1. \E l \in {"done", "lock"} : pc' = [pc EXCEPT ![w] = l]
    BY <1>4 DEF EnsureIndexState
  <2> QED
    BY <1>4, <2>1 DEF EnsureIndexState
<1>5. CASE Crash(w)
  <2>1. \A v \in Writers : v # w /\ pc[v] \in {"seek", "append"} => lock' = v
    BY <1>5 DEF Crash
  <2>2. "running" \in States
    BY DEF States
  <2> QED
    BY <1>5, <2>1, <2>2 DEF Crash
<1> QED
  BY <1>1, <1>2, <1>3, <1>4, <1>5

LEMMA LockStep ==
  ASSUME LockInv, [Next]_vars PROVE LockInv'
<1>1. CASE Next
  BY <1>1, StatusTypes, IndexTypes, WriterTypes DEF Next, Step
<1>2. CASE UNCHANGED vars
  BY <1>2 DEF vars, LockInv, TypeOK
<1> QED
  BY <1>1, <1>2

\* Whatever crashes and however full the disk is, index.jsonl is a sequence of
\* lines and the lock is free or with a writer (index.go).
THEOREM TypeCorrect == Spec => []TypeOK
<1>1. LockInv => TypeOK
  BY DEF LockInv
<1> QED
  BY <1>1, InitLockInv, LockStep, PTL DEF Spec

-----------------------------------------------------------------------------
(* What a garbled line costs.                                              *)

\* The lines that end in a newline: only the last may not.
Steady == IF cut THEN 1..(Len(index) - 1) ELSE 1..Len(index)
Kept == {index[i] : i \in {j \in Steady : index[j].state # "garbled"}}

\* An entry that was acknowledged and is in no steady line was swallowed by a
\* steady line that is garbled, and each such line swallowed only one.
LossInv ==
  /\ LockInv
  /\ IsFiniteSet(acked)
  /\ Cardinality(acked \ Kept) <= Cardinality(Garbled \cap Steady)

LEMMA SteadyIsFinite ==
  ASSUME index \in Seq(Entries)
  PROVE  IsFiniteSet(Garbled) /\ IsFiniteSet(Garbled \cap Steady)
<1>1. Len(index) \in Nat /\ DOMAIN index = 1..Len(index)
  BY LenProperties
<1>2. IsFiniteSet(1..Len(index))
  BY <1>1, FS_Interval
<1>3. Garbled \subseteq 1..Len(index)
  BY <1>1 DEF Garbled
<1>4. IsFiniteSet(Garbled)
  BY <1>2, <1>3, FS_Subset
<1>5. IsFiniteSet(Garbled \cap Steady)
  BY <1>4, FS_Subset
<1> QED
  BY <1>4, <1>5

\* A set that grows by at most one element has at most one more.
LEMMA OneMore ==
  ASSUME NEW S, NEW T, NEW x, IsFiniteSet(S), T \subseteq S \cup {x}
  PROVE  IsFiniteSet(T) /\ Cardinality(T) <= Cardinality(S) + 1
<1>0. Cardinality(S) \in Nat
  BY FS_CardinalityType
<1>1. IsFiniteSet(S \cup {x}) /\ Cardinality(S \cup {x}) <= Cardinality(S) + 1
  <2>1. IsFiniteSet(S \cup {x})
    BY FS_AddElement
  <2>2. Cardinality(S \cup {x}) = IF x \in S THEN Cardinality(S) ELSE Cardinality(S) + 1
    BY FS_AddElement
  <2> QED
    BY <1>0, <2>1, <2>2
<1>2. IsFiniteSet(T) /\ Cardinality(T) <= Cardinality(S \cup {x})
  BY <1>1, FS_Subset
<1>3. Cardinality(T) \in Nat /\ Cardinality(S) \in Nat /\ Cardinality(S \cup {x}) \in Nat
  BY <1>1, <1>2, FS_CardinalityType
<1> QED
  BY <1>1, <1>2, <1>3

\* A line that is added takes nothing from the steady ones.
LEMMA LossOfAdding ==
  ASSUME LossInv, ~cut, NEW e \in Entries, NEW line \in Entries, index' = Append(index, line),
         \/ line = e /\ ~cut' /\ acked' = acked \cup {e} /\ e.state # "garbled"
         \/ cut' /\ UNCHANGED acked
  PROVE  /\ IsFiniteSet(acked')
         /\ Cardinality((acked \ Kept)') <= Cardinality((Garbled \cap Steady)')
<1> DEFINE n == Len(index)
<1>1. index \in Seq(Entries)
  BY DEF LossInv, LockInv, TypeOK
<1>2. /\ index' \in Seq(Entries) /\ n \in Nat /\ DOMAIN index = 1..n
      /\ Len(index') = n + 1 /\ DOMAIN index' = 1..(n + 1)
      /\ \A i \in 1..n : index'[i] = index[i]
      /\ index'[n + 1] = line
  BY <1>1, AddedLine
<1> HIDE DEF n
<1>3. Steady = 1..n /\ 1..n \subseteq Steady'
  BY <1>2 DEF Steady, n
<1>4. IsFiniteSet(acked')
  BY FS_AddElement DEF LossInv
<1>5. (acked \ Kept)' \subseteq acked \ Kept
  <2>1. Kept \subseteq Kept'
    BY <1>2, <1>3 DEF Kept
  <2>2. CASE cut' /\ UNCHANGED acked
    BY <2>1, <2>2
  <2>3. CASE line = e /\ ~cut' /\ acked' = acked \cup {e} /\ e.state # "garbled"
    <3>1. n + 1 \in Steady' /\ index'[n + 1] = e
      BY <1>2, <2>3 DEF Steady
    <3>2. e \in Kept'
      BY <2>3, <3>1 DEF Kept
    <3> QED
      BY <2>1, <2>3, <3>2
  <2> QED
    BY <2>2, <2>3
<1>6. Garbled \cap Steady \subseteq (Garbled \cap Steady)'
  BY <1>2, <1>3 DEF Garbled
<1>7. IsFiniteSet(acked \ Kept)
  BY FS_Subset DEF LossInv
<1>8. IsFiniteSet((Garbled \cap Steady)')
  <2>1. IsFiniteSet(1..(n + 1))
    BY <1>2, FS_Interval
  <2>2. (Garbled \cap Steady)' \subseteq 1..(n + 1)
    BY <1>2 DEF Garbled
  <2> QED
    BY <2>1, <2>2, FS_Subset
<1>9. Cardinality((acked \ Kept)') <= Cardinality(acked \ Kept)
  BY <1>5, <1>7, FS_Subset
<1>10. Cardinality(Garbled \cap Steady) <= Cardinality((Garbled \cap Steady)')
  BY <1>6, <1>8, FS_Subset
<1>11. IsFiniteSet((acked \ Kept)') /\ IsFiniteSet(Garbled \cap Steady)
  BY <1>1, <1>5, <1>7, FS_Subset, SteadyIsFinite
<1>12. /\ Cardinality((acked \ Kept)') \in Nat /\ Cardinality(acked \ Kept) \in Nat
       /\ Cardinality((Garbled \cap Steady)') \in Nat /\ Cardinality(Garbled \cap Steady) \in Nat
  BY <1>7, <1>8, <1>11, FS_CardinalityType
<1>13. Cardinality(acked \ Kept) <= Cardinality(Garbled \cap Steady)
  BY DEF LossInv
<1> QED
  BY <1>4, <1>9, <1>10, <1>12, <1>13

\* A line that joins one without a newline swallows at most the entry in it,
\* and is garbled for it.
LEMMA LossOfSpoiling ==
  ASSUME LossInv, cut, NEW e \in Entries,
         index' = [index EXCEPT ![Len(index)].state = "garbled"],
         \/ ~cut' /\ acked' = acked \cup {e}
         \/ cut' /\ UNCHANGED acked
  PROVE  /\ IsFiniteSet(acked')
         /\ Cardinality((acked \ Kept)') <= Cardinality((Garbled \cap Steady)')
<1> DEFINE n == Len(index)
<1>1. index \in Seq(Entries) /\ index # <<>>
  BY DEF LossInv, LockInv, TypeOK
<1>2. /\ index' \in Seq(Entries) /\ n \in Nat /\ DOMAIN index = 1..n
      /\ Len(index') = n /\ DOMAIN index' = 1..n
      /\ \A i \in 1..n : i # n => index'[i] = index[i]
      /\ index'[n].state = "garbled"
  BY <1>1, SpoiltLine
<1>3. n > 0
  BY <1>1, <1>2, EmptySeq
<1> HIDE DEF n
<1>4. Steady = 1..(n - 1) /\ Steady' = IF cut' THEN 1..(n - 1) ELSE 1..n
  BY <1>2 DEF Steady, n
<1>5. IsFiniteSet(acked')
  BY FS_AddElement DEF LossInv
<1>6. IsFiniteSet(acked \ Kept) /\ IsFiniteSet(Garbled \cap Steady)
  BY <1>1, FS_Subset, SteadyIsFinite DEF LossInv
<1>7. Kept \subseteq Kept'
  BY <1>2, <1>4 DEF Kept
<1>8. Cardinality(acked \ Kept) <= Cardinality(Garbled \cap Steady)
  BY DEF LossInv
<1>9. Cardinality(acked \ Kept) \in Nat /\ Cardinality(Garbled \cap Steady) \in Nat
  BY <1>6, FS_CardinalityType
<1>10. CASE cut' /\ UNCHANGED acked
  <2>1. (acked \ Kept)' \subseteq acked \ Kept
    BY <1>7, <1>10
  <2>2. (Garbled \cap Steady)' = Garbled \cap Steady
    BY <1>2, <1>4, <1>10 DEF Garbled
  <2>3. IsFiniteSet((acked \ Kept)') /\ Cardinality((acked \ Kept)') <= Cardinality(acked \ Kept)
    BY <1>6, <2>1, FS_Subset
  <2>4. Cardinality((acked \ Kept)') \in Nat
    BY <2>3, FS_CardinalityType
  <2>5. Cardinality((acked \ Kept)') <= Cardinality(Garbled \cap Steady)
    BY <1>8, <1>9, <2>3, <2>4
  <2> QED
    BY <1>5, <2>2, <2>5
<1>11. CASE ~cut' /\ acked' = acked \cup {e}
  <2>1. (acked \ Kept)' \subseteq (acked \ Kept) \cup {e}
    BY <1>7, <1>11
  <2>2. (Garbled \cap Steady)' = (Garbled \cap Steady) \cup {n}
    BY <1>2, <1>3, <1>4, <1>11 DEF Garbled
  <2>3. n \notin Garbled \cap Steady
    BY <1>2, <1>4
  <2>4. /\ IsFiniteSet((acked \ Kept)')
        /\ Cardinality((acked \ Kept)') <= Cardinality(acked \ Kept) + 1
    BY <1>6, <2>1, OneMore
  <2>5. Cardinality((Garbled \cap Steady)') = Cardinality(Garbled \cap Steady) + 1
    BY <1>6, <2>2, <2>3, FS_AddElement
  <2>6. Cardinality((acked \ Kept)') \in Nat
    BY <2>4, FS_CardinalityType
  <2> QED
    BY <1>5, <1>8, <1>9, <2>4, <2>5, <2>6
<1> QED
  BY <1>10, <1>11

LEMMA LossStep ==
  ASSUME LossInv, [Next]_vars PROVE LossInv'
<1>1. LockInv /\ LockInv'
  BY LockStep DEF LossInv
<1>2. CASE \E w \in Writers : AppendLine(w)
  <2>1. PICK w \in Writers : AppendLine(w)
    BY <1>2
  <2>2. CASE UNCHANGED <<index, cut, acked>>
    BY <1>1, <2>2 DEF LossInv, Kept, Garbled, Steady
  <2>3. CASE ~UNCHANGED <<index, cut, acked>>
    <3>1. PICK e, line \in Entries :
            /\ e = [by |-> w, run |-> target[w], state |-> data[w]]
            /\ line = e \/ line = [e EXCEPT !.state = "garbled"]
            /\ index' = IF cut THEN [index EXCEPT ![Len(index)].state = "garbled"]
                        ELSE Append(index, line)
            /\ \/ line = e /\ ~cut' /\ acked' = acked \cup {e}
               \/ cut' /\ UNCHANGED acked
      BY <1>1, <2>1, <2>3, AppendLineEffect
    <3>2. e.state # "garbled"
      BY <1>1, <3>1 DEF LockInv, TypeOK, States, Outcomes
    <3>3. CASE cut
      BY <1>1, <3>1, <3>3, LossOfSpoiling DEF LossInv
    <3>4. CASE ~cut
      BY <1>1, <3>1, <3>2, <3>4, LossOfAdding DEF LossInv
    <3> QED
      BY <3>3, <3>4
  <2> QED
    BY <2>2, <2>3
<1>3. CASE UNCHANGED <<index, cut, acked>>
  BY <1>1, <1>3 DEF LossInv, Kept, Garbled, Steady
<1>4. [Next]_vars => \/ \E w \in Writers : AppendLine(w)
                     \/ UNCHANGED <<index, cut, acked>>
  <2>1. ASSUME NEW w \in Writers, Step(w) \/ Crash(w), ~AppendLine(w)
        PROVE  UNCHANGED <<index, cut, acked>>
    BY <2>1 DEF Step, OpenTmp, FillTmp, RenameTmp, LockIndex, SeekIndex, FinishRun, ReadOwnStatus,
                Reconcile, EnsureIndexState, Crash, indexVars
  <2> QED
    BY <2>1 DEF Next, vars
<1> QED
  BY <1>2, <1>3, <1>4

\* No append that has returned is lost but by a line without its newline, and
\* each such line takes one (index.go:57-58, 111-113).
THEOREM LossIsBoundedByGarbled == Spec => []LossIsBounded
<1>1. Init => LossInv
  <2> SUFFICES ASSUME Init PROVE LossInv
    OBVIOUS
  <2>1. LockInv
    BY InitLockInv
  <2>2. acked = {} /\ acked \ Kept = {}
    BY DEF Init
  <2>3. IsFiniteSet(acked) /\ Cardinality(acked \ Kept) = 0
    BY <2>2, FS_EmptySet
  <2>4. Cardinality(Garbled \cap Steady) \in Nat
    BY <2>1, SteadyIsFinite, FS_CardinalityType DEF LockInv, TypeOK
  <2> QED
    BY <2>1, <2>3, <2>4 DEF LossInv
<1>2. LossInv => LossIsBounded
  <2> SUFFICES ASSUME LossInv PROVE LossIsBounded
    OBVIOUS
  <2>1. index \in Seq(Entries)
    BY DEF LossInv, LockInv, TypeOK
  <2>2. Len(index) \in Nat /\ DOMAIN index = 1..Len(index)
    BY <2>1, LenProperties
  <2>3. Lost \subseteq acked \ Kept
    BY <2>2 DEF Lost, Kept, ReadLines, Steady
  <2>4. IsFiniteSet(acked \ Kept)
    BY FS_Subset DEF LossInv
  <2>5. IsFiniteSet(Lost) /\ Cardinality(Lost) <= Cardinality(acked \ Kept)
    BY <2>3, <2>4, FS_Subset
  <2>6. IsFiniteSet(Garbled) /\ IsFiniteSet(Garbled \cap Steady)
    BY <2>1, SteadyIsFinite
  <2>7. Cardinality(Garbled \cap Steady) <= Cardinality(Garbled)
    BY <2>6, FS_Subset
  <2>8. /\ Cardinality(Lost) \in Nat /\ Cardinality(acked \ Kept) \in Nat
        /\ Cardinality(Garbled) \in Nat /\ Cardinality(Garbled \cap Steady) \in Nat
    BY <2>4, <2>5, <2>6, FS_CardinalityType
  <2> QED
    BY <2>5, <2>7, <2>8 DEF LossInv, LossIsBounded
<1> QED
  BY <1>1, <1>2, LossStep, PTL DEF Spec

-----------------------------------------------------------------------------
(* One process at a time works on a run.                                   *)

\* A writer that has begun and is not over.
Active(w) == pc[w] \notin Over /\ ~(w \in Reconcilers /\ pc[w] = "idle")

\* Without overlapping, a run has at most one active writer, and once a
\* reconciler has begun the supervisor is over.
AloneInv ==
  /\ LockInv
  /\ \A r \in Runs : target[r] = r
  /\ \A v, w \in Writers : Active(v) /\ Active(w) /\ target[v] = target[w] => v = w
  /\ \A c \in Reconcilers : pc[c] # "idle" => pc[target[c]] \in Over

\* A step moves one writer, which is not over; only Reconcile moves an idle
\* reconciler.
LEMMA OneWriterMoves ==
  ASSUME LockInv, NEW w \in Writers, Step(w) \/ Crash(w)
  PROVE  /\ \A v \in Writers : v # w => pc'[v] = pc[v]
         /\ UNCHANGED target
         /\ pc[w] \notin Over
         /\ w \in Reconcilers /\ pc[w] = "idle" => Reconcile(w)
<1> USE DEF LockInv, TypeOK, Goto, Over
<1>1. CASE OpenTmp(w) \/ FillTmp(w) \/ RenameTmp(w)
  BY <1>1 DEF OpenTmp, FillTmp, RenameTmp, WriteFailed
<1>2. CASE LockIndex(w) \/ SeekIndex(w)
  BY <1>2 DEF LockIndex, SeekIndex
<1>3. CASE AppendLine(w)
  BY <1>3 DEF AppendLine, AfterAppend
<1>4. CASE FinishRun(w) \/ ReadOwnStatus(w)
  BY <1>4, WritersAssumption DEF FinishRun, ReadOwnStatus
<1>5. CASE Reconcile(w)
  <2>1. \E l \in {"read", "open", "failed"} : pc' = [pc EXCEPT ![w] = l]
    BY <1>5 DEF Reconcile, Outcomes
  <2> QED
    BY <1>5, <2>1 DEF Reconcile
<1>6. CASE EnsureIndexState(w) \/ Crash(w)
  BY <1>6 DEF EnsureIndexState, Crash
<1> QED
  BY <1>1, <1>2, <1>3, <1>4, <1>5, <1>6 DEF Step

LEMMA AloneStep ==
  ASSUME ~Overlapping, AloneInv, [Next]_vars PROVE AloneInv'
<1>0. LockInv /\ LockInv'
  BY LockStep DEF AloneInv
<1>1. CASE UNCHANGED vars
  BY <1>0, <1>1 DEF vars, AloneInv, Active
<1>2. ASSUME NEW w \in Writers, Step(w) \/ Crash(w) PROVE AloneInv'
  <2>1. /\ \A v \in Writers : v # w => pc'[v] = pc[v]
        /\ UNCHANGED target
        /\ pc[w] \notin Over
        /\ w \in Reconcilers /\ pc[w] = "idle" => Reconcile(w)
    BY <1>0, <1>2, OneWriterMoves
  <2>2. \A r \in Runs : target'[r] = r
    BY <2>1 DEF AloneInv
  <2>3. w \in Reconcilers /\ pc[w] = "idle" => Quiet(target[w])
    BY <2>1 DEF Reconcile
  <2>4. ASSUME NEW v \in Writers, v # w, Active(v)', target[v] = target[w] PROVE FALSE
    <3>1. Active(v)
      BY <2>1, <2>4 DEF Active
    <3>2. CASE Active(w)
      BY <2>4, <3>1, <3>2 DEF AloneInv
    <3>3. CASE ~Active(w)
      <4>1. Quiet(target[w])
        BY <2>1, <2>3, <3>3 DEF Active
      <4> QED
        BY <2>4, <3>1, <4>1 DEF Quiet, Active
    <3> QED
      BY <3>2, <3>3
  <2>5. ASSUME NEW u \in Writers, NEW v \in Writers, Active(u)', Active(v)', target'[u] = target'[v]
        PROVE  u = v
    <3>1. CASE u = w \/ v = w
      BY <2>1, <2>4, <2>5, <3>1
    <3>2. CASE u # w /\ v # w
      BY <2>1, <2>5, <3>2 DEF AloneInv, Active
    <3> QED
      BY <3>1, <3>2
  <2>6. ASSUME NEW c \in Reconcilers, pc'[c] # "idle" PROVE pc'[target'[c]] \in Over
    <3>1. c \in Writers /\ target[c] \in Runs /\ target[c] \in Writers /\ target[target[c]] = target[c]
          /\ target[c] \notin Reconcilers
      BY <1>0, WritersAssumption DEF AloneInv, LockInv, TypeOK, Writers
    <3>2. pc[target[c]] \in Over
      <4>1. CASE pc[c] # "idle"
        BY <4>1 DEF AloneInv
      <4>2. CASE pc[c] = "idle"
        <5>1. c = w
          BY <2>1, <2>6, <3>1, <4>2
        <5>2. Quiet(target[c])
          BY <2>3, <4>2, <5>1
        <5> QED
          BY <3>1, <5>2 DEF Quiet
      <4> QED
        BY <4>1, <4>2
    <3>3. target[c] # w
      BY <2>1, <3>2
    <3> QED
      BY <2>1, <3>1, <3>2, <3>3
  <2> QED
    BY <1>0, <2>2, <2>5, <2>6 DEF AloneInv
<1> QED
  BY <1>1, <1>2 DEF Next

LEMMA InitAlone == Init => AloneInv
<1> SUFFICES ASSUME Init PROVE AloneInv
  OBVIOUS
<1>1. LockInv
  BY InitLockInv
<1>2. \A w \in Writers : pc[w] = IF w \in Runs THEN "lock" ELSE "idle"
  BY DEF Init
<1>3. \A w \in Writers : Active(w) => w \in Runs
  BY <1>2 DEF Active, Writers
<1>4. \A r \in Runs : target[r] = r
  BY DEF Init
<1>5. \A c \in Reconcilers : pc[c] = "idle"
  BY <1>2, WritersAssumption DEF Writers
<1> QED
  BY <1>1, <1>3, <1>4, <1>5 DEF AloneInv

-----------------------------------------------------------------------------
(* A whole status.json.                                                    *)

\* The temporary file is filled by the one writer that truncated it, and holds
\* all that was written when it is renamed.
WholeInv ==
  /\ AloneInv
  /\ \A w \in Writers : IF pc[w] = "fill" THEN fd[w] = "tmp" /\ tmp[target[w]] = "empty"
                        ELSE fd[w] = "none"
  /\ \A w \in Writers : pc[w] = "rename" => tmp[target[w]] = data[w]
  /\ StatusIsWhole

\* While a writer works on status.json nobody else does on that of its run.
LEMMA NobodyElse ==
  ASSUME AloneInv, NEW w \in Writers, pc[w] \in {"open", "fill", "rename", "read", "lock", "seek", "append"},
         NEW v \in Writers, v # w, target[v] = target[w]
  PROVE  pc[v] \notin {"open", "fill", "rename", "read", "lock", "seek", "append"}
BY DEF AloneInv, Active, Over

\* The three steps of WriteStatus keep it ...
LEMMA StatusStaysWhole ==
  ASSUME WholeInv, AloneInv', NEW w \in Writers, OpenTmp(w) \/ FillTmp(w) \/ RenameTmp(w)
  PROVE  WholeInv'
<1>0. /\ AloneInv /\ target[w] \in Runs /\ data[w] \in States
      /\ fd \in [Writers -> {"none", "tmp", "json", "unlinked"}]
      /\ tmp \in [Runs -> Contents] /\ json \in [Runs -> Contents]
      /\ pc \in [Writers -> Pcs] /\ target \in [Writers -> Runs]
  BY DEF WholeInv, AloneInv, LockInv, TypeOK
<1>a. /\ \A v \in Writers : pc[v] = "fill" => fd[v] = "tmp" /\ tmp[target[v]] = "empty"
      /\ \A v \in Writers : pc[v] # "fill" => fd[v] = "none"
      /\ \A v \in Writers : pc[v] = "rename" => tmp[target[v]] = data[v]
      /\ \A r \in Runs : json[r] \notin {"empty", "torn"}
  BY DEF WholeInv, StatusIsWhole
<1>b. \A v \in Writers : v # w /\ target[v] = target[w] => pc[v] \notin {"fill", "rename"}
  BY <1>0, NobodyElse DEF OpenTmp, FillTmp, RenameTmp
<1>c. UNCHANGED <<target, data>>
  BY DEF OpenTmp, FillTmp, RenameTmp
<1> SUFFICES /\ \A v \in Writers : IF pc'[v] = "fill" THEN fd'[v] = "tmp" /\ tmp'[target[v]] = "empty"
                                   ELSE fd'[v] = "none"
             /\ \A v \in Writers : pc'[v] = "rename" => tmp'[target[v]] = data[v]
             /\ \A r \in Runs : json'[r] \notin {"empty", "torn"}
  BY <1>c DEF WholeInv, StatusIsWhole
<1>1. CASE OpenTmp(w)
  <2>1. /\ tmp' = [tmp EXCEPT ![target[w]] = "empty"] /\ fd' = [fd EXCEPT ![w] = "tmp"]
        /\ pc' = [pc EXCEPT ![w] = "fill"] /\ UNCHANGED json
    BY <1>1 DEF OpenTmp, Goto
  <2> QED
    BY <1>0, <1>a, <1>b, <2>1
<1>2. CASE FillTmp(w)
  <2>1. pc[w] = "fill" /\ fd[w] = "tmp" /\ tmp[target[w]] = "empty"
    BY <1>2, <1>a DEF FillTmp
  <2>2. fd' = [fd EXCEPT ![w] = "none"] /\ UNCHANGED json
    BY <1>2, <2>1 DEF FillTmp
  <2>3. \E bytes : /\ tmp' = [tmp EXCEPT ![target[w]] = bytes]
                   /\ \/ pc' = [pc EXCEPT ![w] = "rename"] /\ bytes = data[w]
                      \/ \E l \in {"read", "failed"} : pc' = [pc EXCEPT ![w] = l]
    <3>1. Overlay(tmp[target[w]], data[w]) = {data[w]}
      BY <2>1 DEF Overlay
    <3> QED
      BY <1>2, <2>1, <3>1 DEF FillTmp, WriteFailed, Goto
  <2> QED
    BY <1>0, <1>a, <1>b, <2>1, <2>2, <2>3
<1>3. CASE RenameTmp(w)
  <2>1. pc[w] = "rename" /\ tmp[target[w]] = data[w]
    BY <1>3, <1>a DEF RenameTmp
  <2>2. data[w] \notin {"absent", "empty", "torn"}
    BY <1>0 DEF States, Outcomes
  <2>3. /\ json' = [json EXCEPT ![target[w]] = tmp[target[w]]]
        /\ tmp' = [tmp EXCEPT ![target[w]] = "absent"] /\ Renamed(target[w])
        /\ \E l \in {"read", "idle"} : pc' = [pc EXCEPT ![w] = l]
    BY <1>3, <2>1, <2>2 DEF RenameTmp, Goto
  <2>4. \A v \in Writers : target[v] = target[w] => fd[v] = "none"
    BY <1>a, <1>b, <2>1
  <2>5. fd' = fd
    BY <1>0, <2>3, <2>4 DEF Renamed
  <2> QED
    BY <1>0, <1>a, <1>b, <2>1, <2>2, <2>3, <2>5
<1> QED
  BY <1>1, <1>2, <1>3

\* ... and nothing else touches the two files.
LEMMA OthersLeaveStatus ==
  ASSUME WholeInv, AloneInv', NEW w \in Writers,
         ~(OpenTmp(w) \/ FillTmp(w) \/ RenameTmp(w)), Step(w) \/ Crash(w)
  PROVE  WholeInv'
<1> USE DEF WholeInv, AloneInv, LockInv, TypeOK, StatusIsWhole, Goto, statusVars
<1>1. CASE LockIndex(w) \/ SeekIndex(w)
  BY <1>1 DEF LockIndex, SeekIndex
<1>2. CASE AppendLine(w)
  <2>1. UNCHANGED <<target, data, fd, json, tmp>> /\ pc[w] = "append"
    BY <1>2 DEF AppendLine
  <2>2. \E l \in {"done", "open", "failed"} : pc' = [pc EXCEPT ![w] = l]
    BY <1>2 DEF AppendLine, AfterAppend
  <2> QED
    BY <2>1, <2>2
<1>3. CASE FinishRun(w)
  BY <1>3 DEF FinishRun
<1>4. CASE ReadOwnStatus(w)
  <2>1. \E l \in {"lock", "done"} : pc' = [pc EXCEPT ![w] = l]
    BY <1>4 DEF ReadOwnStatus
  <2>2. \A v \in Writers : v # w => data'[v] = data[v]
    BY <1>4 DEF ReadOwnStatus
  <2>3. UNCHANGED <<target, fd, json, tmp>> /\ pc[w] = "read"
    BY <1>4 DEF ReadOwnStatus
  <2> QED
    BY <2>1, <2>2, <2>3
<1>5. CASE Reconcile(w)
  <2>1. \E l \in {"read", "open", "failed"} : pc' = [pc EXCEPT ![w] = l]
    BY <1>5 DEF Reconcile, Outcomes
  <2>2. \A v \in Writers : v # w => data'[v] = data[v]
    BY <1>5 DEF Reconcile
  <2>3. UNCHANGED <<target, fd, json, tmp>> /\ pc[w] = "idle"
    BY <1>5 DEF Reconcile
  <2> QED
    BY <2>1, <2>2, <2>3
<1>6. CASE EnsureIndexState(w)
  BY <1>6 DEF EnsureIndexState
<1>7. CASE Crash(w)
  BY <1>7 DEF Crash
<1> QED
  BY <1>1, <1>2, <1>3, <1>4, <1>5, <1>6, <1>7 DEF Step

LEMMA WholeStep ==
  ASSUME ~Overlapping, WholeInv, [Next]_vars PROVE WholeInv'
<1>1. AloneInv'
  BY AloneStep DEF WholeInv
<1>2. CASE UNCHANGED vars
  BY <1>1, <1>2 DEF vars, WholeInv, StatusIsWhole
<1>3. CASE Next
  BY <1>1, <1>3, StatusStaysWhole, OthersLeaveStatus DEF Next, Step
<1> QED
  BY <1>2, <1>3

LEMMA InitWhole == Init => WholeInv
<1> SUFFICES ASSUME Init PROVE WholeInv
  OBVIOUS
<1>1. \A w \in Writers : pc[w] \notin {"fill", "rename"} /\ fd[w] = "none"
  BY DEF Init
<1>2. StatusIsWhole
  BY DEF Init, StatusIsWhole
<1> QED
  BY <1>1, <1>2, InitAlone DEF WholeInv

\* Where one process at a time works on a run, a reader of its status.json
\* finds no file or a whole one, whoever is killed between the truncation and
\* the rename and however little of it the disk takes (status.go:87-95).
THEOREM StatusStaysReadable ==
  ASSUME ~Overlapping PROVE Spec => []StatusIsWhole
<1>1. WholeInv => StatusIsWhole
  BY DEF WholeInv
<1>2. WholeInv /\ [Next]_vars => WholeInv'
  BY WholeStep
<1> QED
  BY <1>1, <1>2, InitWhole, PTL DEF Spec

-----------------------------------------------------------------------------
(* What a reconciler has in hand.                                          *)

Writing == {"open", "fill", "rename"}
Listing == {"read", "lock", "seek", "append"}

\* A reconciler has in hand the outcome that status.json is about to have, or
\* has; and once one is done with a run, nobody writes its status.json again.
HandInv ==
  /\ WholeInv
  /\ \A c \in Reconcilers :
       /\ pc[c] \in Writing => data[c] \in Outcomes
       /\ pc[c] \in Listing => data[c] \in Outcomes /\ data[c] = json[target[c]]
       /\ pc[c] = "done" =>
            /\ json[target[c]] \in Outcomes
            /\ \A d \in Reconcilers : target[d] = target[c] => pc[d] \notin Writing

\* Only a rename changes status.json, to what its writer has in hand.
LEMMA StatusChanges ==
  ASSUME WholeInv, NEW w \in Writers, Step(w) \/ Crash(w)
  PROVE  \/ UNCHANGED json
         \/ pc[w] = "rename" /\ json' = [json EXCEPT ![target[w]] = data[w]]
<1>1. CASE FillTmp(w)
  <2>1. fd[w] = "tmp"
    BY <1>1 DEF FillTmp, WholeInv
  <2> QED
    BY <1>1, <2>1 DEF FillTmp
<1>2. CASE RenameTmp(w)
  <2>1. pc[w] = "rename" /\ tmp[target[w]] = data[w]
    BY <1>2 DEF RenameTmp, WholeInv
  <2> QED
    BY <1>2, <2>1 DEF RenameTmp, statusVars
<1>3. CASE ~(FillTmp(w) \/ RenameTmp(w))
  BY <1>3 DEF Step, OpenTmp, LockIndex, SeekIndex, AppendLine, FinishRun, ReadOwnStatus, Reconcile,
              EnsureIndexState, Crash, statusVars
<1> QED
  BY <1>1, <1>2, <1>3

\* Once a reconciler has begun, only reconcilers work on the run.
LEMMA OnlyReconcilers ==
  ASSUME AloneInv, NEW w \in Writers, NEW c \in Reconcilers,
         pc[w] \notin Over, pc[c] # "idle", target[w] = target[c]
  PROVE  w \in Reconcilers
BY DEF AloneInv, Writers

\* Nobody moves what another reconciler has in hand.
LEMMA HandOfOthers ==
  ASSUME HandInv, NEW w \in Writers, Step(w) \/ Crash(w), NEW c \in Reconcilers, c # w
  PROVE  /\ pc'[c] = pc[c] /\ data'[c] = data[c] /\ target' = target
         /\ pc[c] \in Listing \cup {"done"} => json'[target[c]] = json[target[c]]
<1>0. WholeInv /\ AloneInv /\ LockInv /\ c \in Writers
  BY DEF HandInv, WholeInv, AloneInv, Writers
<1>1. pc'[c] = pc[c] /\ target' = target /\ pc[w] \notin Over
  BY <1>0, OneWriterMoves
<1>2. data'[c] = data[c]
  <2>1. UNCHANGED data \/ \E x : data' = [data EXCEPT ![w] = x]
    BY DEF Step, OpenTmp, FillTmp, RenameTmp, LockIndex, SeekIndex, AppendLine, FinishRun,
           ReadOwnStatus, Reconcile, EnsureIndexState, Crash
  <2> QED
    BY <1>0, <2>1 DEF LockInv, TypeOK
<1>3. ASSUME pc[c] \in Listing \cup {"done"} PROVE json'[target[c]] = json[target[c]]
  <2>1. CASE UNCHANGED json
    BY <2>1
  <2>2. CASE pc[w] = "rename" /\ json' = [json EXCEPT ![target[w]] = data[w]]
    <3>1. target[w] # target[c]
      <4>1. CASE pc[c] \in Listing
        BY <1>0, <2>2, <4>1, NobodyElse DEF Listing
      <4>2. CASE pc[c] = "done" /\ target[w] = target[c]
        <5>1. w \in Reconcilers
          BY <1>0, <1>1, <4>2, OnlyReconcilers
        <5> QED
          BY <2>2, <4>2, <5>1 DEF HandInv, Writing
      <4> QED
        BY <1>3, <4>1, <4>2
    <3> QED
      BY <1>0, <2>2, <3>1 DEF LockInv, TypeOK
  <2> QED
    BY <1>0, <2>1, <2>2, StatusChanges
<1> QED
  BY <1>1, <1>2, <1>3

\* What a reconciler's own step leaves in its hand.
LEMMA HandOfOne ==
  ASSUME HandInv, NEW w \in Reconcilers, Step(w) \/ Crash(w)
  PROVE  /\ pc'[w] \in Writing =>
              /\ data'[w] \in Outcomes
              /\ pc[w] \in Writing \/ json[target[w]] = "running"
         /\ pc'[w] \in Listing => data'[w] \in Outcomes /\ data'[w] = json'[target[w]]
         /\ pc'[w] = "done" => data[w] = json[target[w]] /\ json' = json /\ pc[w] \in Listing
<1>0. /\ w \in Writers /\ w \notin Runs /\ target[w] \in Runs
      /\ pc \in [Writers -> Pcs] /\ data \in [Writers -> States] /\ json \in [Runs -> Contents]
  BY WritersAssumption DEF HandInv, WholeInv, AloneInv, LockInv, TypeOK, Writers
<1>a. /\ pc[w] \in Writing => data[w] \in Outcomes
      /\ pc[w] \in Listing => data[w] \in Outcomes /\ data[w] = json[target[w]]
  BY DEF HandInv
<1>b. pc[w] = "fill" => fd[w] = "tmp"
  BY <1>0 DEF HandInv, WholeInv
<1>c. pc[w] = "rename" => tmp[target[w]] = data[w]
  BY <1>0 DEF HandInv, WholeInv
<1> USE DEF Goto, Writing, Listing
<1>1. CASE OpenTmp(w)
  BY <1>0, <1>1, <1>a DEF OpenTmp
<1>2. CASE FillTmp(w)
  <2>1. \E l \in {"rename", "failed"} : pc' = [pc EXCEPT ![w] = l]
    BY <1>0, <1>2 DEF FillTmp, WriteFailed
  <2>2. pc[w] = "fill" /\ UNCHANGED data
    BY <1>2 DEF FillTmp
  <2> QED
    BY <1>0, <1>a, <2>1, <2>2
<1>3. CASE RenameTmp(w)
  <2>1. pc[w] = "rename" /\ tmp[target[w]] = data[w] /\ data[w] \in Outcomes /\ UNCHANGED data
    BY <1>3, <1>a, <1>c DEF RenameTmp
  <2>2. data[w] # "absent"
    BY <2>1 DEF Outcomes
  <2>3. pc' = [pc EXCEPT ![w] = "read"] /\ json' = [json EXCEPT ![target[w]] = data[w]]
    BY <1>3, <2>1, <2>2 DEF RenameTmp
  <2> QED
    BY <1>0, <2>1, <2>3
<1>4. CASE LockIndex(w) \/ SeekIndex(w)
  BY <1>0, <1>4, <1>a DEF LockIndex, SeekIndex, statusVars
<1>5. CASE AppendLine(w)
  <2>1. \E l \in {"done", "failed"} : pc' = [pc EXCEPT ![w] = l]
    BY <1>0, <1>5 DEF AppendLine, AfterAppend
  <2>2. pc[w] = "append" /\ UNCHANGED <<data, json>>
    BY <1>5 DEF AppendLine, statusVars
  <2> QED
    BY <1>0, <1>a, <2>1, <2>2
<1>6. CASE Reconcile(w)
  <2>1. CASE json[target[w]] \in Outcomes
    <3>1. pc' = [pc EXCEPT ![w] = "read"] /\ data' = [data EXCEPT ![w] = json[target[w]]]
          /\ json' = json
      BY <1>6, <2>1 DEF Reconcile, statusVars, Outcomes
    <3> QED
      BY <1>0, <2>1, <3>1
  <2>2. CASE json[target[w]] = "running"
    <3>1. pc' = [pc EXCEPT ![w] = "open"] /\ \E o \in Outcomes : data' = [data EXCEPT ![w] = o]
      BY <1>6, <2>2 DEF Reconcile, Outcomes
    <3> QED
      BY <1>0, <2>2, <3>1
  <2>3. CASE json[target[w]] \notin Outcomes \cup {"running"}
    <3>1. pc' = [pc EXCEPT ![w] = "failed"]
      BY <1>6, <2>3 DEF Reconcile
    <3> QED
      BY <1>0, <3>1
  <2> QED
    BY <2>1, <2>2, <2>3
<1>7. CASE EnsureIndexState(w)
  <2>1. \E l \in {"done", "lock"} : pc' = [pc EXCEPT ![w] = l]
    BY <1>7 DEF EnsureIndexState
  <2>2. pc[w] = "read" /\ UNCHANGED <<data, json>>
    BY <1>7 DEF EnsureIndexState, statusVars
  <2> QED
    BY <1>0, <1>a, <2>1, <2>2
<1>8. CASE Crash(w)
  BY <1>0, <1>8 DEF Crash
<1>9. ~FinishRun(w) /\ ~ReadOwnStatus(w)
  BY <1>0 DEF FinishRun, ReadOwnStatus
<1> QED
  BY <1>1, <1>2, <1>3, <1>4, <1>5, <1>6, <1>7, <1>8, <1>9 DEF Step

LEMMA HandStep ==
  ASSUME ~Overlapping, HandInv, [Next]_vars PROVE HandInv'
<1>0. WholeInv'
  BY WholeStep DEF HandInv
<1>1. CASE UNCHANGED vars
  BY <1>0, <1>1 DEF vars, HandInv
<1>2. ASSUME NEW w \in Writers, Step(w) \/ Crash(w) PROVE HandInv'
  <2>0. AloneInv /\ LockInv /\ UNCHANGED target /\ pc[w] \notin Over
    BY <1>2, OneWriterMoves DEF HandInv, WholeInv, AloneInv
  <2>1. ASSUME NEW c \in Reconcilers
        PROVE  /\ pc'[c] \in Writing => data'[c] \in Outcomes
               /\ pc'[c] \in Listing => data'[c] \in Outcomes /\ data'[c] = json'[target[c]]
    <3>1. CASE c = w
      BY <1>2, <3>1, HandOfOne
    <3>2. CASE c # w
      BY <1>2, <3>2, HandOfOthers DEF HandInv
    <3> QED
      BY <3>1, <3>2
  <2>2. ASSUME NEW c \in Reconcilers, pc'[c] = "done" PROVE json'[target[c]] \in Outcomes
    <3>1. CASE c = w
      <4>1. json'[target[c]] = data[c] /\ pc[c] \in Listing
        BY <1>2, <2>2, <3>1, HandOfOne
      <4> QED
        BY <4>1 DEF HandInv
    <3>2. CASE c # w
      BY <1>2, <2>2, <3>2, HandOfOthers DEF HandInv
    <3> QED
      BY <3>1, <3>2
  <2>3. ASSUME NEW c \in Reconcilers, pc'[c] = "done",
               NEW d \in Reconcilers, target[d] = target[c], pc'[d] \in Writing
        PROVE  FALSE
    <3>0. c # d /\ c \in Writers /\ d \in Writers
      BY <2>3 DEF Writing, Writers
    <3>1. CASE c = w
      <4>1. pc[c] \in Listing /\ pc[d] \in Writing
        BY <1>2, <2>3, <3>0, <3>1, HandOfOne, HandOfOthers
      <4> QED
        BY <2>0, <2>3, <3>0, <4>1, NobodyElse DEF Listing, Writing
    <3>2. CASE c # w
      <4>1. pc[c] = "done"
        BY <1>2, <2>3, <3>2, HandOfOthers
      <4>2. pc[d] \notin Writing /\ json[target[d]] # "running"
        BY <2>3, <4>1 DEF HandInv, Outcomes
      <4>3. CASE d = w
        BY <1>2, <2>3, <4>2, <4>3, HandOfOne
      <4>4. CASE d # w
        BY <1>2, <2>3, <4>2, <4>4, HandOfOthers
      <4> QED
        BY <4>3, <4>4
    <3> QED
      BY <3>1, <3>2
  <2> QED
    BY <1>0, <2>0, <2>1, <2>2, <2>3 DEF HandInv
<1> QED
  BY <1>1, <1>2 DEF Next

-----------------------------------------------------------------------------
(* What a reconciliation leaves.                                           *)

\* Line i is the latest of run r.
Latest(r, i) == i \in LinesOf(r) /\ \A j \in LinesOf(r) : j <= i

\* Once a reconciler is done with a run, the run's latest line has the outcome
\* that status.json has, and whoever comes later finds nothing to add.
LatestInv ==
  /\ HandInv
  /\ Garbled = {} =>
       /\ \A r \in Runs : LinesOf(r) # {} => \E i \in LinesOf(r) : Latest(r, i)
       /\ \A c \in Reconcilers : pc[c] = "done" =>
            /\ \E i \in LinesOf(target[c]) :
                 Latest(target[c], i) /\ index[i].state = json[target[c]]
            /\ \A d \in Reconcilers :
                 target[d] = target[c] => pc[d] \notin {"lock", "seek", "append"}

\* Resolving an id finds the latest line of the run.
LEMMA LatestIsResolved ==
  ASSUME LockInv, NEW r \in Runs, NEW i, Latest(r, i)
  PROVE  ResolveByID(r) = index[i]
<1>1. index \in Seq(Entries)
  BY DEF LockInv, TypeOK
<1>2. LinesOf(r) \subseteq Nat
  BY <1>1, LenProperties DEF LinesOf, ReadLines
<1>3. Max(LinesOf(r)) = i
  BY <1>2 DEF Latest, Max
<1> QED
  BY <1>3 DEF ResolveByID

\* Where no line is garbled, an append that changes the index adds the line of
\* its run's latest entry, and leaves the other runs' lines alone.
LEMMA LatestOfAppend ==
  ASSUME LockInv, NEW w \in Writers, AppendLine(w), Garbled' = {}, ~UNCHANGED <<index, cut, acked>>,
         NEW n, n = Len(index)
  PROVE  /\ Garbled = {}
         /\ Latest(target[w], n + 1)' /\ index'[n + 1].state = data[w]
         /\ \A r \in Runs : r # target[w] =>
              /\ LinesOf(r)' = LinesOf(r)
              /\ \A i \in LinesOf(r) : index'[i] = index[i] /\ (Latest(r, i) => Latest(r, i)')
<1>0. index \in Seq(Entries) /\ target[w] \in Runs /\ UNCHANGED target
  BY DEF LockInv, TypeOK, AppendLine
<1>1. PICK e, line \in Entries :
        /\ e = [by |-> w, run |-> target[w], state |-> data[w]]
        /\ line = e \/ line = [e EXCEPT !.state = "garbled"]
        /\ index' = IF cut THEN [index EXCEPT ![n].state = "garbled"] ELSE Append(index, line)
  BY AppendLineEffect
<1>2. ~cut
  <2> SUFFICES ASSUME cut PROVE FALSE
    OBVIOUS
  <2>1. index # <<>> /\ index' = [index EXCEPT ![n].state = "garbled"]
    BY <1>1 DEF LockInv
  <2>2. n \in Nat /\ DOMAIN index' = 1..n /\ index'[n].state = "garbled"
    BY <1>0, <2>1, SpoiltLine
  <2>3. n # 0
    BY <1>0, <2>1, EmptySeq
  <2>4. n \in Garbled'
    BY <2>2, <2>3 DEF Garbled
  <2> QED
    BY <2>4
<1>3. /\ n \in Nat /\ DOMAIN index = 1..n /\ DOMAIN index' = 1..(n + 1)
      /\ \A i \in 1..n : index'[i] = index[i]
      /\ index'[n + 1] = line
  BY <1>0, <1>1, <1>2, AddedLine
<1>4. line = e
  <2>1. n + 1 \notin Garbled'
    OBVIOUS
  <2>2. line.state # "garbled"
    BY <1>3, <2>1 DEF Garbled
  <2> QED
    BY <1>1, <2>2 DEF Entries
<1>5. line.run = target[w] /\ line.state = data[w] /\ line.state # "garbled"
  <2>1. line.state # "garbled"
    BY <1>3 DEF Garbled
  <2> QED
    BY <1>1, <1>4, <2>1
<1>6. Garbled = {}
  BY <1>3 DEF Garbled
<1>7. ReadLines = 1..n /\ ReadLines' = 1..(n + 1)
  BY <1>3, <1>6 DEF ReadLines, Garbled
<1>8. \A r \in Runs : LinesOf(r)' = IF r = target[w] THEN LinesOf(r) \cup {n + 1} ELSE LinesOf(r)
  <2>1. ASSUME NEW r \in Runs
        PROVE  LinesOf(r)' = IF r = target[w] THEN LinesOf(r) \cup {n + 1} ELSE LinesOf(r)
    <3>1. LinesOf(r)' = {i \in 1..(n + 1) : index'[i].run = r}
      BY <1>7 DEF LinesOf
    <3>2. LinesOf(r) = {i \in 1..n : index[i].run = r}
      BY <1>7 DEF LinesOf
    <3>3. 1..(n + 1) = 1..n \cup {n + 1}
      BY <1>3
    <3> QED
      BY <1>3, <1>5, <3>1, <3>2, <3>3
  <2> QED
    BY <2>1
<1>9. \A r \in Runs : LinesOf(r) \subseteq 1..n
  BY <1>7 DEF LinesOf
<1>10. Latest(target[w], n + 1)'
  <2>1. \A j \in LinesOf(target[w])' : j <= n + 1
    BY <1>0, <1>3, <1>8, <1>9
  <2>2. n + 1 \in LinesOf(target[w])'
    BY <1>0, <1>8
  <2> QED
    BY <1>0, <2>1, <2>2 DEF Latest
<1>11. ASSUME NEW r \in Runs, NEW i \in LinesOf(r), r # target[w]
       PROVE  index'[i] = index[i] /\ (Latest(r, i) => Latest(r, i)')
  BY <1>3, <1>8, <1>9, <1>11 DEF Latest
<1>12. index'[n + 1].state = data[w]
  BY <1>3, <1>5
<1> QED
  BY <1>6, <1>8, <1>10, <1>11, <1>12

\* A reconciler whose append succeeds has added a line.
LEMMA DoneHasAppended ==
  ASSUME LockInv, NEW w \in Reconcilers, AppendLine(w), pc'[w] = "done", Garbled' = {}
  PROVE  ~UNCHANGED <<index, cut, acked>>
<1> SUFFICES ASSUME UNCHANGED <<index, cut, acked>> PROVE FALSE
  OBVIOUS
<1> DEFINE e == [by |-> w, run |-> target[w], state |-> data[w]]
<1>0. /\ w \in Writers /\ w \notin Runs /\ index \in Seq(Entries) /\ e \in Entries
      /\ pc \in [Writers -> Pcs] /\ pc[w] = "append" /\ offset[w] = Len(index)
  BY WritersAssumption DEF LockInv, TypeOK, AppendLine, Writers, Entries
<1>1. AfterAppend(w, TRUE) => pc'[w] = "failed"
  BY <1>0 DEF AfterAppend, Goto
<1>2. index' = Written(offset[w], e)
  BY <1>1 DEF AppendLine
<1> HIDE DEF e
<1>3. index' = IF cut THEN [index EXCEPT ![Len(index)].state = "garbled"] ELSE Append(index, e)
  BY <1>0, <1>2, WrittenAtEnd
<1>4. CASE ~cut
  <2>1. index' = Append(index, e)
    BY <1>3, <1>4
  <2>2. Len(index') = Len(index) + 1 /\ Len(index) \in Nat
    BY <1>0, <2>1, AddedLine
  <2> QED
    BY <2>2
<1>5. CASE cut
  <2>1. index # <<>> /\ index' = [index EXCEPT ![Len(index)].state = "garbled"]
    BY <1>3, <1>5 DEF LockInv
  <2>2. /\ Len(index) \in Nat /\ DOMAIN index' = 1..Len(index)
        /\ index'[Len(index)].state = "garbled"
    BY <1>0, <2>1, SpoiltLine
  <2>3. Len(index) # 0
    BY <1>0, <2>1, EmptySeq
  <2>4. Len(index) \in Garbled'
    BY <2>2, <2>3 DEF Garbled
  <2> QED
    BY <2>4
<1> QED
  BY <1>4, <1>5

\* A reconciler that finds the latest line up to date adds none.
LEMMA UpToDateAddsNothing ==
  ASSUME LockInv, NEW w \in Reconcilers, EnsureIndexState(w),
         NEW i, Latest(target[w], i)
  PROVE  IF index[i].state = data[w] THEN pc'[w] = "done" ELSE pc'[w] = "lock"
<1>1. w \in Writers /\ target[w] \in Runs /\ pc \in [Writers -> Pcs]
  BY DEF LockInv, TypeOK, Writers
<1>2. UpToDate(w) <=> index[i].state = data[w]
  BY <1>1, LatestIsResolved DEF UpToDate, Listed, Latest
<1> QED
  BY <1>1, <1>2 DEF EnsureIndexState, Goto

\* How a reconciler comes to append, or to be done.
LEMMA WayToTheIndex ==
  ASSUME LockInv, NEW w \in Reconcilers, Step(w) \/ Crash(w)
  PROVE  /\ pc'[w] \in {"lock", "seek", "append"} =>
              pc[w] \in {"lock", "seek"} \/ EnsureIndexState(w)
         /\ pc'[w] = "done" => EnsureIndexState(w) \/ AppendLine(w)
<1>0. w \in Writers /\ w \notin Runs /\ pc \in [Writers -> Pcs]
  BY WritersAssumption DEF LockInv, TypeOK, Writers
<1>1. CASE OpenTmp(w) \/ LockIndex(w) \/ SeekIndex(w) \/ Crash(w)
  BY <1>0, <1>1 DEF OpenTmp, LockIndex, SeekIndex, Crash, Goto
<1>2. CASE FillTmp(w) \/ RenameTmp(w)
  BY <1>0, <1>2 DEF FillTmp, RenameTmp, WriteFailed, Goto
<1>3. CASE Reconcile(w)
  <2>1. \E l \in {"read", "open", "failed"} : pc' = [pc EXCEPT ![w] = l]
    BY <1>3 DEF Reconcile, Outcomes, Goto
  <2> QED
    BY <1>0, <2>1
<1>4. CASE AppendLine(w)
  BY <1>0, <1>4 DEF AppendLine, AfterAppend, Goto
<1>5. ~FinishRun(w) /\ ~ReadOwnStatus(w)
  BY <1>0 DEF FinishRun, ReadOwnStatus
<1> QED
  BY <1>1, <1>2, <1>3, <1>4, <1>5 DEF Step

\* Once one is done, nobody who comes later gets to the index.
LEMMA NobodyAppendsAgain ==
  ASSUME LatestInv, Garbled = {}, NEW w \in Writers, Step(w) \/ Crash(w),
         NEW c \in Reconcilers, pc'[c] = "done",
         NEW d \in Reconcilers, target[d] = target[c], pc'[d] \in {"lock", "seek", "append"}
  PROVE  FALSE
<1>0. LockInv /\ AloneInv /\ HandInv /\ c \in Writers /\ d \in Writers /\ c # d
  BY DEF LatestInv, HandInv, WholeInv, AloneInv, Writers
<1>1. CASE c = w
  <2>1. pc[c] \in Listing /\ pc[d] \in Listing
    BY <1>0, <1>1, HandOfOne, OneWriterMoves DEF Listing
  <2> QED
    BY <1>0, <2>1, NobodyElse DEF Listing
<1>2. CASE c # w
  <2>1. pc[c] = "done"
    BY <1>0, <1>2, OneWriterMoves
  <2>2. pc[d] \notin {"lock", "seek", "append"}
    BY <2>1 DEF LatestInv
  <2>3. d = w
    BY <1>0, <2>2, OneWriterMoves
  <2>4. EnsureIndexState(d) /\ pc[d] = "read"
    BY <1>0, <2>2, <2>3, WayToTheIndex DEF EnsureIndexState
  <2>5. PICK i \in LinesOf(target[c]) :
          Latest(target[c], i) /\ index[i].state = json[target[c]]
    BY <2>1 DEF LatestInv
  <2>6. data[d] = json[target[c]]
    BY <1>0, <2>4 DEF HandInv, Listing
  <2> QED
    BY <1>0, <2>4, <2>5, <2>6, UpToDateAddsNothing
<1> QED
  BY <1>1, <1>2

\* A step that leaves the index alone.
LEMMA LatestOfOthers ==
  ASSUME LatestInv, HandInv', NEW w \in Writers, Step(w) \/ Crash(w),
         UNCHANGED <<index, cut, acked>>
  PROVE  LatestInv'
<1> SUFFICES ASSUME Garbled = {}
             PROVE  LatestInv'
  BY DEF LatestInv, Garbled
<1>0. LockInv /\ HandInv /\ Garbled' = {} /\ UNCHANGED target
  BY OneWriterMoves DEF LatestInv, HandInv, WholeInv, AloneInv, Garbled
<1>1. \A r : LinesOf(r)' = LinesOf(r)
  BY DEF LinesOf, ReadLines
<1>2. \A r, i : Latest(r, i) => Latest(r, i)'
  BY <1>1 DEF Latest
<1>3. \A r \in Runs : LinesOf(r)' # {} => \E i \in LinesOf(r)' : Latest(r, i)'
  BY <1>1, <1>2 DEF LatestInv
<1>4. ASSUME NEW c \in Reconcilers, pc'[c] = "done"
      PROVE  \E i \in LinesOf(target[c])' : Latest(target[c], i)' /\ index[i].state = json'[target[c]]
  <2>0. target[c] \in Runs /\ c \in Writers
    BY <1>0 DEF LockInv, TypeOK, Writers
  <2>1. \E i \in LinesOf(target[c]) : Latest(target[c], i) /\ index[i].state = json'[target[c]]
    <3>1. CASE c = w
      <4>1. data[c] = json'[target[c]]
        BY <1>0, <1>4, <3>1, HandOfOne
      <4>2. EnsureIndexState(c)
        BY <1>0, <1>4, <3>1, WayToTheIndex, DoneHasAppended
      <4>3. LinesOf(target[c]) # {}
        BY <1>0, <1>4, <2>0, <4>2 DEF EnsureIndexState, UpToDate, Listed, Goto, LockInv, TypeOK
      <4>4. PICK i \in LinesOf(target[c]) : Latest(target[c], i)
        BY <2>0, <4>3 DEF LatestInv
      <4> QED
        BY <1>0, <1>4, <4>1, <4>2, <4>4, UpToDateAddsNothing
    <3>2. CASE c # w
      BY <1>0, <1>4, <3>2, HandOfOthers DEF LatestInv
    <3> QED
      BY <3>1, <3>2
  <2> QED
    BY <1>0, <1>1, <1>2, <2>1
<1>5. ASSUME NEW c \in Reconcilers, pc'[c] = "done",
             NEW d \in Reconcilers, target[d] = target[c]
      PROVE  pc'[d] \notin {"lock", "seek", "append"}
  BY <1>5, NobodyAppendsAgain
<1> QED
  BY <1>0, <1>3, <1>4, <1>5 DEF LatestInv

\* A step that appends to the index.
LEMMA LatestOfAppends ==
  ASSUME LatestInv, HandInv', NEW w \in Writers, AppendLine(w), ~UNCHANGED <<index, cut, acked>>
  PROVE  LatestInv'
<1> SUFFICES ASSUME Garbled' = {}
             PROVE  LatestInv'
  BY DEF LatestInv
<1>0. LockInv /\ AloneInv /\ HandInv /\ pc[w] = "append" /\ UNCHANGED <<target, data, json>>
  BY DEF LatestInv, HandInv, WholeInv, AloneInv, AppendLine, statusVars
<1>1. PICK n : n = Len(index)
  OBVIOUS
<1>2. /\ Garbled = {}
      /\ Latest(target[w], n + 1)' /\ index'[n + 1].state = data[w]
      /\ \A r \in Runs : r # target[w] =>
           /\ LinesOf(r)' = LinesOf(r)
           /\ \A i \in LinesOf(r) : index'[i] = index[i] /\ (Latest(r, i) => Latest(r, i)')
  BY <1>0, <1>1, LatestOfAppend
<1>3. ASSUME NEW r \in Runs, LinesOf(r)' # {} PROVE \E i \in LinesOf(r)' : Latest(r, i)'
  <2>1. CASE r = target[w]
    BY <1>0, <1>2, <2>1 DEF Latest
  <2>2. CASE r # target[w]
    BY <1>2, <1>3, <2>2 DEF LatestInv
  <2> QED
    BY <2>1, <2>2
<1>4. ASSUME NEW c \in Reconcilers, pc'[c] = "done"
      PROVE  \E i \in LinesOf(target[c])' : Latest(target[c], i)' /\ index'[i].state = json[target[c]]
  <2>0. target[c] \in Runs /\ c \in Writers
    BY <1>0 DEF LockInv, TypeOK, Writers
  <2>1. CASE c = w
    <3>1. data[c] = json[target[c]]
      BY <1>0, <2>1 DEF HandInv, Listing
    <3> QED
      BY <1>0, <1>2, <2>1, <3>1 DEF Latest
  <2>2. CASE c # w
    <3>1. pc[c] = "done"
      <4>1. Step(w)
        BY DEF Step
      <4> QED
        BY <1>0, <1>4, <2>0, <2>2, <4>1, OneWriterMoves
    <3>2. target[c] # target[w]
      <4> SUFFICES ASSUME target[c] = target[w] PROVE FALSE
        OBVIOUS
      <4>1. w \in Reconcilers
        BY <1>0, <3>1, OnlyReconcilers DEF Over
      <4> QED
        BY <1>0, <1>2, <3>1, <4>1 DEF LatestInv
    <3>3. PICK i \in LinesOf(target[c]) :
            Latest(target[c], i) /\ index[i].state = json[target[c]]
      BY <1>2, <3>1 DEF LatestInv
    <3> QED
      <4>1. i \in LinesOf(target[c])' /\ index'[i] = index[i] /\ Latest(target[c], i)'
        BY <1>0, <1>2, <2>0, <3>2, <3>3
      <4> QED
        BY <3>3, <4>1
  <2> QED
    BY <2>1, <2>2
<1>5. ASSUME NEW c \in Reconcilers, pc'[c] = "done",
             NEW d \in Reconcilers, target[d] = target[c]
      PROVE  pc'[d] \notin {"lock", "seek", "append"}
  BY <1>2, <1>5, NobodyAppendsAgain DEF Step
<1> QED
  BY <1>0, <1>3, <1>4, <1>5 DEF LatestInv

LEMMA LatestStep ==
  ASSUME ~Overlapping, LatestInv, [Next]_vars PROVE LatestInv'
<1>0. HandInv'
  BY HandStep DEF LatestInv
<1>1. CASE UNCHANGED vars
  <2>1. UNCHANGED <<pc, target, json, index>>
    BY <1>1 DEF vars
  <2> QED
    BY <1>0, <2>1 DEF LatestInv, Garbled, Latest, LinesOf, ReadLines
<1>2. ASSUME NEW w \in Writers, Step(w) \/ Crash(w) PROVE LatestInv'
  <2>1. CASE UNCHANGED <<index, cut, acked>>
    BY <1>0, <1>2, <2>1, LatestOfOthers
  <2>2. CASE ~UNCHANGED <<index, cut, acked>>
    <3>1. AppendLine(w)
      BY <1>2, <2>2 DEF Step, OpenTmp, FillTmp, RenameTmp, LockIndex, SeekIndex, FinishRun,
                        ReadOwnStatus, Reconcile, EnsureIndexState, Crash, indexVars
    <3> QED
      BY <1>0, <2>2, <3>1, LatestOfAppends
  <2> QED
    BY <2>1, <2>2
<1> QED
  BY <1>1, <1>2 DEF Next

LEMMA InitLatest == Init => LatestInv
<1> SUFFICES ASSUME Init PROVE LatestInv
  OBVIOUS
<1>1. \A c \in Reconcilers : pc[c] = "idle"
  BY WritersAssumption DEF Init, Writers
<1>2. HandInv
  BY <1>1, InitWhole DEF HandInv, Writing, Listing
<1>3. \A r : LinesOf(r) = {}
  <2>1. index = <<>> /\ index \in Seq(Entries) /\ Len(index) = 0
    BY EmptySeq DEF Init
  <2>2. DOMAIN index = {}
    BY <2>1, LenProperties
  <2> QED
    BY <2>2 DEF LinesOf, ReadLines
<1> QED
  BY <1>1, <1>2, <1>3 DEF LatestInv

\* Where one process at a time works on a run and no line is garbled, the index
\* and status.json name the same state after ReconcileRun, whoever died before
\* it and wherever, and whatever the other runs' writers append meanwhile
\* (reconcile.go:66, 125).
THEOREM ReconcilerAgrees ==
  ASSUME ~Overlapping PROVE Spec => []ReconciledAgrees
<1>1. LatestInv => ReconciledAgrees
  <2> SUFFICES ASSUME LatestInv, Garbled = {}, NEW c \in Reconcilers, pc[c] = "done"
               PROVE  ResolveByID(target[c]).state = json[target[c]]
    BY DEF ReconciledAgrees
  <2>1. LockInv /\ target[c] \in Runs
    BY DEF LatestInv, HandInv, WholeInv, AloneInv, LockInv, TypeOK, Writers
  <2> QED
    BY <2>1, LatestIsResolved DEF LatestInv
<1>2. LatestInv /\ [Next]_vars => LatestInv'
  BY LatestStep
<1> QED
  BY <1>1, <1>2, InitLatest, PTL DEF Spec

-----------------------------------------------------------------------------
(* One beginning and one end.                                              *)

\* What the writers of a status.json have in hand goes with what is in it: a
\* supervisor in its first round finds no file and writes running, in its
\* second round it finds what it wrote; a reconciler replaces running only.
RecordInv ==
  /\ HandInv
  /\ \A r \in Runs :
       /\ pc[r] = "idle" => json[r] = "running"
       /\ pc[r] \in {"lock", "seek", "append"} /\ ~final[r] =>
            data[r] = "running" /\ json[r] = "absent"
       /\ pc[r] \in Writing =>
            IF final[r] THEN data[r] \in Outcomes /\ json[r] = "running"
            ELSE data[r] = "running" /\ json[r] = "absent"
  /\ \A c \in Reconcilers : pc[c] \in Writing => json[target[c]] = "running"

\* Nobody disturbs a writer that is at work.
LEMMA StatusOfOthers ==
  ASSUME WholeInv, NEW w \in Writers, Step(w) \/ Crash(w),
         NEW v \in Writers, v # w, Active(v)
  PROVE  /\ pc'[v] = pc[v] /\ data'[v] = data[v] /\ target' = target
         /\ json'[target[v]] = json[target[v]]
         /\ v \in Runs => final'[v] = final[v]
<1>0. AloneInv /\ LockInv
  BY DEF WholeInv, AloneInv
<1>1. pc'[v] = pc[v] /\ target' = target
  BY <1>0, OneWriterMoves
<1>2. data'[v] = data[v]
  <2>1. UNCHANGED data \/ \E x : data' = [data EXCEPT ![w] = x]
    BY DEF Step, OpenTmp, FillTmp, RenameTmp, LockIndex, SeekIndex, AppendLine, FinishRun,
           ReadOwnStatus, Reconcile, EnsureIndexState, Crash
  <2> QED
    BY <1>0, <2>1 DEF LockInv, TypeOK
<1>3. ASSUME v \in Runs PROVE final'[v] = final[v]
  <2>1. UNCHANGED final \/ final' = [final EXCEPT ![w] = TRUE]
    BY DEF Step, OpenTmp, FillTmp, RenameTmp, LockIndex, SeekIndex, AppendLine, FinishRun,
           ReadOwnStatus, Reconcile, EnsureIndexState, Crash
  <2> QED
    BY <1>0, <1>3, <2>1 DEF LockInv, TypeOK
<1>4. json'[target[v]] = json[target[v]]
  <2>1. CASE UNCHANGED json
    BY <2>1
  <2>2. CASE pc[w] = "rename" /\ json' = [json EXCEPT ![target[w]] = data[w]]
    <3>1. Active(w)
      BY <2>2 DEF Active, Over
    <3>2. target[v] # target[w]
      BY <1>0, <3>1 DEF AloneInv
    <3> QED
      BY <1>0, <2>2, <3>2 DEF LockInv, TypeOK
  <2> QED
    BY <2>1, <2>2, StatusChanges
<1> QED
  BY <1>1, <1>2, <1>3, <1>4

\* A supervisor's own step.
LEMMA RecordOfSupervisor ==
  ASSUME RecordInv, NEW r \in Runs, Step(r) \/ Crash(r)
  PROVE  /\ pc'[r] = "idle" => json'[r] = "running"
         /\ pc'[r] \in {"lock", "seek", "append"} /\ ~final'[r] =>
              data'[r] = "running" /\ json'[r] = "absent"
         /\ pc'[r] \in Writing =>
              IF final'[r] THEN data'[r] \in Outcomes /\ json'[r] = "running"
              ELSE data'[r] = "running" /\ json'[r] = "absent"
         /\ \/ json' = json
            \/ /\ json' = [json EXCEPT ![r] = data[r]]
               /\ \/ json[r] = "absent" /\ data[r] = "running"
                  \/ json[r] = "running" /\ data[r] \in Outcomes
<1>0. /\ r \in Writers /\ r \notin Reconcilers /\ target[r] = r
      /\ pc \in [Writers -> Pcs] /\ data \in [Writers -> States] /\ json \in [Runs -> Contents]
      /\ final \in [Runs -> BOOLEAN]
  BY WritersAssumption DEF RecordInv, HandInv, WholeInv, AloneInv, LockInv, TypeOK, Writers
<1>a. /\ pc[r] = "idle" => json[r] = "running"
      /\ pc[r] \in {"lock", "seek", "append"} /\ ~final[r] =>
           data[r] = "running" /\ json[r] = "absent"
      /\ pc[r] \in Writing =>
           IF final[r] THEN data[r] \in Outcomes /\ json[r] = "running"
           ELSE data[r] = "running" /\ json[r] = "absent"
  BY DEF RecordInv
<1>b. pc[r] = "fill" => fd[r] = "tmp"
  BY <1>0 DEF RecordInv, HandInv, WholeInv
<1>c. pc[r] = "rename" => tmp[r] = data[r]
  BY <1>0 DEF RecordInv, HandInv, WholeInv
<1> USE DEF Goto, Writing
<1>1. CASE OpenTmp(r)
  BY <1>0, <1>1, <1>a DEF OpenTmp
<1>2. CASE FillTmp(r)
  <2>1. \E l \in {"rename", "read"} : pc' = [pc EXCEPT ![r] = l]
    BY <1>0, <1>2 DEF FillTmp, WriteFailed
  <2>2. pc[r] = "fill" /\ UNCHANGED <<data, final, json>>
    BY <1>2, <1>b DEF FillTmp
  <2> QED
    BY <1>0, <1>a, <2>1, <2>2
<1>3. CASE RenameTmp(r)
  <2>1. pc[r] = "rename" /\ tmp[r] = data[r] /\ data[r] \in States /\ UNCHANGED <<data, final>>
    BY <1>0, <1>3, <1>c DEF RenameTmp
  <2>2. data[r] # "absent"
    BY <2>1 DEF States, Outcomes
  <2>3. pc' = [pc EXCEPT ![r] = IF final[r] THEN "read" ELSE "idle"]
        /\ json' = [json EXCEPT ![r] = data[r]]
    BY <1>0, <1>3, <2>1, <2>2 DEF RenameTmp
  <2> QED
    BY <1>0, <1>a, <2>1, <2>3
<1>4. CASE LockIndex(r) \/ SeekIndex(r)
  BY <1>0, <1>4, <1>a DEF LockIndex, SeekIndex, statusVars
<1>5. CASE AppendLine(r)
  <2>1. pc' = [pc EXCEPT ![r] = IF final[r] THEN "done" ELSE "open"]
    BY <1>0, <1>5 DEF AppendLine, AfterAppend
  <2>2. pc[r] = "append" /\ UNCHANGED <<data, final, json>>
    BY <1>5 DEF AppendLine, statusVars
  <2> QED
    BY <1>0, <1>a, <2>1, <2>2
<1>6. CASE FinishRun(r)
  <2>1. /\ pc[r] = "idle" /\ pc' = [pc EXCEPT ![r] = "open"] /\ json' = json
        /\ \E o \in Outcomes : data' = [data EXCEPT ![r] = o]
        /\ final' = [final EXCEPT ![r] = TRUE]
    BY <1>6 DEF FinishRun, statusVars
  <2> QED
    BY <1>0, <1>a, <2>1
<1>7. CASE ReadOwnStatus(r)
  <2>1. /\ \E l \in {"lock", "done"} : pc' = [pc EXCEPT ![r] = l]
        /\ json' = json /\ final' = [final EXCEPT ![r] = TRUE]
    BY <1>7 DEF ReadOwnStatus, statusVars
  <2> QED
    BY <1>0, <2>1
<1>8. CASE Crash(r)
  BY <1>0, <1>8 DEF Crash
<1>9. ~Reconcile(r) /\ ~EnsureIndexState(r)
  BY <1>0 DEF Reconcile, EnsureIndexState
<1> QED
  BY <1>1, <1>2, <1>3, <1>4, <1>5, <1>6, <1>7, <1>8, <1>9 DEF Step

\* A reconciler's own step.
LEMMA RecordOfReconciler ==
  ASSUME RecordInv, NEW c \in Reconcilers, Step(c) \/ Crash(c)
  PROVE  /\ pc'[c] \in Writing => json'[target[c]] = "running"
         /\ \/ json' = json
            \/ /\ json' = [json EXCEPT ![target[c]] = data[c]]
               /\ json[target[c]] = "running" /\ data[c] \in Outcomes
<1>0. /\ c \in Writers /\ target[c] \in Runs /\ pc \in [Writers -> Pcs] /\ json \in [Runs -> Contents]
      /\ HandInv /\ WholeInv
  BY DEF RecordInv, HandInv, WholeInv, AloneInv, LockInv, TypeOK, Writers
<1>1. pc[c] \in Writing => json[target[c]] = "running" /\ data[c] \in Outcomes
  BY DEF RecordInv, HandInv
<1>2. pc'[c] \in Writing => pc[c] \in Writing \/ json[target[c]] = "running"
  BY <1>0, HandOfOne
<1>3. CASE UNCHANGED json
  BY <1>1, <1>2, <1>3
<1>4. CASE pc[c] = "rename" /\ json' = [json EXCEPT ![target[c]] = data[c]]
  <2>1. pc'[c] \notin Writing
    <3>1. RenameTmp(c) \/ Crash(c)
      BY <1>4, WritersAssumption DEF Step, OpenTmp, FillTmp, LockIndex, SeekIndex, AppendLine,
         FinishRun, ReadOwnStatus, Reconcile, EnsureIndexState
    <3> QED
      BY <1>0, <3>1 DEF RenameTmp, Crash, WriteFailed, Goto, Writing
  <2> QED
    BY <1>1, <1>4, <2>1 DEF Writing
<1> QED
  BY <1>0, <1>3, <1>4, StatusChanges

\* A step leaves every status.json as it is, or begins or ends one.
LEMMA RecordStep ==
  ASSUME ~Overlapping, RecordInv, [Next]_vars PROVE RecordInv'
<1>0. HandInv' /\ HandInv /\ WholeInv /\ AloneInv /\ LockInv
  BY HandStep DEF RecordInv, HandInv, WholeInv, AloneInv
<1>1. CASE UNCHANGED vars
  BY <1>0, <1>1 DEF vars, RecordInv
<1>2. ASSUME NEW w \in Writers, Step(w) \/ Crash(w) PROVE RecordInv'
  <2>0. /\ \A v \in Writers : v # w => pc'[v] = pc[v]
        /\ UNCHANGED target
    BY <1>0, <1>2, OneWriterMoves
  <2>1. ASSUME NEW r \in Runs
        PROVE  /\ pc'[r] = "idle" => json'[r] = "running"
               /\ pc'[r] \in {"lock", "seek", "append"} /\ ~final'[r] =>
                    data'[r] = "running" /\ json'[r] = "absent"
               /\ pc'[r] \in Writing =>
                    IF final'[r] THEN data'[r] \in Outcomes /\ json'[r] = "running"
                    ELSE data'[r] = "running" /\ json'[r] = "absent"
    <3>0. r \in Writers /\ r \notin Reconcilers /\ target[r] = r
      BY <1>0, WritersAssumption DEF AloneInv, Writers
    <3>1. CASE r = w
      BY <1>2, <3>1, RecordOfSupervisor
    <3>2. CASE r # w /\ pc[r] \in Over
      BY <2>0, <3>0, <3>2 DEF Over, Writing
    <3>3. CASE r # w /\ pc[r] \notin Over
      <4>1. Active(r)
        BY <3>0, <3>3 DEF Active
      <4>2. pc'[r] = pc[r] /\ data'[r] = data[r] /\ json'[r] = json[r] /\ final'[r] = final[r]
        BY <1>0, <1>2, <3>0, <3>3, <4>1, StatusOfOthers
      <4> QED
        BY <4>2 DEF RecordInv
    <3> QED
      BY <3>1, <3>2, <3>3
  <2>2. ASSUME NEW c \in Reconcilers, pc'[c] \in Writing PROVE json'[target'[c]] = "running"
    <3>0. c \in Writers
      BY DEF Writers
    <3>1. CASE c = w
      BY <1>2, <2>0, <2>2, <3>1, RecordOfReconciler
    <3>2. CASE c # w
      <4>1. pc[c] \in Writing /\ Active(c)
        BY <2>0, <2>2, <3>0, <3>2 DEF Active, Writing, Over
      <4>2. json'[target[c]] = json[target[c]]
        BY <1>0, <1>2, <3>0, <3>2, <4>1, StatusOfOthers
      <4> QED
        BY <2>0, <4>1, <4>2 DEF RecordInv
    <3> QED
      BY <3>1, <3>2
  <2> QED
    BY <1>0, <2>1, <2>2 DEF RecordInv
<1> QED
  BY <1>1, <1>2 DEF Next

LEMMA InitRecord == Init => RecordInv
<1> SUFFICES ASSUME Init PROVE RecordInv
  OBVIOUS
<1>1. HandInv
  BY InitWhole, WritersAssumption DEF Init, HandInv, Writers, Writing, Listing
<1>2. \A r \in Runs : pc[r] = "lock" /\ data[r] = "running" /\ json[r] = "absent"
  BY DEF Init, Writers
<1>3. \A c \in Reconcilers : pc[c] = "idle"
  BY WritersAssumption DEF Init, Writers
<1> QED
  BY <1>1, <1>2, <1>3 DEF RecordInv, Writing

\* Each step begins the record of one run, or finishes it, or leaves it.
LEMMA RecordOfRun ==
  ASSUME ~Overlapping, RecordInv, [Next]_vars, NEW r \in Runs
  PROVE  [Record(r)!Next]_(Record(r)!vars)
<1>0. json \in [Runs -> Contents] /\ target \in [Writers -> Runs] /\ \A q \in Runs : target[q] = q
  BY DEF RecordInv, HandInv, WholeInv, AloneInv, LockInv, TypeOK
<1>1. CASE json'[r] = json[r]
  BY <1>1 DEF Record!vars
<1>2. CASE json'[r] # json[r]
  <2>1. PICK w \in Writers : Step(w) \/ Crash(w)
    BY <1>2 DEF Next, vars
  <2>2. /\ json' = [json EXCEPT ![target[w]] = data[w]]
        /\ \/ json[target[w]] = "absent" /\ data[w] = "running"
           \/ json[target[w]] = "running" /\ data[w] \in Outcomes
    <3>1. CASE w \in Runs
      <4>1. \/ json' = json
            \/ /\ json' = [json EXCEPT ![w] = data[w]]
               /\ \/ json[w] = "absent" /\ data[w] = "running"
                  \/ json[w] = "running" /\ data[w] \in Outcomes
        BY <2>1, <3>1, RecordOfSupervisor
      <4> QED
        BY <1>0, <1>2, <3>1, <4>1
    <3>2. CASE w \in Reconcilers
      BY <1>2, <2>1, <3>2, RecordOfReconciler
    <3> QED
      BY <3>1, <3>2 DEF Writers
  <2>3. target[w] = r /\ json'[r] = data[w]
    BY <1>0, <1>2, <2>2
  <2>4. CASE json[r] = "absent" /\ data[w] = "running"
    <3>1. Record(r)!Begin
      BY <2>3, <2>4 DEF Record!Begin
    <3> QED
      BY <3>1 DEF Record!Next
  <2>5. CASE json[r] = "running" /\ data[w] \in Outcomes
    <3>1. Record(r)!Finish
      BY <2>3, <2>5 DEF Record!Finish, Record!Final, Outcomes
    <3> QED
      BY <3>1 DEF Record!Next
  <2> QED
    BY <2>2, <2>3, <2>4, <2>5
<1> QED
  BY <1>1, <1>2

\* Where one process at a time works on a run, a reader of its status.json
\* sees it begin once and end once, whatever dies or fails between the system
\* calls: each file implements the state of RunRecord (status.go:86-105,
\* reconcile.go:66).
THEOREM StatusImplementsRecord ==
  ASSUME ~Overlapping PROVE Spec => StatusKeepsRecord
<1>1. Init => \A r \in Runs : Record(r)!Init
  BY DEF Init, Record!Init
<1>2. RecordInv /\ [Next]_vars => [\A r \in Runs : [Record(r)!Next]_(Record(r)!vars)]_json
  BY RecordOfRun
<1>3. RecordInv /\ [Next]_vars => RecordInv'
  BY RecordStep
<1> QED
  BY <1>1, <1>2, <1>3, InitRecord, PTL DEF Spec, StatusKeepsRecord

-----------------------------------------------------------------------------
(* Induction over the natural numbers, and maxima, without an operator as   *)
(* a parameter.                                                             *)

\* Every non-empty set of natural numbers has a least element.
LEMMA LeastElement ==
  ASSUME NEW S \in SUBSET Nat, S # {}
  PROVE  \E m \in S : \A k \in S : m <= k
<1>1. IsWellFoundedOn(OpToRel(<, Nat), Nat)
  BY NatLessThanWellFounded
<1>2. PICK m \in S : \A k \in S : ~ (<<k, m>> \in OpToRel(<, Nat))
  BY <1>1, WFMin
<1>3. \A k \in S : ~ (k < m)
  BY <1>2 DEF OpToRel
<1> QED
  BY <1>3

\* A set with 0 and the successor of each of its numbers has them all.
LEMMA SetInduction ==
  ASSUME NEW S, 0 \in S, \A n \in Nat : n \in S => n + 1 \in S
  PROVE  \A n \in Nat : n \in S
<1> SUFFICES ASSUME Nat \ S # {} PROVE FALSE
  OBVIOUS
<1>1. PICK m \in Nat \ S : \A k \in Nat \ S : m <= k
  <2>1. Nat \ S \in SUBSET Nat
    OBVIOUS
  <2> QED
    BY <2>1, LeastElement
<1>2. m # 0 /\ m - 1 \in Nat
  BY <1>1
<1>3. m - 1 \in S
  BY <1>1, <1>2
<1>4. (m - 1) + 1 = m
  BY <1>2
<1> QED
  BY <1>1, <1>2, <1>3, <1>4

\* Max is what it is called on non-empty sets of positions.
LEMMA MaxOfPositions ==
  ASSUME NEW n \in Nat, NEW S \in SUBSET (1..n), S # {}
  PROVE  Max(S) \in S /\ \A k \in S : k <= Max(S)
<1> DEFINE Above == {m \in Nat : \A k \in S : k <= m}
<1>1. n \in Above
  OBVIOUS
<1>2. PICK m \in Above : \A k \in Above : m <= k
  <2>1. Above \in SUBSET Nat /\ Above # {}
    BY <1>1
  <2> HIDE DEF Above
  <2> QED
    BY <2>1, LeastElement
<1>3. m \in S
  <2> SUFFICES ASSUME m \notin S PROVE FALSE
    OBVIOUS
  <2>1. \A k \in S : k \in 1..n /\ k <= m /\ k # m
    BY <1>2
  <2>2. m \in Nat /\ m > 0
    <3>1. PICK k \in S : TRUE
      OBVIOUS
    <3>2. k >= 1 /\ k <= m /\ k \in Nat /\ m \in Nat
      BY <1>2, <2>1, <3>1
    <3> QED
      BY <3>2
  <2>3. m - 1 \in Above
    BY <2>1, <2>2
  <2> QED
    BY <1>2, <2>2, <2>3
<1>4. \E x \in S : \A y \in S : x >= y
  BY <1>2, <1>3
<1>5. Max(S) \in S /\ \A y \in S : Max(S) >= y
  BY <1>4 DEF Max
<1> QED
  BY <1>5

\* The first positions.
LEMMA MaxOfPrefix ==
  ASSUME NEW i \in Nat, i > 0
  PROVE  1..i # {} /\ Max(1..i) = i /\ (1..i) \ {i} = 1..(i - 1)
<1>1. i \in 1..i
  OBVIOUS
<1>2. Max(1..i) \in 1..i /\ \A k \in 1..i : k <= Max(1..i)
  BY <1>1, MaxOfPositions
<1> QED
  BY <1>1, <1>2

-----------------------------------------------------------------------------
(* Folds.                                                                   *)

\* The recursion by which FoldLeft is defined: g is a fold of h over s.
IsFold(g, V, b, s, h) ==
  /\ g[{}] = b
  /\ \A S \in SUBSET DOMAIN s :
       S # {} /\ g[S \ {Max(S)}] \in V => g[S] = h[<<g[S \ {Max(S)}], s[Max(S)]>>]

\* A loop that applies h to one element of s after the other.
IsLoop(turn, V, b, s, h) ==
  /\ turn \in [0..Len(s) -> V]
  /\ turn[0] = b
  /\ \A i \in 1..Len(s) : turn[i] = h[<<turn[i - 1], s[i]>>]

\* The recursion has a solution.
LEMMA FoldExists ==
  ASSUME NEW V, NEW b \in V, NEW E, NEW s \in Seq(E), NEW h \in [V \X E -> V]
  PROVE  \E g \in [SUBSET DOMAIN s -> V] : IsFold(g, V, b, s, h)
<1> DEFINE Solves(g, n) ==
             \A S \in SUBSET (1..n) :
               g[S] = IF S = {} THEN b ELSE h[<<g[S \ {Max(S)}], s[Max(S)]>>]
           Solvable(n) == \E g \in [SUBSET (1..n) -> V] : Solves(g, n)
           Solved == {n \in Nat : n <= Len(s) => Solvable(n)}
<1>0. Len(s) \in Nat /\ DOMAIN s = 1..Len(s) /\ \A i \in 1..Len(s) : s[i] \in E
  BY LenProperties
<1>1. 0 \in Solved
  <2> DEFINE g == [S \in SUBSET (1..0) |-> b]
  <2>1. g \in [SUBSET (1..0) -> V]
    OBVIOUS
  <2>2. Solves(g, 0)
    OBVIOUS
  <2> HIDE DEF g, Solves
  <2> QED
    BY <2>1, <2>2
<1>2. ASSUME NEW n \in Nat, n \in Solved PROVE n + 1 \in Solved
  <2> SUFFICES ASSUME n + 1 <= Len(s) PROVE Solvable(n + 1)
    <3> HIDE DEF Solvable
    <3> QED
      OBVIOUS
  <2>1. n <= Len(s) /\ n + 1 \in 1..Len(s)
    BY <1>0
  <2>2. PICK g \in [SUBSET (1..n) -> V] : Solves(g, n)
    <3>1. Solvable(n)
      <4> HIDE DEF Solvable
      <4> QED
        BY <1>2, <2>1
    <3> QED
      BY <3>1
  <2>3. \A S \in SUBSET (1..(n + 1)) : S \ {n + 1} \in SUBSET (1..n)
    OBVIOUS
  <2> DEFINE f == [S \in SUBSET (1..(n + 1)) |->
                     IF n + 1 \in S THEN h[<<g[S \ {n + 1}], s[n + 1]>>] ELSE g[S]]
  <2>4. f \in [SUBSET (1..(n + 1)) -> V]
    <3>1. ASSUME NEW S \in SUBSET (1..(n + 1)), n + 1 \in S PROVE h[<<g[S \ {n + 1}], s[n + 1]>>] \in V
      <4>1. g[S \ {n + 1}] \in V /\ s[n + 1] \in E
        BY <1>0, <2>1, <2>2, <2>3
      <4> QED
        BY <4>1
    <3>2. ASSUME NEW S \in SUBSET (1..(n + 1)), n + 1 \notin S PROVE g[S] \in V
      <4>1. S \in SUBSET (1..n)
        BY <3>2
      <4> QED
        BY <2>2, <4>1
    <3> QED
      BY <3>1, <3>2
  <2>5. Solves(f, n + 1)
    <3> SUFFICES ASSUME NEW S \in SUBSET (1..(n + 1))
                 PROVE  f[S] = IF S = {} THEN b ELSE h[<<f[S \ {Max(S)}], s[Max(S)]>>]
      OBVIOUS
    <3>1. CASE n + 1 \in S
      <4>1. Max(S) = n + 1
        <5>1. S # {} /\ n + 1 \in Nat
          BY <3>1
        <5>2. Max(S) \in S /\ \A k \in S : k <= Max(S)
          BY <5>1, MaxOfPositions
        <5>3. n + 1 <= Max(S) /\ Max(S) \in 1..(n + 1)
          BY <3>1, <5>2
        <5> QED
          BY <5>3
      <4>2. f[S \ {n + 1}] = g[S \ {n + 1}]
        BY <2>3
      <4> QED
        BY <3>1, <4>1, <4>2
    <3>2. CASE n + 1 \notin S
      <4>1. S \in SUBSET (1..n) /\ f[S] = g[S]
        BY <3>2
      <4>2. S # {} => Max(S) \in S
        BY <4>1, MaxOfPositions
      <4>3. f[S \ {Max(S)}] = g[S \ {Max(S)}]
        BY <3>2, <4>1
      <4>4. g[S] = IF S = {} THEN b ELSE h[<<g[S \ {Max(S)}], s[Max(S)]>>]
        BY <2>2, <4>1
      <4> QED
        BY <4>1, <4>3, <4>4
    <3> QED
      BY <3>1, <3>2
  <2> HIDE DEF f, Solves
  <2> QED
    BY <2>4, <2>5
<1>3. Len(s) \in Solved
  <2> HIDE DEF Solved
  <2> QED
    BY <1>0, <1>1, <1>2, SetInduction
<1>4. Solvable(Len(s))
  <2> HIDE DEF Solvable
  <2> QED
    BY <1>0, <1>3
<1>5. PICK g \in [SUBSET (1..Len(s)) -> V] : Solves(g, Len(s))
  BY <1>4
<1>6. {} \in SUBSET DOMAIN s
  OBVIOUS
<1> QED
  BY <1>0, <1>5, <1>6 DEF IsFold

\* A solution goes through the sequence from left to right.
LEMMA FoldIsLoop ==
  ASSUME NEW V, NEW b \in V, NEW E, NEW s \in Seq(E), NEW h \in [V \X E -> V],
         NEW g, IsFold(g, V, b, s, h)
  PROVE  IsLoop([i \in 0..Len(s) |-> g[1..i]], V, b, s, h)
<1> DEFINE Typed == {i \in Nat : i <= Len(s) => g[1..i] \in V}
<1>0. Len(s) \in Nat /\ DOMAIN s = 1..Len(s) /\ \A i \in 1..Len(s) : s[i] \in E
  BY LenProperties
<1>1. g[1..0] = b
  <2>1. 1..0 = {}
    OBVIOUS
  <2> QED
    BY <2>1 DEF IsFold
<1>2. ASSUME NEW i \in 1..Len(s), g[1..(i - 1)] \in V
      PROVE  g[1..i] = h[<<g[1..(i - 1)], s[i]>>]
  <2>1. 1..i # {} /\ Max(1..i) = i /\ (1..i) \ {i} = 1..(i - 1)
    <3>1. i \in Nat /\ i > 0
      BY <1>0
    <3> QED
      BY <3>1, MaxOfPrefix
  <2>2. 1..i \in SUBSET DOMAIN s
    BY <1>0
  <2> QED
    BY <1>2, <2>1, <2>2 DEF IsFold
<1>3. 0 \in Typed
  BY <1>1
<1>4. ASSUME NEW n \in Nat, n \in Typed PROVE n + 1 \in Typed
  <2> SUFFICES ASSUME n + 1 <= Len(s) PROVE g[1..(n + 1)] \in V
    OBVIOUS
  <2>1. n + 1 \in 1..Len(s) /\ (n + 1) - 1 = n /\ n <= Len(s)
    BY <1>0
  <2>2. g[1..n] \in V
    BY <1>4, <2>1
  <2>3. g[1..(n + 1)] = h[<<g[1..n], s[n + 1]>>]
    BY <1>2, <2>1, <2>2
  <2> QED
    BY <1>0, <2>1, <2>2, <2>3
<1>5. \A i \in Nat : i \in Typed
  <2> HIDE DEF Typed
  <2> QED
    BY <1>3, <1>4, SetInduction
<1>6. \A i \in 0..Len(s) : g[1..i] \in V
  BY <1>0, <1>5
<1>7. \A i \in 1..Len(s) : i - 1 \in 0..Len(s)
  BY <1>0
<1> DEFINE turn == [i \in 0..Len(s) |-> g[1..i]]
<1>8. turn \in [0..Len(s) -> V] /\ turn[0] = b
  BY <1>0, <1>1, <1>6
<1>9. \A i \in 1..Len(s) : turn[i] = h[<<turn[i - 1], s[i]>>]
  BY <1>0, <1>2, <1>6, <1>7
<1> HIDE DEF turn
<1>10. IsLoop(turn, V, b, s, h)
  BY <1>8, <1>9 DEF IsLoop
<1> QED
  BY <1>10 DEF turn

-----------------------------------------------------------------------------
(* What the readers of the index compute.                                  *)

\* One turn of the loop of ReadIndex, and of uniqueRuns.
Read(entries, e) == IF e.state = "garbled" THEN entries ELSE Append(entries, e)
FirstRead(order, e) == IF Contains(order, e.run) THEN order ELSE Append(order, e.run)

LEMMA ReadIsTyped ==
  ASSUME NEW s \in Seq(Entries), NEW e \in Entries PROVE Read(s, e) \in Seq(Entries)
BY AppendProperties DEF Read

LEMMA FirstIsTyped ==
  ASSUME NEW s \in Seq(Runs), NEW e \in Entries PROVE FirstRead(s, e) \in Seq(Runs)
<1>1. e.run \in Runs
  BY DEF Entries
<1> QED
  BY <1>1, AppendProperties DEF FirstRead

\* ReadIndex is a loop over the lines.
LEMMA ReadIndexIsLoop ==
  ASSUME index \in Seq(Entries)
  PROVE  \E turn \in [0..Len(index) -> Seq(Entries)] :
           /\ turn[0] = <<>>
           /\ \A i \in 1..Len(index) : turn[i] = Read(turn[i - 1], index[i])
           /\ ReadIndex = turn[Len(index)]
<1> DEFINE V == Seq(Entries)
           h == [p \in V \X Entries |-> Read(p[1], p[2])]
           Solves(g) == g = [S \in SUBSET DOMAIN index |->
                               IF S = {} THEN <<>> ELSE Read(g[S \ {Max(S)}], index[Max(S)])]
           fold == CHOOSE g : Solves(g)
           turn == [i \in 0..Len(index) |-> fold[1..i]]
<1>0. Len(index) \in Nat /\ DOMAIN index = 1..Len(index)
  BY LenProperties
<1>1. ReadIndex = fold[DOMAIN index]
  BY DEF ReadIndex, Read, FoldLeft, MapThenFoldSet
<1>2. <<>> \in V
  OBVIOUS
<1>3. h \in [V \X Entries -> V] /\ \A v \in V, e \in Entries : h[<<v, e>>] = Read(v, e)
  BY ReadIsTyped
<1>4. \A S \in SUBSET DOMAIN index : S # {} => Max(S) \in S /\ index[Max(S)] \in Entries
  <2> TAKE S \in SUBSET DOMAIN index
  <2>1. S # {} => Max(S) \in S
    BY <1>0, MaxOfPositions
  <2> QED
    BY <1>0, <2>1, LenProperties
<1> HIDE DEF h, V
<1>5. \E g : Solves(g)
  <2>1. PICK g \in [SUBSET DOMAIN index -> V] : IsFold(g, V, <<>>, index, h)
    BY <1>2, <1>3, FoldExists
  <2>2. g[{}] = <<>> /\ \A S \in SUBSET DOMAIN index : S # {} =>
          g[S] = Read(g[S \ {Max(S)}], index[Max(S)])
    BY <1>3, <1>4, <2>1 DEF IsFold
  <2>3. g = [S \in SUBSET DOMAIN index |->
               IF S = {} THEN <<>> ELSE Read(g[S \ {Max(S)}], index[Max(S)])]
    BY <2>1, <2>2
  <2> QED
    BY <2>3
<1>6. Solves(fold)
  <2> HIDE DEF Solves
  <2> QED
    BY <1>5
<1> HIDE DEF fold
<1>7. IsLoop(turn, V, <<>>, index, h)
  <2>1. fold[{}] = <<>>
    BY <1>6
  <2>2. IsFold(fold, V, <<>>, index, h)
    BY <1>3, <1>4, <1>6, <2>1 DEF IsFold
  <2> QED
    <3> HIDE DEF Solves
    <3>1. h \in [V \X Entries -> V]
      BY <1>3
    <3> QED
      BY <1>2, <2>2, <3>1, FoldIsLoop, ZenonT(60)
<1>8. ReadIndex = turn[Len(index)]
  BY <1>0, <1>1
<1> HIDE DEF turn
<1>9. ASSUME NEW i \in 1..Len(index) PROVE turn[i] = Read(turn[i - 1], index[i])
  <2>1. i - 1 \in 0..Len(index) /\ index[i] \in Entries
    BY <1>0, LenProperties
  <2>2. turn[i - 1] \in V /\ turn[i] = h[<<turn[i - 1], index[i]>>]
    BY <1>7, <2>1 DEF IsLoop
  <2> QED
    BY <1>3, <2>1, <2>2
<1>10. turn \in [0..Len(index) -> Seq(Entries)] /\ turn[0] = <<>>
  BY <1>7 DEF IsLoop, V
<1> QED
  BY <1>8, <1>9, <1>10

\* uniqueRuns finds the order of the runs in a loop over the entries.
LEMMA FirstAppearancesIsLoop ==
  ASSUME NEW entries \in Seq(Entries)
  PROVE  \E turn \in [0..Len(entries) -> Seq(Runs)] :
           /\ turn[0] = <<>>
           /\ \A i \in 1..Len(entries) : turn[i] = FirstRead(turn[i - 1], entries[i])
           /\ FirstAppearances(entries) = turn[Len(entries)]
<1> DEFINE V == Seq(Runs)
           h == [p \in V \X Entries |-> FirstRead(p[1], p[2])]
           Solves(g) == g = [S \in SUBSET DOMAIN entries |->
                               IF S = {} THEN <<>> ELSE FirstRead(g[S \ {Max(S)}], entries[Max(S)])]
           fold == CHOOSE g : Solves(g)
           turn == [i \in 0..Len(entries) |-> fold[1..i]]
<1>0. Len(entries) \in Nat /\ DOMAIN entries = 1..Len(entries)
  BY LenProperties
<1>1. FirstAppearances(entries) = fold[DOMAIN entries]
  BY DEF FirstAppearances, FirstRead, FoldLeft, MapThenFoldSet
<1>2. <<>> \in V
  OBVIOUS
<1>3. h \in [V \X Entries -> V] /\ \A v \in V, e \in Entries : h[<<v, e>>] = FirstRead(v, e)
  BY FirstIsTyped
<1>4. \A S \in SUBSET DOMAIN entries : S # {} => Max(S) \in S /\ entries[Max(S)] \in Entries
  <2> TAKE S \in SUBSET DOMAIN entries
  <2>1. S # {} => Max(S) \in S
    BY <1>0, MaxOfPositions
  <2> QED
    BY <1>0, <2>1, LenProperties
<1> HIDE DEF h, V
<1>5. \E g : Solves(g)
  <2>1. PICK g \in [SUBSET DOMAIN entries -> V] : IsFold(g, V, <<>>, entries, h)
    BY <1>2, <1>3, FoldExists
  <2>2. g[{}] = <<>> /\ \A S \in SUBSET DOMAIN entries : S # {} =>
          g[S] = FirstRead(g[S \ {Max(S)}], entries[Max(S)])
    BY <1>3, <1>4, <2>1 DEF IsFold
  <2>3. g = [S \in SUBSET DOMAIN entries |->
               IF S = {} THEN <<>> ELSE FirstRead(g[S \ {Max(S)}], entries[Max(S)])]
    BY <2>1, <2>2
  <2> QED
    BY <2>3
<1>6. Solves(fold)
  <2> HIDE DEF Solves
  <2> QED
    BY <1>5
<1> HIDE DEF fold
<1>7. IsLoop(turn, V, <<>>, entries, h)
  <2>1. fold[{}] = <<>>
    BY <1>6
  <2>2. IsFold(fold, V, <<>>, entries, h)
    BY <1>3, <1>4, <1>6, <2>1 DEF IsFold
  <2> QED
    <3> HIDE DEF Solves
    <3>1. h \in [V \X Entries -> V]
      BY <1>3
    <3> QED
      BY <1>2, <2>2, <3>1, FoldIsLoop, ZenonT(60)
<1>8. FirstAppearances(entries) = turn[Len(entries)]
  BY <1>0, <1>1
<1> HIDE DEF turn
<1>9. ASSUME NEW i \in 1..Len(entries) PROVE turn[i] = FirstRead(turn[i - 1], entries[i])
  <2>1. i - 1 \in 0..Len(entries) /\ entries[i] \in Entries
    BY <1>0, LenProperties
  <2>2. turn[i - 1] \in V /\ turn[i] = h[<<turn[i - 1], entries[i]>>]
    BY <1>7, <2>1 DEF IsLoop
  <2> QED
    BY <1>3, <2>1, <2>2
<1>10. turn \in [0..Len(entries) -> Seq(Runs)] /\ turn[0] = <<>>
  BY <1>7 DEF IsLoop, V
<1> QED
  BY <1>8, <1>9, <1>10

\* ReadIndex keeps the order of the lines and, of those that parse, all: pos
\* says which line each entry is from.
Follows(entries, pos, i) ==
  /\ pos \in [1..Len(entries) -> ReadLines]
  /\ \A k \in 1..Len(entries) : entries[k] = index[pos[k]] /\ pos[k] <= i
  /\ \A k, l \in 1..Len(entries) : k < l => pos[k] < pos[l]
  /\ \A j \in ReadLines : j <= i => \E k \in 1..Len(entries) : pos[k] = j

LEMMA FollowsOneMore ==
  ASSUME index \in Seq(Entries), NEW i \in Nat, i + 1 <= Len(index),
         NEW s \in Seq(Entries), NEW pos, Follows(s, pos, i)
  PROVE  \E p : Follows(Read(s, index[i + 1]), p, i + 1)
<1>0. Len(s) \in Nat /\ Len(index) \in Nat /\ ReadLines \subseteq 1..Len(index)
  BY LenProperties DEF ReadLines
<1>1. i + 1 \in 1..Len(index) /\ i + 1 \in DOMAIN index /\ index[i + 1] \in Entries
  BY <1>0, LenProperties
<1>2. CASE index[i + 1].state = "garbled"
  <2>1. Read(s, index[i + 1]) = s /\ i + 1 \notin ReadLines
    BY <1>2 DEF Read, ReadLines
  <2>2. \A j \in ReadLines : j <= i + 1 => j <= i
    BY <1>0, <2>1
  <2>3. \A j \in ReadLines : j <= i => j <= i + 1
    BY <1>0
  <2>4. \A k \in 1..Len(s) : pos[k] <= i + 1
    BY <2>3 DEF Follows
  <2>5. Follows(s, pos, i + 1)
    BY <2>2, <2>4 DEF Follows
  <2> QED
    BY <2>1, <2>5
<1>3. CASE index[i + 1].state # "garbled"
  <2> DEFINE t == Append(s, index[i + 1])
             p == [k \in 1..(Len(s) + 1) |-> IF k <= Len(s) THEN pos[k] ELSE i + 1]
  <2>1. Read(s, index[i + 1]) = t /\ i + 1 \in ReadLines
    BY <1>1, <1>3 DEF Read, ReadLines
  <2>2. /\ Len(t) = Len(s) + 1
        /\ \A k \in 1..Len(s) : t[k] = s[k]
        /\ t[Len(s) + 1] = index[i + 1]
    BY <1>1, AppendProperties
  <2>3. \A k \in 1..(Len(s) + 1) : k \in 1..Len(s) \/ k = Len(s) + 1
    BY <1>0
  <2>4. /\ \A k \in 1..Len(s) : p[k] = pos[k] /\ pos[k] \in ReadLines /\ pos[k] <= i
        /\ p[Len(s) + 1] = i + 1
    <3>1. \A k \in 1..Len(s) : k \in 1..(Len(s) + 1) /\ k <= Len(s)
      BY <1>0
    <3>2. Len(s) + 1 \in 1..(Len(s) + 1) /\ ~ (Len(s) + 1 <= Len(s))
      BY <1>0
    <3>3. \A k \in 1..Len(s) : pos[k] \in ReadLines /\ pos[k] <= i
      BY DEF Follows
    <3> QED
      BY <3>1, <3>2, <3>3
  <2> HIDE DEF t
  <2>5. p \in [1..Len(t) -> ReadLines]
    <3>1. p \in [1..(Len(s) + 1) -> ReadLines]
      <4>1. \A k \in 1..(Len(s) + 1) : p[k] \in ReadLines
        BY <2>1, <2>3, <2>4
      <4> QED
        BY <4>1
    <3> QED
      BY <2>2, <3>1
  <2> HIDE DEF p
  <2>6. \A k \in 1..Len(t) : t[k] = index[p[k]] /\ p[k] <= i + 1
    <3>1. \A k \in 1..Len(s) : s[k] = index[pos[k]]
      BY DEF Follows
    <3>2. \A k \in 1..Len(s) : pos[k] <= i + 1
      <4>1. \A j \in ReadLines : j <= i => j <= i + 1
        BY <1>0
      <4> QED
        BY <2>4, <4>1
    <3> QED
      BY <2>2, <2>3, <2>4, <3>1, <3>2
  <2>7. \A k, l \in 1..Len(t) : k < l => p[k] < p[l]
    <3> SUFFICES ASSUME NEW k \in 1..(Len(s) + 1), NEW l \in 1..(Len(s) + 1), k < l
                 PROVE  p[k] < p[l]
      BY <2>2
    <3>1. k \in 1..Len(s)
      BY <1>0
    <3>2. CASE l \in 1..Len(s)
      BY <2>4, <3>1, <3>2 DEF Follows
    <3>3. CASE l = Len(s) + 1
      <4>1. p[k] = pos[k] /\ pos[k] \in ReadLines /\ pos[k] <= i /\ p[l] = i + 1
        BY <2>4, <3>1, <3>3
      <4>2. \A j \in ReadLines : j <= i => j < i + 1
        BY <1>0
      <4> QED
        BY <4>1, <4>2
    <3> QED
      BY <2>3, <3>2, <3>3
  <2>8. \A j \in ReadLines : j <= i + 1 => \E k \in 1..Len(t) : p[k] = j
    <3> SUFFICES ASSUME NEW j \in ReadLines, j <= i + 1
                 PROVE  \E k \in 1..(Len(s) + 1) : p[k] = j
      BY <2>2
    <3>1. CASE j <= i
      <4>1. PICK k \in 1..Len(s) : pos[k] = j
        BY <3>1 DEF Follows
      <4>2. k \in 1..(Len(s) + 1)
        BY <1>0
      <4> QED
        BY <2>4, <4>1, <4>2
    <3>2. CASE j = i + 1
      <4>1. Len(s) + 1 \in 1..(Len(s) + 1)
        BY <1>0
      <4> QED
        BY <2>4, <3>2, <4>1
    <3> QED
      BY <1>0, <3>1, <3>2
  <2>9. Follows(t, p, i + 1)
    BY <2>5, <2>6, <2>7, <2>8 DEF Follows
  <2> QED
    BY <2>1, <2>9
<1> QED
  BY <1>2, <1>3

LEMMA ReadIndexFollows ==
  ASSUME index \in Seq(Entries)
  PROVE  ReadIndex \in Seq(Entries) /\ \E pos : Follows(ReadIndex, pos, Len(index))
<1>1. PICK turn \in [0..Len(index) -> Seq(Entries)] :
        /\ turn[0] = <<>>
        /\ \A i \in 1..Len(index) : turn[i] = Read(turn[i - 1], index[i])
        /\ ReadIndex = turn[Len(index)]
  BY ReadIndexIsLoop
<1>2. Len(index) \in Nat
  BY LenProperties
<1> DEFINE Done == {i \in Nat : i <= Len(index) => \E pos : Follows(turn[i], pos, i)}
<1>3. 0 \in Done
  <2>1. Len(<<>>) = 0 /\ 1..0 = {} /\ \A j \in ReadLines : ~ (j <= 0)
    BY LenProperties DEF ReadLines
  <2> DEFINE pos == [k \in 1..0 |-> 0]
  <2>2. pos \in [1..0 -> ReadLines]
    OBVIOUS
  <2> HIDE DEF pos
  <2>3. Follows(<<>>, pos, 0)
    BY <2>1, <2>2 DEF Follows
  <2> QED
    BY <1>1, <2>3
<1>4. ASSUME NEW n \in Nat, n \in Done PROVE n + 1 \in Done
  <2> SUFFICES ASSUME n + 1 <= Len(index) PROVE \E pos : Follows(turn[n + 1], pos, n + 1)
    OBVIOUS
  <2>1. n + 1 \in 1..Len(index) /\ (n + 1) - 1 = n /\ n \in 0..Len(index) /\ n <= Len(index)
    BY <1>2
  <2>2. PICK pos : Follows(turn[n], pos, n)
    BY <1>4, <2>1
  <2>3. turn[n + 1] = Read(turn[n], index[n + 1]) /\ turn[n] \in Seq(Entries)
    BY <1>1, <2>1
  <2> QED
    BY <2>2, <2>3, FollowsOneMore
<1>5. Len(index) \in Done
  <2> HIDE DEF Done
  <2> QED
    BY <1>2, <1>3, <1>4, SetInduction
<1> QED
  BY <1>1, <1>2, <1>5

\* The order of the runs: those of the first i entries, each once.
Orders(order, entries, i) ==
  /\ \A k, l \in 1..Len(order) : order[k] = order[l] => k = l
  /\ \A j \in 1..i : \E k \in 1..Len(order) : order[k] = entries[j].run
  /\ \A k \in 1..Len(order) : \E j \in 1..i : order[k] = entries[j].run

LEMMA OrdersOneMore ==
  ASSUME NEW entries \in Seq(Entries), NEW i \in Nat, i + 1 <= Len(entries),
         NEW order \in Seq(Runs), Orders(order, entries, i)
  PROVE  Orders(FirstRead(order, entries[i + 1]), entries, i + 1)
<1>0. Len(order) \in Nat /\ Len(entries) \in Nat
  BY LenProperties
<1>1. \A j \in 1..(i + 1) : j \in 1..i \/ j = i + 1
  OBVIOUS
<1>2. 1..i \subseteq 1..(i + 1) /\ i + 1 \in 1..(i + 1)
  OBVIOUS
<1> DEFINE r == entries[i + 1].run
<1>3. r \in Runs
  <2>1. entries[i + 1] \in Entries
    BY <1>0, LenProperties
  <2> QED
    BY <2>1 DEF Entries
<1> HIDE DEF r
<1>4. CASE Contains(order, r)
  <2>1. FirstRead(order, entries[i + 1]) = order
    BY <1>4 DEF FirstRead, r
  <2>2. \E k \in 1..Len(order) : order[k] = r
    BY <1>4 DEF Contains
  <2> QED
    BY <1>1, <1>2, <2>1, <2>2 DEF Orders, r
<1>5. CASE ~Contains(order, r)
  <2> DEFINE t == Append(order, r)
  <2>1. FirstRead(order, entries[i + 1]) = t
    BY <1>5 DEF FirstRead, r
  <2>2. \A k \in 1..Len(order) : order[k] # r
    BY <1>5 DEF Contains
  <2>3. /\ Len(t) = Len(order) + 1
        /\ \A k \in 1..Len(order) : t[k] = order[k]
        /\ t[Len(order) + 1] = r
    BY <1>3, AppendProperties
  <2> HIDE DEF t
  <2>4. /\ \A k \in 1..Len(t) : k \in 1..Len(order) \/ k = Len(order) + 1
        /\ 1..Len(order) \subseteq 1..Len(t) /\ Len(order) + 1 \in 1..Len(t)
    BY <1>0, <2>3
  <2>5. \A k, l \in 1..Len(t) : t[k] = t[l] => k = l
    <3> TAKE k, l \in 1..Len(t)
    <3>1. CASE k \in 1..Len(order) /\ l \in 1..Len(order)
      BY <2>3, <3>1 DEF Orders
    <3>2. CASE k = Len(order) + 1 \/ l = Len(order) + 1
      BY <2>2, <2>3, <2>4, <3>2
    <3> QED
      BY <2>4, <3>1, <3>2
  <2>6. \A j \in 1..(i + 1) : \E k \in 1..Len(t) : t[k] = entries[j].run
    <3> TAKE j \in 1..(i + 1)
    <3>1. CASE j \in 1..i
      <4>1. PICK k \in 1..Len(order) : order[k] = entries[j].run
        BY <3>1 DEF Orders
      <4> QED
        BY <2>3, <2>4, <4>1
    <3>2. CASE j = i + 1
      BY <2>3, <2>4, <3>2 DEF r
    <3> QED
      BY <1>1, <3>1, <3>2
  <2>7. \A k \in 1..Len(t) : \E j \in 1..(i + 1) : t[k] = entries[j].run
    <3> TAKE k \in 1..Len(t)
    <3>1. CASE k \in 1..Len(order)
      <4>1. PICK j \in 1..i : order[k] = entries[j].run
        BY <3>1 DEF Orders
      <4> QED
        BY <1>2, <2>3, <3>1, <4>1
    <3>2. CASE k = Len(order) + 1
      BY <1>2, <2>3, <3>2 DEF r
    <3> QED
      BY <2>4, <3>1, <3>2
  <2> QED
    BY <2>1, <2>5, <2>6, <2>7 DEF Orders
<1> QED
  BY <1>4, <1>5

LEMMA FirstAppearancesOrders ==
  ASSUME NEW entries \in Seq(Entries)
  PROVE  /\ FirstAppearances(entries) \in Seq(Runs)
         /\ Orders(FirstAppearances(entries), entries, Len(entries))
<1>1. PICK turn \in [0..Len(entries) -> Seq(Runs)] :
        /\ turn[0] = <<>>
        /\ \A i \in 1..Len(entries) : turn[i] = FirstRead(turn[i - 1], entries[i])
        /\ FirstAppearances(entries) = turn[Len(entries)]
  BY FirstAppearancesIsLoop
<1>2. Len(entries) \in Nat
  BY LenProperties
<1> DEFINE Done == {i \in Nat : i <= Len(entries) => Orders(turn[i], entries, i)}
<1>3. 0 \in Done
  <2>1. Len(<<>>) = 0 /\ 1..0 = {}
    OBVIOUS
  <2>2. Orders(<<>>, entries, 0)
    BY <2>1 DEF Orders
  <2> QED
    BY <1>1, <2>2
<1>4. ASSUME NEW n \in Nat, n \in Done PROVE n + 1 \in Done
  <2> SUFFICES ASSUME n + 1 <= Len(entries) PROVE Orders(turn[n + 1], entries, n + 1)
    OBVIOUS
  <2>1. n + 1 \in 1..Len(entries) /\ (n + 1) - 1 = n /\ n \in 0..Len(entries) /\ n <= Len(entries)
    BY <1>2
  <2>2. Orders(turn[n], entries, n)
    BY <1>4, <2>1
  <2>3. turn[n + 1] = FirstRead(turn[n], entries[n + 1]) /\ turn[n] \in Seq(Runs)
    BY <1>1, <2>1
  <2> QED
    BY <2>2, <2>3, OrdersOneMore
<1>5. Len(entries) \in Done
  <2> HIDE DEF Done
  <2> QED
    BY <1>2, <1>3, <1>4, SetInduction
<1> QED
  BY <1>1, <1>2, <1>5

\* The latest entry of a run is the one after which the run does not appear.
LEMMA LatestEntryIsLast ==
  ASSUME NEW entries \in Seq(Entries), NEW i \in 1..Len(entries),
         \A j \in 1..Len(entries) : j > i => entries[j].run # entries[i].run
  PROVE  LatestEntry(entries, entries[i].run) = entries[i]
<1> DEFINE r == entries[i].run
           IsLast(k) == entries[k].run = r /\ \A j \in (k + 1)..Len(entries) : entries[j].run # r
<1>1. Len(entries) \in Nat /\ DOMAIN entries = 1..Len(entries)
  BY LenProperties
<1>2. IsLast(i)
  BY <1>1
<1>3. \A k \in DOMAIN entries : IsLast(k) => k = i
  <2> SUFFICES ASSUME NEW k \in 1..Len(entries), IsLast(k) PROVE k = i
    BY <1>1
  <2>1. ~ (k > i)
    OBVIOUS
  <2>2. ~ (i > k)
    BY <1>1
  <2> QED
    BY <1>1, <2>1, <2>2
<1>4. (CHOOSE k \in DOMAIN entries : IsLast(k)) = i
  <2> HIDE DEF IsLast
  <2> QED
    BY <1>1, <1>2, <1>3
<1> QED
  BY <1>4 DEF LatestEntry

\* A run that appears has a latest entry, and that is an entry of the run.
LEMMA LatestEntryIsOfRun ==
  ASSUME NEW entries \in Seq(Entries), NEW i \in 1..Len(entries)
  PROVE  LatestEntry(entries, entries[i].run).run = entries[i].run
<1> DEFINE r == entries[i].run
           Of == {j \in 1..Len(entries) : entries[j].run = r}
<1>1. Len(entries) \in Nat
  BY LenProperties
<1>2. Of \in SUBSET (1..Len(entries)) /\ Of # {}
  OBVIOUS
<1>3. Max(Of) \in Of /\ \A j \in Of : j <= Max(Of)
  <2> HIDE DEF Of
  <2> QED
    BY <1>1, <1>2, MaxOfPositions
<1> DEFINE k == Max(Of)
<1>4. k \in 1..Len(entries) /\ entries[k].run = r
  BY <1>3
<1>5. \A j \in 1..Len(entries) : j > k => entries[j].run # r
  BY <1>3
<1> HIDE DEF k
<1>6. LatestEntry(entries, entries[k].run) = entries[k]
  BY <1>4, <1>5, LatestEntryIsLast
<1> QED
  BY <1>4, <1>6

\* The latest entry that ReadIndex returns is what resolveByID finds.
LEMMA LatestEntryIsResolved ==
  ASSUME index \in Seq(Entries), NEW r, Listed(r)
  PROVE  /\ LatestEntry(ReadIndex, r) = ResolveByID(r)
         /\ \E k \in 1..Len(ReadIndex) : ReadIndex[k].run = r
<1>1. PICK pos : Follows(ReadIndex, pos, Len(index))
  BY ReadIndexFollows
<1>2. ReadIndex \in Seq(Entries)
  BY ReadIndexFollows
<1>3. /\ Len(index) \in Nat /\ Len(ReadIndex) \in Nat
      /\ ReadLines \subseteq 1..Len(index) /\ LinesOf(r) \subseteq ReadLines
  BY <1>2, LenProperties DEF ReadLines, LinesOf
<1> DEFINE m == Max(LinesOf(r))
<1>4. m \in LinesOf(r) /\ \A j \in LinesOf(r) : j <= m
  BY <1>3, MaxOfPositions DEF Listed
<1> HIDE DEF m
<1>5. m \in ReadLines /\ m <= Len(index)
  <2>1. m \in ReadLines
    BY <1>3, <1>4
  <2>2. m \in 1..Len(index)
    BY <1>3, <2>1
  <2> QED
    BY <1>3, <2>1, <2>2
<1>6. PICK k \in 1..Len(ReadIndex) : pos[k] = m
  BY <1>1, <1>5 DEF Follows
<1>7. ReadIndex[k] = index[m] /\ index[m].run = r
  BY <1>1, <1>4, <1>6 DEF Follows, LinesOf
<1>8. \A l \in 1..Len(ReadIndex) : l > k => ReadIndex[l].run # r
  <2> SUFFICES ASSUME NEW l \in 1..Len(ReadIndex), l > k, ReadIndex[l].run = r PROVE FALSE
    OBVIOUS
  <2>1. k < l
    BY <1>3
  <2>2. pos[k] < pos[l] /\ ReadIndex[l] = index[pos[l]] /\ pos[l] \in ReadLines
    BY <1>1, <2>1 DEF Follows
  <2>3. pos[l] \in LinesOf(r)
    BY <2>2 DEF LinesOf
  <2>4. pos[l] <= m /\ m < pos[l]
    BY <1>4, <1>6, <2>2, <2>3
  <2>5. pos[l] \in 1..Len(index) /\ m \in 1..Len(index)
    BY <1>3, <1>5, <2>2
  <2> QED
    BY <1>3, <2>4, <2>5
<1>9. LatestEntry(ReadIndex, ReadIndex[k].run) = ReadIndex[k]
  BY <1>2, <1>7, <1>8, LatestEntryIsLast
<1> QED
  BY <1>7, <1>9 DEF ResolveByID, m

\* Of an index of any length and any runs: each listed run has one last-N.
LEMMA IndexHasOneRefEach == ASSUME index \in Seq(Entries) PROVE RefsAgree
<1> DEFINE order == FirstAppearances(ReadIndex)
           unique == UniqueRuns(ReadIndex)
<1>1. ReadIndex \in Seq(Entries)
  BY ReadIndexFollows
<1>2. order \in Seq(Runs) /\ Orders(order, ReadIndex, Len(ReadIndex))
  BY <1>1, FirstAppearancesOrders
<1>3. Len(order) \in Nat /\ DOMAIN order = 1..Len(order)
  BY <1>2, LenProperties
<1>4. unique = [k \in 1..Len(order) |-> LatestEntry(ReadIndex, order[k])]
  BY <1>3 DEF UniqueRuns
<1> HIDE DEF order, unique
<1>5. Len(unique) = Len(order)
  BY <1>3, <1>4
<1>6. \A n \in 0..(Len(unique) - 1) :
        /\ Len(order) - n \in 1..Len(order)
        /\ ResolveLastN(n) = LatestEntry(ReadIndex, order[Len(order) - n])
  <2> TAKE n \in 0..(Len(unique) - 1)
  <2>1. Len(order) - n \in 1..Len(order)
    BY <1>3, <1>5
  <2> QED
    BY <1>4, <1>5, <2>1 DEF ResolveLastN, unique
<1>7. \A k \in 1..Len(order) : LatestEntry(ReadIndex, order[k]).run = order[k]
  <2> TAKE k \in 1..Len(order)
  <2>1. PICK i \in 1..Len(ReadIndex) : order[k] = ReadIndex[i].run
    BY <1>2 DEF Orders
  <2> QED
    BY <1>1, <2>1, LatestEntryIsOfRun
<1>8. ASSUME NEW r \in Runs, Listed(r)
      PROVE  \E n \in 0..(Len(unique) - 1) :
               /\ ResolveLastN(n) = ResolveByID(r)
               /\ \A m \in 0..(Len(unique) - 1) : ResolveLastN(m).run = r => m = n
  <2>1. /\ LatestEntry(ReadIndex, r) = ResolveByID(r)
        /\ \E i \in 1..Len(ReadIndex) : ReadIndex[i].run = r
    BY <1>8, LatestEntryIsResolved
  <2>2. PICK k \in 1..Len(order) : order[k] = r
    BY <1>2, <2>1 DEF Orders
  <2> DEFINE n == Len(order) - k
  <2>3. n \in 0..(Len(unique) - 1) /\ Len(order) - n = k
    BY <1>3, <1>5
  <2>4. ResolveLastN(n) = ResolveByID(r)
    BY <1>6, <2>1, <2>2, <2>3
  <2>5. ASSUME NEW m \in 0..(Len(unique) - 1), ResolveLastN(m).run = r PROVE m = n
    <3>1. order[Len(order) - m] = r /\ Len(order) - m \in 1..Len(order)
      BY <1>6, <1>7, <2>5
    <3>2. Len(order) - m = k
      BY <1>2, <2>2, <3>1 DEF Orders
    <3>3. m \in Int /\ k \in Int /\ Len(order) \in Int
      BY <1>3, <1>5
    <3>4. \A a, b, c \in Int : a - b = c => b = a - c
      OBVIOUS
    <3>5. m = Len(order) - k
      BY <3>2, <3>3, <3>4
    <3> QED
      BY <3>5
  <2> QED
    BY <2>3, <2>4, <2>5
<1> QED
  BY <1>8 DEF RefsAgree, unique

\* Every listed run has one last-N, which finds the entry its id finds, however
\* many runs and entries there are, in whatever order, and whichever lines do
\* not parse (runref.go:42-92).
THEOREM RefsFindTheRun == Spec => []RefsAgree
<1>1. TypeOK => RefsAgree
  BY IndexHasOneRefEach DEF TypeOK
<1> QED
  BY <1>1, TypeCorrect, PTL

-----------------------------------------------------------------------------
(* The index as a log.                                                     *)

\* What the loop of ReadIndex makes of the lines s is out.
IsReading(turn, s) ==
  /\ turn \in [0..Len(s) -> Seq(Entries)]
  /\ turn[0] = <<>>
  /\ \A i \in 1..Len(s) : turn[i] = Read(turn[i - 1], s[i])

ReadInv == LockInv /\ \E turn : IsReading(turn, index) /\ ReadIndex = turn[Len(index)]

\* Two readings agree as long as the lines do.
LEMMA ReadingsAgree ==
  ASSUME NEW s \in Seq(Entries), NEW t \in Seq(Entries), NEW n \in Nat, n <= Len(s), n <= Len(t),
         \A i \in 1..n : s[i] = t[i],
         NEW u, IsReading(u, s), NEW v, IsReading(v, t)
  PROVE  u[n] = v[n]
<1> DEFINE Agreed == {i \in Nat : i <= n => u[i] = v[i]}
<1>0. Len(s) \in Nat /\ Len(t) \in Nat
  BY LenProperties
<1>1. 0 \in Agreed
  BY DEF IsReading
<1>2. ASSUME NEW i \in Nat, i \in Agreed PROVE i + 1 \in Agreed
  <2> SUFFICES ASSUME i + 1 <= n PROVE u[i + 1] = v[i + 1]
    OBVIOUS
  <2>1. /\ i + 1 \in 1..n /\ i + 1 \in 1..Len(s) /\ i + 1 \in 1..Len(t)
        /\ (i + 1) - 1 = i /\ i <= n
    BY <1>0
  <2>2. u[i + 1] = Read(u[i], s[i + 1]) /\ v[i + 1] = Read(v[i], t[i + 1])
    BY <2>1 DEF IsReading
  <2> QED
    BY <1>2, <2>1, <2>2
<1>3. n \in Agreed
  <2> HIDE DEF Agreed
  <2> QED
    BY <1>1, <1>2, SetInduction
<1> QED
  BY <1>3

\* A line that is added is read last, if it can be read.
LEMMA ReadingOfAdded ==
  ASSUME NEW s \in Seq(Entries), NEW e \in Entries,
         NEW u, IsReading(u, s), NEW v, IsReading(v, Append(s, e))
  PROVE  v[Len(Append(s, e))] = Read(u[Len(s)], e)
<1> DEFINE t == Append(s, e)
<1>1. /\ t \in Seq(Entries) /\ Len(s) \in Nat /\ Len(t) = Len(s) + 1
      /\ \A i \in 1..Len(s) : t[i] = s[i]
      /\ t[Len(s) + 1] = e
  BY AddedLine
<1>2. IsReading(v, t)
  OBVIOUS
<1> HIDE DEF t
<1>3. u[Len(s)] = v[Len(s)]
  BY <1>1, <1>2, ReadingsAgree
<1>4. Len(s) + 1 \in 1..Len(t) /\ (Len(s) + 1) - 1 = Len(s)
  BY <1>1
<1>5. v[Len(s) + 1] = Read(v[Len(s)], t[Len(s) + 1])
  BY <1>2, <1>4 DEF IsReading
<1>6. v[Len(t)] = Read(u[Len(s)], e)
  BY <1>1, <1>3, <1>5
<1> QED
  BY <1>6 DEF t

\* A line that is spoilt is not read any more.
LEMMA ReadingOfSpoilt ==
  ASSUME NEW s \in Seq(Entries), s # <<>>,
         NEW u, IsReading(u, s), NEW v, IsReading(v, [s EXCEPT ![Len(s)].state = "garbled"])
  PROVE  \/ v[Len(s)] = u[Len(s)]
         \/ u[Len(s)] = Append(v[Len(s)], Last(u[Len(s)]))
<1> DEFINE t == [s EXCEPT ![Len(s)].state = "garbled"]
           n == Len(s)
<1>1. /\ t \in Seq(Entries) /\ Len(t) = n /\ n \in Nat
      /\ \A i \in 1..n : i # n => t[i] = s[i]
      /\ t[n].state = "garbled"
  BY SpoiltLine
<1>2. IsReading(v, t)
  OBVIOUS
<1>3. n # 0
  BY EmptySeq
<1> HIDE DEF t
<1>4. n - 1 \in Nat /\ n - 1 <= n /\ n \in 1..n /\ n - 1 \in 0..n
  BY <1>1, <1>3
<1>5. \A i \in 1..(n - 1) : s[i] = t[i]
  BY <1>1
<1>6. u[n - 1] = v[n - 1]
  <2>1. n - 1 <= Len(s) /\ n - 1 <= Len(t)
    BY <1>1, <1>4
  <2> HIDE DEF n
  <2> QED
    BY <1>1, <1>2, <1>4, <1>5, <2>1, ReadingsAgree
<1>7. /\ u[n] = Read(u[n - 1], s[n]) /\ v[n] = Read(v[n - 1], t[n])
      /\ u[n - 1] \in Seq(Entries)
  BY <1>1, <1>2, <1>4 DEF IsReading
<1>8. v[n] = u[n - 1]
  BY <1>1, <1>6, <1>7 DEF Read
<1>9. CASE s[n].state = "garbled"
  BY <1>7, <1>8, <1>9 DEF Read
<1>10. CASE s[n].state # "garbled"
  <2>1. u[n] = Append(u[n - 1], s[n])
    BY <1>7, <1>10 DEF Read
  <2>2. s[n] \in Entries
    BY <1>4, LenProperties
  <2>3. Last(u[n]) = s[n]
    <3>1. Last(u[n]) = Append(u[n - 1], s[n])[Len(Append(u[n - 1], s[n]))]
      BY <2>1 DEF Last
    <3>2. /\ Len(Append(u[n - 1], s[n])) = Len(u[n - 1]) + 1
          /\ Append(u[n - 1], s[n])[Len(u[n - 1]) + 1] = s[n]
      BY <1>7, <2>2, AddedLine
    <3> QED
      BY <3>1, <3>2
  <2> QED
    BY <1>8, <2>1, <2>3
<1> QED
  BY <1>9, <1>10

\* What readers get after a step.
LEMMA LogStep ==
  ASSUME ReadInv, ReadInv', [Next]_vars, index' # index
  PROVE  \/ UNCHANGED ReadIndex
         \/ /\ lock \in Writers
            /\ ReadIndex' =
                 Append(ReadIndex, [by |-> lock, run |-> target[lock], state |-> data[lock]])
         \/ cut /\ ReadIndex = Append(ReadIndex', Last(ReadIndex))
<1>1. PICK w \in Writers : AppendLine(w)
  BY DEF Next, vars, Step, OpenTmp, FillTmp, RenameTmp, LockIndex, SeekIndex, FinishRun,
         ReadOwnStatus, Reconcile, EnsureIndexState, Crash, indexVars
<1>2. LockInv /\ index \in Seq(Entries) /\ index' \in Seq(Entries) /\ (cut => index # <<>>)
  BY DEF ReadInv, LockInv, TypeOK
<1>3. lock = w
  BY <1>1, <1>2 DEF AppendLine, LockInv
<1>4. PICK e, line \in Entries :
        /\ e = [by |-> w, run |-> target[w], state |-> data[w]]
        /\ line = e \/ line = [e EXCEPT !.state = "garbled"]
        /\ index' = IF cut THEN [index EXCEPT ![Len(index)].state = "garbled"]
                    ELSE Append(index, line)
  BY <1>1, <1>2, AppendLineEffect
<1>5. PICK u : IsReading(u, index) /\ ReadIndex = u[Len(index)]
  BY DEF ReadInv
<1>6. PICK v : IsReading(v, index') /\ ReadIndex' = v[Len(index')]
  BY DEF ReadInv
<1>7. CASE cut
  <2>1. index' = [index EXCEPT ![Len(index)].state = "garbled"] /\ index # <<>>
    BY <1>2, <1>4, <1>7
  <2>2. Len(index') = Len(index)
    BY <1>2, <2>1, SpoiltLine
  <2>3. \/ v[Len(index)] = u[Len(index)]
        \/ u[Len(index)] = Append(v[Len(index)], Last(u[Len(index)]))
    BY <1>2, <1>5, <1>6, <2>1, ReadingOfSpoilt
  <2> QED
    BY <1>5, <1>6, <1>7, <2>2, <2>3
<1>8. CASE ~cut
  <2>1. index' = Append(index, line)
    BY <1>4, <1>8
  <2>2. ReadIndex' = Read(ReadIndex, line)
    BY <1>2, <1>5, <1>6, <2>1, ReadingOfAdded
  <2>3. CASE line = e
    BY <1>3, <1>4, <2>2, <2>3 DEF Read
  <2>4. CASE line = [e EXCEPT !.state = "garbled"]
    <3>1. line.state = "garbled"
      BY <2>4 DEF Entries
    <3> QED
      BY <2>2, <3>1 DEF Read
  <2> QED
    BY <1>4, <2>3, <2>4
<1> QED
  BY <1>7, <1>8

\* To its readers the index is a log, whatever overlaps, dies or fails: each
\* append adds one entry at its end or none, and takes away no other than a last
\* one that was left without its newline (index.go:57-93, 111-113).
THEOREM IndexReadsAsLog == Spec => IndexIsLog
<1>1. LockInv => ReadInv
  <2> SUFFICES ASSUME LockInv PROVE ReadInv
    OBVIOUS
  <2>1. index \in Seq(Entries)
    BY DEF LockInv, TypeOK
  <2> QED
    BY <2>1, ReadIndexIsLoop DEF ReadInv, IsReading
<1>2. ReadInv /\ ReadInv' /\ [Next]_vars =>
        [\/ UNCHANGED ReadIndex
         \/ /\ lock \in Writers
            /\ ReadIndex' =
                 Append(ReadIndex, [by |-> lock, run |-> target[lock], state |-> data[lock]])
         \/ cut /\ ReadIndex = Append(ReadIndex', Last(ReadIndex))]_index
  BY LogStep
<1> QED
  BY <1>1, <1>2, InitLockInv, LockStep, PTL DEF Spec, IndexIsLog
=============================================================================
