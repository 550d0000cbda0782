------------------------------ MODULE RunFiles ------------------------------
(***************************************************************************)
(* The two kinds of file through which tessariq processes talk, at the     *)
(* level of their system calls:                                            *)
(*                                                                         *)
(*  - status.json of each run: WriteStatus fills status.json.tmp, a name   *)
(*    all its writers share, and renames it (internal/runner/status.go);   *)
(*  - index.jsonl of the repository: AppendIndex adds a line under flock,  *)
(*    ReadIndex skips what it cannot parse (internal/run/index.go).        *)
(*                                                                         *)
(* The writers are the supervisor of each run and the reconcilers, each of *)
(* which makes one call of ReconcileRun.  Module RunLifecycle takes each   *)
(* write as one step; here are the steps inside, what a crash or a full    *)
(* disk leaves of them, and what the next reader makes of that.            *)
(* A definition whose name extends that of the one below it is a faulty    *)
(* variant, kept for the mutation runs.                                    *)
(***************************************************************************)
EXTENDS SequencesExt

CONSTANTS
  Runs,         \* the runs; each stands for its supervisor as well
  Reconcilers,  \* the calls of ReconcileRun
  Nobody,       \* the holder of a free lock
  Overlapping,  \* may a reconciler work on a run beside other writers?
  Faults        \* subset of {"crash", "full"}

ASSUME WritersAssumption == Runs \cap Reconcilers = {} /\ Nobody \notin Runs \cup Reconcilers
ASSUME OverlappingAssumption == Overlapping \in BOOLEAN
ASSUME FaultsAssumption == Faults \subseteq {"crash", "full"}

Writers == Runs \cup Reconcilers

Outcomes == {"success", "failed"}
States == {"running"} \cup Outcomes

\* What a file may hold: a whole status, nothing, or bytes that do not parse.
Contents == {"absent", "empty", "torn"} \cup States

VARIABLES
  pc,      \* what each writer does next
  target,  \* the run each writer works on
  data,    \* the state each writer writes
  final,   \* a supervisor is in its second round, the terminal one
  fd,      \* the file each writer's descriptor is open on, by current name
  offset,  \* where each writer's descriptor on the index stands, in lines
  json,    \* status.json of each run
  tmp,     \* status.json.tmp of each run
  index,   \* the lines of index.jsonl
  cut,     \* the last line has no newline
  lock,    \* who holds the flock on the index
  acked    \* the appends that have returned without an error

vars == <<pc, target, data, final, fd, offset, json, tmp, index, cut, lock, acked>>
statusVars == <<fd, json, tmp>>
indexVars == <<offset, index, cut, lock, acked>>

Pcs == {"idle", "open", "fill", "rename", "read", "lock", "seek", "append", "done", "failed",
        "crashed"}
Over == {"done", "failed", "crashed"}

Entries == [by : Writers, run : Runs, state : States \cup {"garbled"}]

TypeOK ==
  /\ pc \in [Writers -> Pcs]
  /\ target \in [Writers -> Runs]
  /\ data \in [Writers -> States]
  /\ final \in [Runs -> BOOLEAN]
  /\ fd \in [Writers -> {"none", "tmp", "json", "unlinked"}]
  /\ offset \in [Writers -> Nat]
  /\ json \in [Runs -> Contents]
  /\ tmp \in [Runs -> Contents]
  /\ index \in Seq(Entries)
  /\ cut \in BOOLEAN
  /\ lock \in Writers \cup {Nobody}
  /\ acked \subseteq Entries

Init ==
  /\ pc = [w \in Writers |-> IF w \in Runs THEN "lock" ELSE "idle"]
  /\ target \in [Writers -> Runs]
  /\ \A r \in Runs : target[r] = r
  /\ data = [w \in Writers |-> "running"]
  /\ final = [r \in Runs |-> FALSE]
  /\ fd = [w \in Writers |-> "none"]
  /\ offset = [w \in Writers |-> 0]
  /\ json = [r \in Runs |-> "absent"]
  /\ tmp = [r \in Runs |-> "absent"]
  /\ index = <<>>
  /\ cut = FALSE
  /\ lock = Nobody
  /\ acked = {}

Goto(w, label) == pc' = [pc EXCEPT ![w] = label]

-----------------------------------------------------------------------------
(* Reading the index.                                                      *)

\* The lines that parse, and those of them that are of run r.
ReadLines == {i \in DOMAIN index : index[i].state # "garbled"}
LinesOf(r) == {i \in ReadLines : index[i].run = r}

\* The entries ReadIndex returns.
ReadIndex ==
  FoldLeft(LAMBDA entries, e : IF e.state = "garbled" THEN entries ELSE Append(entries, e),
           <<>>, index)

\* uniqueRuns: each run once, in the order of first appearance, with its
\* latest entry.
LatestEntryIsFirst(entries, r) ==
  entries[CHOOSE i \in DOMAIN entries :
            entries[i].run = r /\ \A j \in 1..(i - 1) : entries[j].run # r]
LatestEntry(entries, r) ==
  entries[CHOOSE i \in DOMAIN entries :
            entries[i].run = r /\ \A j \in (i + 1)..Len(entries) : entries[j].run # r]
FirstAppearances(entries) ==
  FoldLeft(LAMBDA order, e : IF Contains(order, e.run) THEN order ELSE Append(order, e.run),
           <<>>, entries)
UniqueRuns(entries) ==
  LET order == FirstAppearances(entries)
  IN  [k \in DOMAIN order |-> LatestEntry(entries, order[k])]

Listed(r) == LinesOf(r) # {}

\* resolveByID scans backwards for the run.
ResolveByID(r) == index[Max(LinesOf(r))]

\* resolveLastN, for an n that is not too large.
ResolveLastN(n) == LET unique == UniqueRuns(ReadIndex) IN unique[Len(unique) - n]

-----------------------------------------------------------------------------
(* WriteStatus.                                                            *)

\* os.WriteFile opens the temporary file, creating or truncating it.
OpenTmp(w) ==
  /\ pc[w] = "open"
  /\ tmp' = [tmp EXCEPT ![target[w]] = "empty"]
  /\ fd' = [fd EXCEPT ![w] = "tmp"]
  /\ Goto(w, "fill")
  /\ UNCHANGED <<target, data, final, json, indexVars>>

\* Where WriteStatus has failed: the supervisor goes on to its index entry
\* from whatever is in status.json, a reconciler gives up.
WriteFailed(w) == Goto(w, IF w \in Runs THEN "read" ELSE "failed")

\* It then writes from the start of the file its descriptor is open on,
\* whatever that file is called by now.  Over the bytes of another writer a
\* shorter text leaves a tail of the longer one; a full disk leaves a part.
Overlay(old, new) == IF old \in {"empty", new} THEN {new} ELSE {new, "torn"}

FillTmp(w) ==
  LET r == target[w] IN
  /\ pc[w] = "fill"
  /\ \E failing \in {FALSE, "full" \in Faults} :
       /\ \E bytes \in IF failing THEN {"torn"}
                       ELSE Overlay(IF fd[w] = "json" THEN json[r] ELSE tmp[r], data[w]) :
            /\ tmp' = IF fd[w] = "tmp" THEN [tmp EXCEPT ![r] = bytes] ELSE tmp
            /\ json' = IF fd[w] = "json" THEN [json EXCEPT ![r] = bytes] ELSE json
       /\ IF failing THEN WriteFailed(w) ELSE Goto(w, "rename")
  /\ fd' = [fd EXCEPT ![w] = "none"]
  /\ UNCHANGED <<target, data, final, indexVars>>

\* After os.Rename an open descriptor is on the file under its new name.
Renamed(r) ==
  fd' = [w \in Writers |->
           CASE target[w] = r /\ fd[w] = "tmp" -> "json"
             [] target[w] = r /\ fd[w] = "json" -> "unlinked"
             [] OTHER -> fd[w]]

\* os.Rename fails when another writer has renamed the file already.
RenameTmp(w) ==
  LET r == target[w] IN
  /\ pc[w] = "rename"
  /\ IF tmp[r] = "absent"
     THEN WriteFailed(w) /\ UNCHANGED statusVars
     ELSE /\ json' = [json EXCEPT ![r] = tmp[r]]
          /\ tmp' = [tmp EXCEPT ![r] = "absent"]
          /\ Renamed(r)
          /\ Goto(w, IF w \in Reconcilers \/ final[w] THEN "read" ELSE "idle")
  /\ UNCHANGED <<target, data, final, indexVars>>

-----------------------------------------------------------------------------
(* AppendIndex.                                                            *)

\* flock(LOCK_EX) waits for the holder.
LockIndexAtOnce(w) ==
  /\ pc[w] = "lock"
  /\ lock' = w
  /\ Goto(w, "seek")
  /\ UNCHANGED <<target, data, final, statusVars, offset, index, cut, acked>>
LockIndex(w) ==
  /\ pc[w] = "lock"
  /\ lock = Nobody
  /\ lock' = w
  /\ Goto(w, "seek")
  /\ UNCHANGED <<target, data, final, statusVars, offset, index, cut, acked>>

SeekIndexStart(w) ==
  /\ pc[w] = "seek"
  /\ offset' = [offset EXCEPT ![w] = 0]
  /\ Goto(w, "append")
  /\ UNCHANGED <<target, data, final, statusVars, index, cut, lock, acked>>
SeekIndex(w) ==
  /\ pc[w] = "seek"
  /\ offset' = [offset EXCEPT ![w] = Len(index)]
  /\ Goto(w, "append")
  /\ UNCHANGED <<target, data, final, statusVars, index, cut, lock, acked>>

\* The lines after a write of line e at offset k: it replaces what is there,
\* and after a line without a newline the two make one that does not parse.
Written(k, e) ==
  IF cut /\ k = Len(index)
  THEN [index EXCEPT ![k].state = "garbled"]
  ELSE SubSeq(index, 1, k) \o <<e>> \o SubSeq(index, k + 2, Len(index))

\* The supervisor returns to Run after its first entry and is done after the
\* second; a failed append is only a warning to it.
AfterAppend(w, failing) ==
  Goto(w, CASE w \in Runs -> IF final[w] THEN "done" ELSE "open"
            [] OTHER -> IF failing THEN "failed" ELSE "done")

AppendLine(w) ==
  LET e == [by |-> w, run |-> target[w], state |-> data[w]] IN
  /\ pc[w] = "append"
  /\ \/ /\ index' = Written(offset[w], e)
        /\ cut' = FALSE
        /\ acked' = acked \cup {e}
        /\ AfterAppend(w, FALSE)
     \/ /\ "full" \in Faults
        /\ \/ UNCHANGED <<index, cut>>
           \/ /\ \E bytes \in {e, [e EXCEPT !.state = "garbled"]} :  \* no newline, or less
                   index' = Written(offset[w], bytes)
              /\ cut' = TRUE
        /\ AfterAppend(w, TRUE)
        /\ UNCHANGED acked
  /\ offset' = [offset EXCEPT ![w] = 0]
  /\ lock' = Nobody
  /\ UNCHANGED <<target, data, final, statusVars>>

-----------------------------------------------------------------------------
(* The writers.                                                            *)

\* The run is over: Runner.Run writes the terminal status.
FinishRun(r) ==
  /\ r \in Runs
  /\ pc[r] = "idle"
  /\ \E o \in Outcomes : data' = [data EXCEPT ![r] = o]
  /\ final' = [final EXCEPT ![r] = TRUE]
  /\ Goto(r, "open")
  /\ UNCHANGED <<target, statusVars, indexVars>>

\* appendIndexEntry copies the state out of status.json; it skips the entry
\* when it cannot read it.
ReadOwnStatus(r) ==
  /\ r \in Runs
  /\ pc[r] = "read"
  /\ IF json[r] \in States
     THEN Goto(r, "lock") /\ data' = [data EXCEPT ![r] = json[r]]
     ELSE Goto(r, "done") /\ UNCHANGED data
  /\ final' = [final EXCEPT ![r] = TRUE]
  /\ UNCHANGED <<target, statusVars, indexVars>>

\* Nobody else writes the files of run r.
Quiet(r) ==
  \A w \in Writers :
    target[w] = r => pc[w] \in Over \/ (w \in Reconcilers /\ pc[w] = "idle")

\* ReconcileRun on a run the index lists.  A status.json that is missing or
\* does not parse ends it; a running one is replaced by the outcome it
\* infers, a terminal one is taken as it is.
ReconcileUnparsed(c) ==
  LET r == target[c] IN
  /\ c \in Reconcilers
  /\ pc[c] = "idle"
  /\ Listed(r)
  /\ Overlapping \/ Quiet(r)
  /\ Goto(c, IF json[r] = "running" THEN "open" ELSE "read")
  /\ data' = [data EXCEPT ![c] = IF json[r] = "running" THEN "failed" ELSE json[r]]
  /\ UNCHANGED <<target, final, statusVars, indexVars>>
ReconcileEnded(c) ==
  LET r == target[c] IN
  /\ c \in Reconcilers
  /\ pc[c] = "idle"
  /\ Listed(r)
  /\ Overlapping \/ Quiet(r)
  /\ Goto(c, IF json[r] \in States THEN "open" ELSE "failed")
  /\ data' = [data EXCEPT ![c] = "failed"]
  /\ UNCHANGED <<target, final, statusVars, indexVars>>
Reconcile(c) ==
  LET r == target[c] IN
  /\ c \in Reconcilers
  /\ pc[c] = "idle"
  /\ Listed(r)
  /\ Overlapping \/ Quiet(r)
  /\ CASE json[r] \in Outcomes ->
            Goto(c, "read") /\ data' = [data EXCEPT ![c] = json[r]]
       [] json[r] = "running" ->
            /\ Goto(c, "open")
            /\ \E o \in Outcomes : data' = [data EXCEPT ![c] = o]
       [] OTHER -> Goto(c, "failed") /\ UNCHANGED data
  /\ UNCHANGED <<target, final, statusVars, indexVars>>

\* ensureIndexState: nothing to do when the run's latest entry has the
\* state.  Others may append between this look and the append.
UpToDateIfListed(c) == Listed(target[c])
UpToDate(c) == Listed(target[c]) /\ ResolveByID(target[c]).state = data[c]

EnsureIndexState(c) ==
  /\ c \in Reconcilers
  /\ pc[c] = "read"
  /\ Goto(c, IF UpToDate(c) THEN "done" ELSE "lock")
  /\ UNCHANGED <<target, data, final, statusVars, indexVars>>

\* A process is killed: the kernel closes its files, which frees the lock.
Crash(w) ==
  /\ "crash" \in Faults
  /\ pc[w] \notin Over
  /\ w \in Reconcilers => pc[w] # "idle"
  /\ Goto(w, "crashed")
  /\ fd' = [fd EXCEPT ![w] = "none"]
  /\ lock' = IF lock = w THEN Nobody ELSE lock
  /\ offset' = [offset EXCEPT ![w] = 0]
  /\ data' = [data EXCEPT ![w] = "running"]
  /\ UNCHANGED <<target, final, json, tmp, index, cut, acked>>

Step(w) ==
  \/ OpenTmp(w) \/ FillTmp(w) \/ RenameTmp(w)
  \/ LockIndex(w) \/ SeekIndex(w) \/ AppendLine(w)
  \/ FinishRun(w) \/ ReadOwnStatus(w)
  \/ Reconcile(w) \/ EnsureIndexState(w)

Next == \E w \in Writers : Step(w) \/ Crash(w)

Spec == Init /\ [][Next]_vars

-----------------------------------------------------------------------------
(* Properties, of runs worked on by one process at a time.                 *)

\* A reader of status.json finds no file or a whole one, also after crashes
\* and short writes (status.go:87).
StatusIsWhole == \A r \in Runs : json[r] \notin {"empty", "torn"}

\* To a reader of its status.json each run keeps the promise of module
\* RunRecord: it begins once and ends once, although the file is replaced by
\* steps, by several processes, any of which may die or fail on the way
\* (status.go:86-105, reconcile.go:66).
Record(r) == INSTANCE RunRecord WITH
  state <- IF json[r] = "absent" THEN "none" ELSE json[r],
  blocked <- FALSE,
  tree <- "kept",
  failed <- FALSE,
  promoted <- "none"

StatusKeepsRecord ==
  /\ \A r \in Runs : Record(r)!Init
  /\ [][\A r \in Runs : [Record(r)!Next]_(Record(r)!vars)]_json

\* Concurrent appends lose nothing: an entry that was written without an
\* error is read back, unless a line left without its newline has swallowed
\* it, and each such line swallows one (index.go:57-58, 111-113).
Lost == {e \in acked : \A i \in ReadLines : index[i] # e}
Garbled == {i \in DOMAIN index : index[i].state = "garbled"}
LossIsBounded == Cardinality(Lost) <= Cardinality(Garbled)

\* To its readers the index is a log: what they read grows by one entry, that
\* of the holder of the lock, at its end, and nothing goes away but a last
\* entry whose newline is missing (index.go:57-93, 111-113).
IndexIsLog ==
  [][\/ UNCHANGED ReadIndex
     \/ /\ lock \in Writers
        /\ ReadIndex' =
             Append(ReadIndex, [by |-> lock, run |-> target[lock], state |-> data[lock]])
     \/ cut /\ ReadIndex = Append(ReadIndex', Last(ReadIndex))]_index

\* After ReconcileRun the index and status.json name the same state, whoever
\* died before it and wherever (reconcile.go:66, 125).
ReconciledAgrees ==
  Garbled = {} =>
    \A c \in Reconcilers :
      pc[c] = "done" /\ Quiet(target[c]) => ResolveByID(target[c]).state = json[target[c]]

\* Every listed run has one last-N, which finds the entry its id finds
\* (runref.go:42-92).
RefsAgree ==
  LET entries == UniqueRuns(ReadIndex) IN
  \A r \in Runs :
    Listed(r) =>
      \E n \in 0..(Len(entries) - 1) :
        /\ ResolveLastN(n) = ResolveByID(r)
        /\ \A m \in 0..(Len(entries) - 1) : ResolveLastN(m).run = r => m = n

=============================================================================
