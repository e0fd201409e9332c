---------------------------- MODULE ClioSyncProofs ----------------------------
(***************************************************************************)
(* Whatever runs interleave and whatever fails, syncs keep the edits that  *)
(* were made in Clio and create no more tasks there than they must, for    *)
(* any number of manual syncs, edits and faults.                           *)
(***************************************************************************)
EXTENDS ClioSync, FiniteSetTheorems, SequenceTheorems, TLAPS

\* Steps of a run that has found, or made, the Clio task it is about.
Linked == {"detect", "compare", "mark", "relink", "fetch", "force", "review", "update"}

\* A run that is about to send content has read some, and one that has found or
\* made a Clio task knows its id.
Known ==
    \A r \in Runs :
        /\ pc[r] \in Linked \cup {"link", "create", "save"} => mem[r].content > 0
        /\ pc[r] \in Linked \cup {"save"} => mem[r].ref.id > 0
        /\ pc[r] \in Linked => link.ref.id > 0

\* No link has a token but no Clio task.
LinkReal == link.ref.id = 0 => link.ref = NoRef

\* Only a run that fetched it has the etag of what was edited in Clio.  It patches
\* only on behalf of a person, and else saves nothing.
Kept ==
    \A k \in DOMAIN clio : clio[k].foreign =>
        /\ ~(link.ref.id = k /\ link.ref.current)
        /\ \A r \in Runs : mem[r].ref.id = k /\ mem[r].ref.current =>
              pc[r] \in {"review", "fail", "end"} \/ (pc[r] = "force" /\ human)

Saving   == {r \in Runs : pc[r] = "save"}
Creating == {r \in Runs : pc[r] = "create"}

\* Until a run saves the link, each Clio task is one that a run is about to save or
\* one that a fault has cost; after that only the runs that read no link create.
Owed ==
    IF link.ref.id = 0 THEN Len(clio) <= Cardinality(Saving) + faults
                       ELSE Len(clio) + Cardinality(Creating) <= Cardinality(Runs) + faults

\* Every version but the first comes from an edit.
VersionEdited == version <= edits + 1

SyncInv == TypeOK /\ VersionEdited /\ Known /\ LinkReal /\ Kept

Statuses == {"none", "synced", "conflict", "failed"}
Memory   == [content : 0..version, ref : Refs, look : Refs, conflict : BOOLEAN]

\* At the start nothing is known, linked or edited.
LEMMA InitSyncInv == Init => SyncInv
  <1> SUFFICES ASSUME Init PROVE SyncInv
    OBVIOUS
  <1>1. clio \in Seq([content : 1..version, foreign : BOOLEAN]) /\ Len(clio) = 0 /\ DOMAIN clio = {}
    BY EmptySeq DEF Init
  <1>2. NoRef \in Refs
    BY <1>1 DEF NoRef, Refs
  <1>3. version = 1 /\ NoMem \in Memory
    BY <1>2 DEF Init, NoMem, Memory
  <1>4. TypeOK
    <2>1. pc \in [Runs -> Steps] /\ mem \in [Runs -> Memory]
      BY <1>3 DEF Init, Steps
    <2>2. link \in [ref : Refs, status : Statuses]
      BY <1>2 DEF Init, Statuses
    <2>3. 1 \in 1..(MaxEdits + 1) /\ 0 \in 0..MaxEdits /\ 0 \in 0..MaxFaults
      BY BoundAssumption
    <2> QED
      BY <1>1, <2>1, <2>2, <2>3 DEF Init, TypeOK, Memory, Statuses
  <1> QED
    BY <1>1, <1>4 DEF Init, SyncInv, VersionEdited, Known, LinkReal, Kept, Linked

\* Run r, which now knows m, goes on to p.
Goes(r, p, m) == pc' = [pc EXCEPT ![r] = p] /\ mem' = [mem EXCEPT ![r] = m]

\* It may be at p with what it knows.
Entitled(p, m) ==
    /\ p \in Steps /\ m \in Memory
    /\ p \in Linked \cup {"link", "create", "save"} => m.content > 0
    /\ p \in Linked \cup {"save"} => m.ref.id > 0
    /\ p \in Linked => link.ref.id > 0
    /\ m.ref.current => \/ p \in {"review", "fail", "end"}
                        \/ p = "force" /\ human
                        \/ \A k \in DOMAIN clio : clio[k].foreign => m.ref.id # k

\* Nothing else happens but to the job, the reviews and the counters.
Calm ==
    /\ UNCHANGED <<version, human, clio, edits>>
    /\ job' \in {"absent", "wait", "active", "done"} /\ reviews' \subseteq {TaskId}
    /\ faults' \in 0..MaxFaults

\* A run that knows m goes on to p; the tasks, here and in Clio, stay as they are,
\* and the link keeps its token.
LEMMA QuietMove ==
  ASSUME SyncInv, NEW r \in Runs, NEW p, NEW m, Goes(r, p, m), Entitled(p, m), Calm,
         link' \in [ref : Refs, status : Statuses], link'.ref = link.ref
  PROVE  SyncInv'
  <1>1. /\ pc \in [Runs -> Steps] /\ mem \in [Runs -> Memory]
        /\ Memory' = Memory /\ Refs' = Refs
    BY DEF SyncInv, TypeOK, Memory, Refs, Calm
  <1>2. /\ pc'[r] = p /\ mem'[r] = m
        /\ \A o \in Runs : o # r => pc'[o] = pc[o] /\ mem'[o] = mem[o]
        /\ pc' \in [Runs -> Steps] /\ mem' \in [Runs -> Memory]
    BY <1>1 DEF Goes, Entitled
  <1>3. TypeOK'
    BY <1>1, <1>2 DEF SyncInv, TypeOK, Memory, Statuses, Calm
  <1>4. Known'
    BY <1>2 DEF SyncInv, Known, Entitled
  <1>5. LinkReal'
    BY DEF SyncInv, LinkReal, NoRef
  <1>6. Kept'
    BY <1>2 DEF SyncInv, Kept, Entitled, Calm
  <1>7. VersionEdited'
    BY DEF SyncInv, VersionEdited, Calm
  <1> QED
    BY <1>3, <1>4, <1>5, <1>6, <1>7 DEF SyncInv

\* What an unchanged run knows.
LEMMA Shape ==
  ASSUME SyncInv, NEW r \in Runs
  PROVE  /\ pc[r] \in Steps /\ mem[r] \in Memory /\ link \in [ref : Refs, status : Statuses]
         /\ NoMem \in Memory /\ NoRef \in Refs /\ version \in Nat \ {0} /\ Len(clio) \in Nat
         /\ MaxEdits \in Nat /\ MaxFaults \in Nat
         /\ pc = [pc EXCEPT ![r] = pc[r]] /\ mem = [mem EXCEPT ![r] = mem[r]]
         /\ DOMAIN clio = 1..Len(clio)
  <1>1. /\ pc[r] \in Steps /\ mem[r] \in Memory /\ link \in [ref : Refs, status : Statuses]
        /\ pc = [pc EXCEPT ![r] = pc[r]] /\ mem = [mem EXCEPT ![r] = mem[r]]
    BY DEF SyncInv, TypeOK, Memory, Statuses
  <1>2. version \in Nat \ {0} /\ MaxEdits \in Nat /\ MaxFaults \in Nat
    BY BoundAssumption DEF SyncInv, TypeOK
  <1>3. Len(clio) \in Nat /\ DOMAIN clio = 1..Len(clio)
    BY LenProperties DEF SyncInv, TypeOK
  <1>4. NoRef \in Refs
    BY <1>3 DEF NoRef, Refs
  <1>5. NoMem \in Memory
    BY <1>2, <1>4 DEF NoMem, Memory
  <1> QED
    BY <1>1, <1>2, <1>3, <1>4, <1>5

\* Requests, starts and ends, and what a run reads or decides on its way.
LEMMA ReadInv ==
  ASSUME SyncInv, NEW r \in Runs, UNCHANGED <<edits, faults>>,
         \/ RequestSync \/ (r = Worker /\ StartWorker) \/ StartManual(r) \/ End(r)
         \/ ReadTask(r) \/ ReadLink(r) \/ Detect(r) \/ Compare(r) \/ MarkConflict(r)
         \/ Relink(r) \/ Fetch(r) \/ CreateReview(r) \/ PatchRefused(r) \/ MarkFailed(r)
  PROVE  SyncInv'
  <1>0. /\ pc[r] \in Steps /\ mem[r] \in Memory /\ link \in [ref : Refs, status : Statuses]
        /\ NoMem \in Memory /\ version \in Nat \ {0}
        /\ pc = [pc EXCEPT ![r] = pc[r]] /\ mem = [mem EXCEPT ![r] = mem[r]]
    BY Shape
  <1>1. Calm
    BY BoundAssumption DEF SyncInv, TypeOK, RequestSync, StartWorker, StartManual, End, ReadTask,
       ReadLink, Detect, Compare, MarkConflict, Relink, Fetch, CreateReview, PatchRefused,
       MarkFailed, Calm
  <1>2. link' \in [ref : Refs, status : Statuses] /\ link'.ref = link.ref
    BY <1>0 DEF RequestSync, StartWorker, StartManual, End, ReadTask, ReadLink, Detect, Compare,
       MarkConflict, Relink, Fetch, CreateReview, PatchRefused, MarkFailed, Statuses
  <1>3. Entitled(pc[r], mem[r])
    BY <1>0 DEF SyncInv, Known, Kept, Entitled
  <1>4. link.ref.current => \A k \in DOMAIN clio : clio[k].foreign => link.ref.id # k
    BY DEF SyncInv, Kept
  <1>5. \E p, m : Goes(r, p, m) /\ Entitled(p, m)
    <2>1. CASE RequestSync
      <3>1. Goes(r, pc[r], mem[r])
        BY <1>0, <2>1 DEF Goes, RequestSync
      <3> QED
        BY <1>3, <3>1
    <2>2. CASE (r = Worker /\ StartWorker) \/ StartManual(r)
      <3>1. Goes(r, "task", mem[r]) /\ pc[r] = "idle"
        BY <1>0, <2>2 DEF Goes, StartWorker, StartManual
      <3>2. Entitled("task", mem[r])
        BY <1>3, <3>1 DEF Entitled, Linked, Steps
      <3> QED
        BY <3>1, <3>2
    <2>3. CASE End(r)
      <3>1. Goes(r, "idle", NoMem)
        BY <2>3 DEF Goes, End
      <3>2. Entitled("idle", NoMem)
        BY <1>0 DEF Entitled, Linked, Steps, NoMem, NoRef
      <3> QED
        BY <3>1, <3>2
    <2>4. CASE ReadTask(r)
      <3> DEFINE m == [NoMem EXCEPT !.content = version]
      <3>1. Goes(r, "link", m)
        BY <2>4 DEF ReadTask, Know, Go, Goes
      <3>2. m \in Memory /\ m.content = version /\ m.ref = NoMem.ref
        BY <1>0 DEF Memory
      <3>3. ~NoMem.ref.current
        BY DEF NoMem, NoRef
      <3>4. m \in Memory /\ m.content > 0 /\ ~m.ref.current
        BY <1>0, <3>2, <3>3
      <3> HIDE DEF m
      <3>5. Entitled("link", m)
        BY <3>4 DEF Entitled, Linked, Steps
      <3> QED
        BY <3>1, <3>5
    <2>5. CASE ReadLink(r)
      <3> DEFINE m == [mem[r] EXCEPT !.ref = link.ref]
                 p == IF link.ref = NoRef THEN "create" ELSE "detect"
      <3>1. Goes(r, p, m) /\ pc[r] = "link"
        BY <2>5 DEF ReadLink, Know, Go, Goes
      <3>2. m \in Memory /\ m.content = mem[r].content /\ m.ref = link.ref
        BY <1>0 DEF Memory
      <3>3. p \in {"create", "detect"} /\ (p = "detect" => link.ref.id > 0)
        BY <1>0, Shape DEF SyncInv, LinkReal, Refs
      <3> HIDE DEF m, p
      <3>4. Entitled(p, m)
        BY <1>3, <1>4, <3>1, <3>2, <3>3 DEF Entitled, Linked, Steps
      <3> QED
        BY <3>1, <3>4
    <2>6. CASE Detect(r)
      <3> DEFINE m == [mem[r] EXCEPT !.look = link.ref]
      <3>1. Goes(r, "compare", m) /\ pc[r] = "detect"
        BY <2>6 DEF Detect, Know, Go, Goes
      <3>2. m \in Memory /\ m.content = mem[r].content /\ m.ref = mem[r].ref
        BY <1>0 DEF Memory
      <3> HIDE DEF m
      <3>3. Entitled("compare", m)
        BY <1>3, <3>1, <3>2 DEF Entitled, Linked, Steps
      <3> QED
        BY <3>1, <3>3
    <2>7. CASE Compare(r) \/ MarkConflict(r) \/ PatchRefused(r) \/ MarkFailed(r)
      <3>1. PICK p \in {"update", "mark", "relink", "fail", "end"} :
               /\ Goes(r, p, mem[r])
               /\ p \in {"update", "mark", "relink"} => pc[r] \in {"compare", "mark"}
        BY <1>0, <2>7 DEF Compare, MarkConflict, PatchRefused, MarkFailed, Go, Goes
      <3>2. Entitled(p, mem[r])
        BY <1>3, <3>1 DEF Entitled, Linked, Steps
      <3> QED
        BY <3>1, <3>2
    <2>8. CASE Relink(r)
      <3> DEFINE m == [mem[r] EXCEPT !.ref = link.ref, !.conflict = TRUE]
      <3>1. Goes(r, "fetch", m) /\ pc[r] = "relink"
        BY <2>8 DEF Relink, Know, Go, Goes
      <3>2. m \in Memory /\ m.content = mem[r].content /\ m.ref = link.ref
        BY <1>0 DEF Memory
      <3> HIDE DEF m
      <3>3. Entitled("fetch", m)
        BY <1>3, <1>4, <3>1, <3>2 DEF Entitled, Linked, Steps
      <3> QED
        BY <3>1, <3>3
    <2>9. CASE Fetch(r)
      <3> DEFINE m == [mem[r] EXCEPT !.content = version, !.ref.current = TRUE]
                 p == IF human THEN "force" ELSE "review"
      <3>1. Goes(r, p, m) /\ pc[r] = "fetch"
        BY <2>9 DEF Fetch, Know, Go, Goes
      <3> DEFINE fresh == [mem[r].ref EXCEPT !.current = TRUE]
      <3>2. fresh \in Refs /\ fresh.id = mem[r].ref.id
        BY <1>0 DEF Memory, Refs
      <3>3. m = [mem[r] EXCEPT !.content = version, !.ref = fresh]
        BY <1>0 DEF Memory
      <3> HIDE DEF fresh, m
      <3>4. m = [content |-> version, ref |-> fresh, look |-> mem[r].look,
                 conflict |-> mem[r].conflict]
        BY <1>0, <3>3 DEF Memory
      <3>5. m \in Memory /\ m.content > 0 /\ m.ref.id = mem[r].ref.id
        BY <1>0, <3>2, <3>4 DEF Memory
      <3>6. p \in {"force", "review"} /\ (p = "force" => human)
        OBVIOUS
      <3> HIDE DEF p
      <3>7. Entitled(p, m)
        BY <1>3, <3>1, <3>5, <3>6 DEF Entitled, Linked, Steps
      <3> QED
        BY <3>1, <3>7
    <2>10. CASE CreateReview(r)
      <3>1. PICK p \in {"end", "fail"} : Goes(r, p, mem[r])
        BY <1>0, <2>10 DEF CreateReview, Go, Goes
      <3>2. Entitled(p, mem[r])
        BY <1>3, <3>1 DEF Entitled, Linked, Steps
      <3> QED
        BY <3>1, <3>2
    <2> QED
      BY <2>1, <2>2, <2>3, <2>4, <2>5, <2>6, <2>7, <2>8, <2>9, <2>10
  <1> QED
    BY <1>1, <1>2, <1>5, QuietMove

\* A failed call and a dead run.
LEMMA FaultInv ==
  ASSUME SyncInv, NEW r \in Runs, CallFails(r) \/ Die(r)
  PROVE  SyncInv'
  <1>0. /\ pc[r] \in Steps /\ mem[r] \in Memory /\ link \in [ref : Refs, status : Statuses]
        /\ NoMem \in Memory
        /\ pc = [pc EXCEPT ![r] = pc[r]] /\ mem = [mem EXCEPT ![r] = mem[r]]
    BY Shape
  <1>1. Calm
    BY BoundAssumption DEF SyncInv, TypeOK, CallFails, Die, Fault, Calm
  <1>2. link' \in [ref : Refs, status : Statuses] /\ link'.ref = link.ref
    BY <1>0 DEF CallFails, Die
  <1>3. Entitled(pc[r], mem[r])
    BY <1>0 DEF SyncInv, Known, Kept, Entitled
  <1>4. \E p, m : Goes(r, p, m) /\ Entitled(p, m)
    <2>1. CASE CallFails(r)
      <3>1. PICK p \in {"update", "fail"} :
               /\ Goes(r, p, mem[r])
               /\ p = "update" => pc[r] \in {"compare", "mark"}
        BY <1>0, <2>1 DEF CallFails, Go, Goes
      <3>2. Entitled(p, mem[r])
        BY <1>3, <3>1 DEF Entitled, Linked, Steps
      <3> QED
        BY <3>1, <3>2
    <2>2. CASE Die(r)
      <3>1. Goes(r, "idle", NoMem)
        BY <2>2 DEF Goes, Die
      <3>2. Entitled("idle", NoMem)
        BY <1>0 DEF Entitled, Linked, Steps, NoMem, NoRef
      <3> QED
        BY <3>1, <3>2
    <2> QED
      BY <2>1, <2>2
  <1> QED
    BY <1>1, <1>2, <1>4, QuietMove

\* A new version of task k leaves what is known of the others.
LEMMA Ageing ==
  ASSUME SyncInv, NEW k
  PROVE  /\ MemAfter(k) \in [Runs -> Memory]
         /\ \A o \in Runs :
               /\ MemAfter(k)[o].content = mem[o].content
               /\ MemAfter(k)[o].ref.id = mem[o].ref.id
               /\ MemAfter(k)[o].ref.current => mem[o].ref.current /\ mem[o].ref.id # k
         /\ LinkAfter(k) \in [ref : Refs, status : Statuses]
         /\ LinkAfter(k).ref.id = link.ref.id
         /\ LinkAfter(k).ref.current => link.ref.current /\ link.ref.id # k
         /\ link.ref = NoRef => LinkAfter(k).ref = NoRef
  <1>1. ASSUME NEW ref \in Refs
        PROVE  /\ Old(ref, k) \in Refs /\ Old(ref, k).id = ref.id
               /\ Old(ref, k).current => ref.current /\ ref.id # k
               /\ ref = NoRef => Old(ref, k) = NoRef
    <2> DEFINE c == ref.current /\ ref.id # k
    <2>1. c \in BOOLEAN /\ ref.id \in 0..Len(clio) /\ Old(ref, k) = [id |-> ref.id, current |-> c]
      BY DEF Old, Refs
    <2>2. c => ref.current /\ ref.id # k
      OBVIOUS
    <2>3. ref = NoRef => c = FALSE
      BY DEF NoRef
    <2> HIDE DEF c
    <2>4. Old(ref, k).id = ref.id /\ Old(ref, k).current = c
      BY <2>1
    <2>5. Old(ref, k) \in Refs
      BY <2>1 DEF Refs
    <2>6. ASSUME ref = NoRef PROVE Old(ref, k) = NoRef
      <3>1. ref.id = 0 /\ c = FALSE
        BY <2>3, <2>6 DEF NoRef
      <3>2. Old(ref, k) = [id |-> 0, current |-> FALSE]
        BY <2>1, <3>1, Zenon
      <3> QED
        BY <3>2 DEF NoRef
    <2> QED
      BY <2>2, <2>4, <2>5, <2>6
  <1>2. ASSUME NEW o \in Runs
        PROVE  /\ MemAfter(k)[o] \in Memory /\ MemAfter(k)[o].content = mem[o].content
               /\ MemAfter(k)[o].ref = Old(mem[o].ref, k)
    <2>1. mem[o] \in Memory
      BY Shape
    <2>2. Old(mem[o].ref, k) \in Refs /\ Old(mem[o].look, k) \in Refs
      BY <1>1, <2>1 DEF Memory
    <2>3. MemAfter(k)[o] = [mem[o] EXCEPT !.ref = Old(mem[o].ref, k), !.look = Old(mem[o].look, k)]
      BY DEF MemAfter
    <2> QED
      BY <2>1, <2>2, <2>3 DEF Memory
  <1>3. MemAfter(k) \in [Runs -> Memory]
    BY <1>2 DEF MemAfter
  <1>4. link \in [ref : Refs, status : Statuses]
    BY DEF SyncInv, TypeOK, Statuses
  <1>5. Old(link.ref, k) \in Refs
    BY <1>1, <1>4
  <1>6. LinkAfter(k) \in [ref : Refs, status : Statuses] /\ LinkAfter(k).ref = Old(link.ref, k)
    BY <1>4, <1>5 DEF LinkAfter
  <1>7. \A o \in Runs : mem[o].ref \in Refs
    BY Shape DEF Memory
  <1> QED
    BY <1>1, <1>2, <1>3, <1>4, <1>6, <1>7

\* A PATCH that Clio accepts.
LEMMA PatchInv ==
  ASSUME SyncInv, NEW r \in Runs, NEW replied \in BOOLEAN, Patch(r, replied),
         faults' \in 0..MaxFaults, UNCHANGED edits
  PROVE  SyncInv'
  <1> DEFINE k == mem[r].ref.id
             c == [content |-> mem[r].content, foreign |-> FALSE]
  <1>0. /\ pc[r] \in Linked /\ mem[r] \in Memory /\ version \in Nat /\ Len(clio) \in Nat
        /\ DOMAIN clio = 1..Len(clio) /\ pc \in [Runs -> Steps]
    BY Shape DEF Patch, Linked, SyncInv, TypeOK
  <1>1. k \in 1..Len(clio) /\ c \in [content : 1..version, foreign : BOOLEAN]
    BY <1>0 DEF SyncInv, Known, Memory, Refs
  <1>2. /\ clio' \in Seq([content : 1..version, foreign : BOOLEAN]) /\ Len(clio') = Len(clio)
        /\ DOMAIN clio' = DOMAIN clio /\ ~clio'[k].foreign
        /\ \A j \in DOMAIN clio : j # k => clio'[j] = clio[j]
    <2>1. clio \in Seq([content : 1..version, foreign : BOOLEAN]) /\ clio' = [clio EXCEPT ![k] = c]
      BY DEF SyncInv, TypeOK, Patch
    <2>2. ~c.foreign
      OBVIOUS
    <2> HIDE DEF c, k
    <2> QED
      BY <1>0, <1>1, <2>1, <2>2, ExceptSeq
  <1>3. Refs' = Refs /\ Memory' = Memory
    BY <1>2 DEF Refs, Memory, Patch
  <1> HIDE DEF k, c
  <1>4. /\ link' = LinkAfter(k) /\ link' \in [ref : Refs, status : Statuses]
        /\ link'.ref.id = link.ref.id
        /\ link'.ref.current => link.ref.current /\ link.ref.id # k
        /\ link.ref = NoRef => link'.ref = NoRef
    BY Ageing DEF Patch, k
  <1>5. /\ mem' \in [Runs -> Memory] /\ mem'[r].ref.id = k /\ mem'[r].content = mem[r].content
        /\ \A o \in Runs \ {r} :
              /\ mem'[o].content = mem[o].content /\ mem'[o].ref.id = mem[o].ref.id
              /\ mem'[o].ref.current => mem[o].ref.current /\ mem[o].ref.id # k
    <2> DEFINE after == MemAfter(k)
               m     == [after[r] EXCEPT !.ref = [after[r].ref EXCEPT !.current = replied]]
    <2>1. mem' = [after EXCEPT ![r] = m]
      BY DEF Patch, k
    <2>2. /\ after \in [Runs -> Memory]
          /\ \A o \in Runs :
                /\ after[o].content = mem[o].content /\ after[o].ref.id = mem[o].ref.id
                /\ after[o].ref.current => mem[o].ref.current /\ mem[o].ref.id # k
      BY Ageing
    <2> HIDE DEF after
    <2>3. [after[r].ref EXCEPT !.current = replied] \in Refs
          /\ [after[r].ref EXCEPT !.current = replied].id = after[r].ref.id
      BY <2>2 DEF Memory, Refs
    <2>4. m \in Memory /\ m.ref.id = after[r].ref.id /\ m.content = after[r].content
      BY <2>2, <2>3 DEF Memory
    <2> HIDE DEF m
    <2> QED
      BY <2>1, <2>2, <2>4 DEF k
  <1>6. pc' \in [Runs -> Steps] /\ pc'[r] \in {"save", "fail"}
        /\ \A o \in Runs \ {r} : pc'[o] = pc[o]
    BY <1>0 DEF Patch, Go, Steps
  <1>7. UNCHANGED <<version, human, job, reviews>>
    BY DEF Patch
  <1>8. TypeOK'
    BY <1>2, <1>3, <1>4, <1>5, <1>6, <1>7 DEF SyncInv, TypeOK, Memory, Statuses
  <1>9. Known'
    BY <1>0, <1>1, <1>4, <1>5, <1>6 DEF SyncInv, Known, Linked
  <1>10. LinkReal'
    BY <1>4 DEF SyncInv, LinkReal, NoRef
  <1>11. Kept'
    <2> SUFFICES ASSUME NEW j \in DOMAIN clio', clio'[j].foreign
                 PROVE  /\ ~(link'.ref.id = j /\ link'.ref.current)
                        /\ \A o \in Runs : mem'[o].ref.id = j /\ mem'[o].ref.current =>
                              pc'[o] \in {"review", "fail", "end"} \/ (pc'[o] = "force" /\ human')
      BY DEF Kept
    <2>1. j \in DOMAIN clio /\ j # k /\ clio[j].foreign
      BY <1>2
    <2>2. ~(link.ref.id = j /\ link.ref.current)
      BY <2>1 DEF SyncInv, Kept
    <2>3. ASSUME NEW o \in Runs, mem'[o].ref.id = j, mem'[o].ref.current
          PROVE  pc'[o] \in {"review", "fail", "end"} \/ (pc'[o] = "force" /\ human')
      <3>1. o # r
        BY <1>5, <2>1, <2>3
      <3>2. mem[o].ref.id = j /\ mem[o].ref.current /\ pc'[o] = pc[o]
        BY <1>5, <1>6, <2>3, <3>1
      <3> QED
        BY <1>7, <2>1, <3>2 DEF SyncInv, Kept
    <2> QED
      BY <1>4, <2>2, <2>3
  <1> QED
    BY <1>7, <1>8, <1>9, <1>10, <1>11 DEF SyncInv, VersionEdited

\* A change made in Clio.
LEMMA ClioEditInv ==
  ASSUME SyncInv, NEW k \in DOMAIN clio, ClioEdit(k)
  PROVE  SyncInv'
  <1>0. Len(clio) \in Nat /\ DOMAIN clio = 1..Len(clio)
    BY LenProperties DEF SyncInv, TypeOK
  <1>1. /\ clio' \in Seq([content : 1..version, foreign : BOOLEAN]) /\ Len(clio') = Len(clio)
        /\ DOMAIN clio' = DOMAIN clio
        /\ \A j \in DOMAIN clio : j # k => clio'[j] = clio[j]
    <2> DEFINE c == [clio[k] EXCEPT !.foreign = TRUE]
    <2>1. clio \in Seq([content : 1..version, foreign : BOOLEAN]) /\ clio' = [clio EXCEPT ![k] = c]
      BY DEF SyncInv, TypeOK, ClioEdit
    <2>2. clio[k] \in [content : 1..version, foreign : BOOLEAN]
      BY <1>0, <2>1, ElementOfSeq
    <2>3. c \in [content : 1..version, foreign : BOOLEAN]
      BY <2>2
    <2> HIDE DEF c
    <2> QED
      BY <1>0, <2>1, <2>3, ExceptSeq
  <1>2. Refs' = Refs /\ Memory' = Memory
    BY <1>1 DEF Refs, Memory, ClioEdit
  <1>3. /\ link' \in [ref : Refs, status : Statuses]
        /\ link'.ref.id = link.ref.id
        /\ link'.ref.current => link.ref.current /\ link.ref.id # k
        /\ link.ref = NoRef => link'.ref = NoRef
    BY Ageing DEF ClioEdit
  <1>4. /\ mem' \in [Runs -> Memory]
        /\ \A o \in Runs :
              /\ mem'[o].content = mem[o].content /\ mem'[o].ref.id = mem[o].ref.id
              /\ mem'[o].ref.current => mem[o].ref.current /\ mem[o].ref.id # k
    BY Ageing DEF ClioEdit
  <1>5. UNCHANGED <<version, human, job, reviews, pc, faults>>
    BY DEF ClioEdit
  <1>6. edits' \in 0..MaxEdits /\ (version <= edits + 1 => version <= edits' + 1)
    <2>1. /\ edits \in 0..MaxEdits /\ edits < MaxEdits /\ edits' = edits + 1 /\ MaxEdits \in Nat
          /\ version \in Nat
      BY Shape, BoundAssumption DEF ClioEdit, SyncInv, TypeOK
    <2> QED
      BY <2>1
  <1>7. TypeOK'
    BY <1>1, <1>2, <1>3, <1>4, <1>5, <1>6 DEF SyncInv, TypeOK, Memory, Statuses
  <1>8. Known'
    BY <1>3, <1>4, <1>5 DEF SyncInv, Known
  <1>9. LinkReal'
    BY <1>3 DEF SyncInv, LinkReal, NoRef
  <1>10. Kept'
    BY <1>1, <1>3, <1>4, <1>5 DEF SyncInv, Kept
  <1> QED
    BY <1>5, <1>6, <1>7, <1>8, <1>9, <1>10 DEF SyncInv, VersionEdited

\* A change made here.
LEMMA LocalEditInv ==
  ASSUME SyncInv, NEW byHuman \in BOOLEAN, LocalEdit(byHuman)
  PROVE  SyncInv'
  <1>0. /\ version \in Nat \ {0} /\ version <= edits + 1 /\ edits \in 0..MaxEdits
        /\ version' = version + 1 /\ edits' = edits + 1 /\ edits < MaxEdits /\ MaxEdits \in Nat
    BY BoundAssumption DEF SyncInv, TypeOK, VersionEdited, LocalEdit
  <1>1. /\ version' \in 1..(MaxEdits + 1) /\ edits' \in 0..MaxEdits
        /\ 1..version \subseteq 1..version' /\ 0..version \subseteq 0..version'
    BY <1>0
  <1>2. UNCHANGED <<clio, link, job, pc, mem, reviews, faults>> /\ human' \in BOOLEAN /\ (human => human')
    BY DEF LocalEdit, SyncInv, TypeOK
  <1>3. clio' \in Seq([content : 1..version', foreign : BOOLEAN])
    <2>1. [content : 1..version, foreign : BOOLEAN] \subseteq [content : 1..version', foreign : BOOLEAN]
      BY <1>1
    <2>2. clio \in Seq([content : 1..version, foreign : BOOLEAN])
      BY DEF SyncInv, TypeOK
    <2> HIDE DEF SyncInv
    <2> QED
      BY <1>2, <2>1, <2>2, SeqMonotonic
  <1>4. mem' \in [Runs -> Memory'] /\ Refs' = Refs
    <2>1. Refs' = Refs
      BY <1>2 DEF Refs
    <2>2. Memory \subseteq Memory'
      BY <1>1, <2>1 DEF Memory
    <2>3. mem \in [Runs -> Memory]
      BY DEF SyncInv, TypeOK, Memory
    <2> QED
      BY <1>2, <2>1, <2>2, <2>3
  <1>5. TypeOK'
    BY <1>1, <1>2, <1>3, <1>4 DEF SyncInv, TypeOK, Memory, Statuses
  <1>6. VersionEdited'
    BY <1>0 DEF VersionEdited
  <1>7. Known' /\ LinkReal' /\ Kept'
    BY <1>2 DEF SyncInv, Known, LinkReal, Kept
  <1> QED
    BY <1>5, <1>6, <1>7 DEF SyncInv

\* A new task in Clio, of which the link does not know yet.
LEMMA CreateInv ==
  ASSUME SyncInv, NEW r \in Runs, NEW replied \in BOOLEAN, Create(r, replied),
         faults' \in 0..MaxFaults, UNCHANGED edits
  PROVE  SyncInv'
  <1> DEFINE c == [content |-> mem[r].content, foreign |-> FALSE]
  <1>0. /\ pc[r] = "create" /\ mem[r] \in Memory /\ version \in Nat /\ Len(clio) \in Nat
        /\ DOMAIN clio = 1..Len(clio) /\ pc \in [Runs -> Steps] /\ mem \in [Runs -> Memory]
        /\ link \in [ref : Refs, status : Statuses]
    BY Shape DEF Create, SyncInv, TypeOK, Memory
  <1>1. /\ clio' \in Seq([content : 1..version, foreign : BOOLEAN]) /\ Len(clio') = Len(clio) + 1
        /\ DOMAIN clio' = DOMAIN clio \cup {Len(clio) + 1} /\ ~clio'[Len(clio) + 1].foreign
        /\ \A j \in DOMAIN clio : clio'[j] = clio[j]
    <2>1. clio \in Seq([content : 1..version, foreign : BOOLEAN]) /\ clio' = Append(clio, c)
      BY DEF SyncInv, TypeOK, Create
    <2>2. mem[r].content \in 0..version /\ mem[r].content > 0
      BY <1>0 DEF SyncInv, Known, Memory
    <2>3. c \in [content : 1..version, foreign : BOOLEAN] /\ ~c.foreign
      BY <1>0, <2>2
    <2> HIDE DEF c
    <2>4. /\ clio' \in Seq([content : 1..version, foreign : BOOLEAN]) /\ Len(clio') = Len(clio) + 1
          /\ ~clio'[Len(clio) + 1].foreign /\ \A j \in 1..Len(clio) : clio'[j] = clio[j]
      BY <2>1, <2>3, AppendProperties
    <2>5. DOMAIN clio' = 1..Len(clio')
      BY <2>4, LenProperties
    <2> QED
      BY <1>0, <2>4, <2>5
  <1>2. /\ Refs \subseteq Refs' /\ Memory \subseteq Memory'
        /\ [id |-> Len(clio) + 1, current |-> TRUE] \in Refs'
    <2>1. Refs \subseteq Refs' /\ [id |-> Len(clio) + 1, current |-> TRUE] \in Refs'
      BY <1>0, <1>1 DEF Refs
    <2> QED
      BY <2>1 DEF Memory, Create
  <1>3. PICK p \in {"save", "fail"}, m \in Memory' :
           /\ Goes(r, p, m) /\ m.content = mem[r].content
           /\ (m.ref = mem[r].ref /\ p = "fail") \/ m.ref.id = Len(clio) + 1
    <2>1. CASE replied
      <3> DEFINE ref == [id |-> Len(clio) + 1, current |-> TRUE]
                 m   == [mem[r] EXCEPT !.ref = ref]
      <3>1. Goes(r, "save", m)
        BY <2>1 DEF Create, Know, Go, Goes
      <3>2. ref \in Refs' /\ mem[r] \in Memory' /\ ref.id = Len(clio) + 1
        BY <1>0, <1>2
      <3> HIDE DEF ref
      <3>3. m \in Memory' /\ m.content = mem[r].content /\ m.ref = ref
        BY <3>2 DEF Memory
      <3> HIDE DEF m
      <3> QED
        BY <3>1, <3>2, <3>3
    <2>2. CASE ~replied
      <3>1. Goes(r, "fail", mem[r])
        BY <1>0, <2>2 DEF Create, Go, Goes
      <3> QED
        BY <1>0, <1>2, <3>1
    <2> QED
      BY <2>1, <2>2
  <1>4. /\ pc' \in [Runs -> Steps] /\ mem' \in [Runs -> Memory'] /\ pc'[r] = p /\ mem'[r] = m
        /\ \A o \in Runs \ {r} : pc'[o] = pc[o] /\ mem'[o] = mem[o]
    BY <1>0, <1>2, <1>3 DEF Goes, Steps
  <1>5. UNCHANGED <<version, human, link, job, reviews>> /\ link' \in [ref : Refs', status : Statuses]
    BY <1>0, <1>2 DEF Create
  <1>6. TypeOK'
    BY <1>1, <1>4, <1>5 DEF SyncInv, TypeOK, Memory, Statuses
  <1>7. Known'
    BY <1>0, <1>3, <1>4, <1>5 DEF SyncInv, Known, Linked
  <1>8. LinkReal' /\ VersionEdited'
    BY <1>5 DEF SyncInv, LinkReal, VersionEdited
  <1>9. Kept'
    <2> SUFFICES ASSUME NEW j \in DOMAIN clio', clio'[j].foreign
                 PROVE  /\ ~(link.ref.id = j /\ link.ref.current)
                        /\ \A o \in Runs : mem'[o].ref.id = j /\ mem'[o].ref.current =>
                              pc'[o] \in {"review", "fail", "end"} \/ (pc'[o] = "force" /\ human)
      BY <1>5 DEF Kept
    <2>1. j \in DOMAIN clio /\ j # Len(clio) + 1 /\ clio[j].foreign
      BY <1>1
    <2>2. ASSUME NEW o \in Runs, mem'[o].ref.id = j, mem'[o].ref.current
          PROVE  pc'[o] \in {"review", "fail", "end"} \/ (pc'[o] = "force" /\ human)
      <3>1. CASE o = r
        BY <1>3, <1>4, <2>1, <2>2, <3>1
      <3>2. CASE o # r
        BY <1>4, <2>1, <2>2, <3>2 DEF SyncInv, Kept
      <3> QED
        BY <3>1, <3>2
    <2> QED
      BY <2>1, <2>2 DEF SyncInv, Kept
  <1> QED
    BY <1>6, <1>7, <1>8, <1>9 DEF SyncInv

\* The link shows what run r has found or made.
LEMMA SaveInv ==
  ASSUME SyncInv, NEW r \in Runs, NEW replied \in BOOLEAN, Save(r, replied),
         faults' \in 0..MaxFaults, UNCHANGED edits
  PROVE  SyncInv'
  <1>0. /\ pc[r] = "save" /\ mem[r] \in Memory /\ pc \in [Runs -> Steps] /\ mem \in [Runs -> Memory]
    BY Shape DEF Save, SyncInv, TypeOK, Memory
  <1>1. /\ link'.ref = mem[r].ref /\ link' \in [ref : Refs, status : Statuses] /\ mem[r].ref.id > 0
    BY <1>0 DEF Save, Statuses, Memory, SyncInv, Known
  <1>2. UNCHANGED <<version, human, clio, job, mem, reviews>> /\ Memory' = Memory /\ Refs' = Refs
    BY DEF Save, Memory, Refs
  <1>3. pc' \in [Runs -> Steps] /\ pc'[r] \in {"end", "fail"} /\ \A o \in Runs \ {r} : pc'[o] = pc[o]
    BY <1>0 DEF Save, Go, Steps
  <1>4. TypeOK'
    BY <1>0, <1>1, <1>2, <1>3 DEF SyncInv, TypeOK, Memory, Statuses
  <1>5. Known'
    BY <1>1, <1>2, <1>3 DEF SyncInv, Known, Linked
  <1>6. LinkReal' /\ VersionEdited'
    BY <1>0, <1>1, <1>2 DEF SyncInv, LinkReal, VersionEdited
  <1>7. Kept'
    BY <1>0, <1>1, <1>2, <1>3 DEF SyncInv, Kept
  <1> QED
    BY <1>4, <1>5, <1>6, <1>7 DEF SyncInv

\* Every step keeps the invariant.
LEMMA NextSyncInv == SyncInv /\ [Next]_vars => SyncInv'
  <1> SUFFICES ASSUME SyncInv, [Next]_vars PROVE SyncInv'
    OBVIOUS
  <1>0. ASSUME Fault PROVE faults' \in 0..MaxFaults
    BY <1>0, BoundAssumption DEF Fault, SyncInv, TypeOK
  <1>1. CASE RequestSync \/ StartWorker
    <2>1. UNCHANGED <<edits, faults>> /\ Worker \in Runs
      BY <1>1 DEF RequestSync, StartWorker, Runs
    <2> QED
      BY <1>1, <2>1, ReadInv
  <1>2. ASSUME NEW r \in Manual, StartManual(r) PROVE SyncInv'
    <2>1. UNCHANGED <<edits, faults>> /\ r \in Runs
      BY <1>2 DEF StartManual, Runs
    <2> QED
      BY <1>2, <2>1, ReadInv
  <1>3. ASSUME NEW r \in Runs, Step(r) PROVE SyncInv'
    <2>1. CASE \/ ReadTask(r) \/ ReadLink(r) \/ Detect(r) \/ Compare(r) \/ MarkConflict(r) \/ Relink(r)
               \/ Fetch(r) \/ CreateReview(r) \/ PatchRefused(r) \/ MarkFailed(r) \/ End(r)
      <3>1. UNCHANGED <<edits, faults>>
        BY <2>1 DEF ReadTask, ReadLink, Detect, Compare, MarkConflict, Relink, Fetch, CreateReview,
           PatchRefused, MarkFailed, End
      <3> QED
        BY <2>1, <3>1, ReadInv
    <2>2. CASE (Patch(r, TRUE) \/ Create(r, TRUE) \/ Save(r, TRUE)) /\ UNCHANGED faults
      <3>1. faults' \in 0..MaxFaults /\ UNCHANGED edits
        BY <2>2 DEF SyncInv, TypeOK, Patch, Create, Save
      <3> QED
        BY <2>2, <3>1, PatchInv, CreateInv, SaveInv
    <2> QED
      BY <1>3, <2>1, <2>2 DEF Step
  <1>4. ASSUME NEW r \in Runs, CallFails(r) \/ Die(r) PROVE SyncInv'
    BY <1>4, FaultInv
  <1>5. ASSUME NEW r \in Runs, ReplyLost(r) PROVE SyncInv'
    <2>1. faults' \in 0..MaxFaults /\ UNCHANGED edits
      BY <1>0, <1>5 DEF ReplyLost, Patch, Create, Save
    <2> QED
      BY <1>5, <2>1, PatchInv, CreateInv, SaveInv DEF ReplyLost
  <1>6. ASSUME NEW byHuman \in BOOLEAN, LocalEdit(byHuman) PROVE SyncInv'
    BY <1>6, LocalEditInv
  <1>7. ASSUME NEW k \in DOMAIN clio, ClioEdit(k) PROVE SyncInv'
    BY <1>7, ClioEditInv
  <1>8. CASE UNCHANGED vars
    BY <1>8 DEF vars, SyncInv, TypeOK, Refs, VersionEdited, Known, LinkReal, Kept
  <1> QED
    BY <1>1, <1>2, <1>3, <1>4, <1>5, <1>6, <1>7, <1>8 DEF Next

\* Every run, with whatever lies between it and the others, finds the state well
\* formed: versions it may push, links and tokens of tasks that exist in Clio.
THEOREM SyncTypeCorrect == Spec => []TypeOK
  <1>1. SyncInv => TypeOK
    BY DEF SyncInv
  <1> QED
    BY <1>1, InitSyncInv, NextSyncInv, PTL DEF Spec

\* A sync overwrites an edit made in Clio only on behalf of a person, however the
\* runs interleave, whatever fails, and however long it takes.
THEOREM ForeignEditTheorem == Spec => ForeignEditKept
  <1> DEFINE Overwritten == \A k \in DOMAIN clio : (clio[k].foreign /\ ~clio'[k].foreign) => human
  <1>1. ASSUME SyncInv, Next, NEW k \in DOMAIN clio, clio[k].foreign, ~clio'[k].foreign
        PROVE  human
    <2>0. /\ clio \in Seq([content : 1..version, foreign : BOOLEAN]) /\ Len(clio) \in Nat
          /\ DOMAIN clio = 1..Len(clio)
      BY <1>1, Shape DEF SyncInv, TypeOK
    <2>1. ASSUME NEW r \in Runs, NEW replied, Patch(r, replied) PROVE human
      <3>1. k = mem[r].ref.id /\ mem[r].ref.current /\ pc[r] \in {"update", "force"}
        BY <1>1, <2>0, <2>1 DEF Patch
      <3> QED
        BY <1>1, <3>1 DEF SyncInv, Kept
    <2>2. ASSUME NEW r \in Runs, NEW replied, Create(r, replied) PROVE FALSE
      <3>1. clio'[k] = clio[k]
        <4>1. mem[r].content \in 1..version
          BY <1>1, <2>2, Shape DEF SyncInv, Known, Memory, Create
        <4>2. [content |-> mem[r].content, foreign |-> FALSE] \in [content : 1..version, foreign : BOOLEAN]
          BY <4>1
        <4> QED
          BY <1>1, <2>0, <2>2, <4>2, AppendProperties DEF Create
      <3> QED
        BY <1>1, <3>1
    <2>3. ASSUME NEW j \in DOMAIN clio, ClioEdit(j) PROVE FALSE
      <3>1. clio[j] \in [content : 1..version, foreign : BOOLEAN]
        BY <2>0, ElementOfSeq
      <3>2. [clio[j] EXCEPT !.foreign = TRUE].foreign
        BY <3>1
      <3>3. clio' = [clio EXCEPT ![j] = [clio[j] EXCEPT !.foreign = TRUE]]
        BY <2>3 DEF ClioEdit
      <3> QED
        BY <1>1, <2>0, <3>2, <3>3
    <2>4. ASSUME clio' = clio PROVE FALSE
      BY <1>1, <2>4
    <2> QED
      BY <1>1, <2>1, <2>2, <2>3, <2>4 DEF Next, Step, ReplyLost, RequestSync, StartWorker, StartManual,
         ReadTask, ReadLink, Detect, Compare, MarkConflict, Relink, Fetch, CreateReview, PatchRefused,
         MarkFailed, End, Save, CallFails, Die, LocalEdit
  <1>2. SyncInv /\ [Next]_vars => [Overwritten]_vars
    BY <1>1
  <1> QED
    BY <1>2, InitSyncInv, NextSyncInv, PTL DEF Spec, ForeignEditKept

\* How the two groups change when run r goes on to p.
LEMMA Groups ==
  ASSUME SyncInv, NEW r \in Runs, NEW p, pc' = [pc EXCEPT ![r] = p]
  PROVE  /\ Saving' = IF p = "save" THEN Saving \cup {r} ELSE Saving \ {r}
         /\ Creating' = IF p = "create" THEN Creating \cup {r} ELSE Creating \ {r}
  <1>1. pc \in [Runs -> Steps] /\ pc'[r] = p /\ \A o \in Runs \ {r} : pc'[o] = pc[o]
    BY DEF SyncInv, TypeOK
  <1> QED
    BY <1>1 DEF Saving, Creating

\* No run is about to create and about to save, and there are only so many.
LEMMA GroupSizes ==
  ASSUME SyncInv
  PROVE  /\ IsFiniteSet(Runs) /\ IsFiniteSet(Saving) /\ IsFiniteSet(Creating)
         /\ Cardinality(Runs) \in Nat /\ Cardinality(Saving) \in Nat /\ Cardinality(Creating) \in Nat
         /\ Cardinality(Saving) + Cardinality(Creating) <= Cardinality(Runs)
  <1>1. IsFiniteSet(Runs)
    BY RunAssumption, FS_AddElement DEF Runs
  <1>2. Saving \subseteq Runs /\ Creating \subseteq Runs /\ Saving \cap Creating = {}
    BY DEF Saving, Creating
  <1>3. IsFiniteSet(Saving) /\ IsFiniteSet(Creating) /\ Cardinality(Saving \cap Creating) = 0
    BY <1>1, <1>2, FS_Subset, FS_EmptySet
  <1>4. Cardinality(Saving \cup Creating) = Cardinality(Saving) + Cardinality(Creating) - 0
    BY <1>3, FS_Union
  <1>5. Cardinality(Saving \cup Creating) <= Cardinality(Runs)
    BY <1>1, <1>2, FS_Subset
  <1> QED
    BY <1>1, <1>3, <1>4, <1>5, FS_CardinalityType

\* Whoever gives up a Clio task it made pays with a fault; once the link is there,
\* nobody decides to create another.
Paid ==
    /\ Len(clio') = Len(clio) /\ link'.ref.id = link.ref.id /\ faults' \in Nat /\ faults' >= faults
    /\ link.ref.id = 0 =>
          Saving' = Saving \/ (faults' = faults + 1 /\ \E r \in Runs : Saving' = Saving \ {r})
    /\ link.ref.id # 0 => Creating' \subseteq Creating

\* What a step adds to the debt it also pays: then what is owed stays paid for.
LEMMA PaidOwed ==
  ASSUME SyncInv, SyncInv', Owed, Paid
  PROVE  Owed'
  <1>0. Len(clio) \in Nat /\ faults \in Nat /\ faults' \in Nat
    BY Shape, LenProperties, BoundAssumption DEF SyncInv, TypeOK, Paid
  <1>1. CASE link.ref.id = 0
    <2>1. Cardinality(Saving) + faults <= Cardinality(Saving') + faults'
      <3>1. ASSUME NEW r \in Runs, Saving' = Saving \ {r}
            PROVE  Cardinality(Saving) <= Cardinality(Saving') + 1 /\ Cardinality(Saving') \in Nat
        <4>1. Cardinality(Saving \ {r}) = IF r \in Saving THEN Cardinality(Saving) - 1
                                                          ELSE Cardinality(Saving)
          BY GroupSizes, FS_RemoveElement
        <4>2. Cardinality(Saving \ {r}) \in Nat
          BY GroupSizes, FS_RemoveElement, FS_CardinalityType
        <4> QED
          BY <3>1, <4>1, <4>2, GroupSizes
      <3>2. CASE Saving' = Saving
        BY <1>0, <3>2, GroupSizes DEF Paid
      <3>3. CASE faults' = faults + 1 /\ \E r \in Runs : Saving' = Saving \ {r}
        <4>1. Cardinality(Saving) <= Cardinality(Saving') + 1 /\ Cardinality(Saving') \in Nat
          BY <3>1, <3>3
        <4>2. Cardinality(Saving) \in Nat
          BY GroupSizes
        <4> QED
          BY <1>0, <3>3, <4>1, <4>2
      <3> QED
        BY <1>1, <3>2, <3>3 DEF Paid
    <2>2. Cardinality(Saving') \in Nat
      BY GroupSizes, FS_Subset, FS_CardinalityType, <1>1 DEF Paid
    <2> QED
      BY <1>0, <1>1, <2>1, <2>2, GroupSizes DEF Owed, Paid
  <1>2. CASE link.ref.id # 0
    <2>1. Cardinality(Creating') <= Cardinality(Creating) /\ Cardinality(Creating') \in Nat
      BY <1>2, GroupSizes, FS_Subset, FS_CardinalityType DEF Paid
    <2> QED
      BY <1>0, <1>2, <2>1, GroupSizes DEF Owed, Paid
  <1> QED
    BY <1>1, <1>2

\* Every step keeps the account of duplicates.
LEMMA NextOwed == SyncInv /\ SyncInv' /\ Owed /\ [Next]_vars => Owed'
  <1> SUFFICES ASSUME SyncInv, SyncInv', Owed, [Next]_vars PROVE Owed'
    OBVIOUS
  <1>0. /\ Len(clio) \in Nat /\ Len(clio') \in Nat /\ DOMAIN clio = 1..Len(clio)
        /\ DOMAIN clio' = 1..Len(clio') /\ faults \in Nat /\ faults' \in Nat
        /\ link.ref \in Refs /\ pc \in [Runs -> Steps]
    BY LenProperties, BoundAssumption DEF SyncInv, TypeOK
  <1>1. ASSUME UNCHANGED <<pc, faults>>, link'.ref.id = link.ref.id, Len(clio') = Len(clio)
        PROVE  Owed'
    <2>1. Saving' = Saving /\ Creating' = Creating
      BY <1>1 DEF Saving, Creating
    <2> QED
      BY <1>0, <1>1, <2>1 DEF Owed
  <1>2. ASSUME NEW r \in Runs, NEW p, pc' = [pc EXCEPT ![r] = p], UNCHANGED <<clio, faults>>,
               link'.ref = link.ref, pc[r] # "save", p # "save", p = "create" => link.ref = NoRef
        PROVE  Owed'
    <2>1. Saving' = Saving
      <3>1. r \notin Saving /\ Saving' = Saving \ {r}
        BY <1>2, Groups DEF Saving
      <3> QED
        BY <3>1
    <2>2. link.ref.id # 0 => Creating' \subseteq Creating
      <3>1. Creating' = IF p = "create" THEN Creating \cup {r} ELSE Creating \ {r}
        BY <1>2, Groups
      <3>2. link.ref.id # 0 => p # "create"
        BY <1>2 DEF NoRef
      <3> QED
        BY <3>1, <3>2
    <2>3. Paid
      BY <1>0, <1>2, <2>1, <2>2 DEF Paid
    <2> QED
      BY <2>3, PaidOwed
  <1>3. ASSUME NEW r \in Runs, CallFails(r) \/ Die(r) PROVE Owed'
    <2>1. PICK p \in {"update", "fail", "idle"} : pc' = [pc EXCEPT ![r] = p]
      BY <1>3 DEF CallFails, Die, Go
    <2>2. UNCHANGED <<clio, link>> /\ faults' = faults + 1
      BY <1>3 DEF CallFails, Die, Fault
    <2>3. Saving' = Saving \ {r} /\ Creating' = Creating \ {r}
      BY <2>1, Groups
    <2>4. Paid
      BY <1>0, <2>2, <2>3 DEF Paid
    <2> QED
      BY <2>4, PaidOwed
  <1>4. ASSUME NEW r \in Runs, NEW replied \in BOOLEAN, Patch(r, replied), faults' >= faults PROVE Owed'
    <2>1. link.ref.id # 0 /\ link'.ref.id = link.ref.id
      BY <1>4, Ageing DEF Patch, SyncInv, Known, Linked, Refs
    <2>2. PICK p \in {"save", "fail"} : pc' = [pc EXCEPT ![r] = p]
      BY <1>4 DEF Patch, Go
    <2>3. Creating' \subseteq Creating
      BY <2>2, Groups
    <2>4. Len(clio') = Len(clio)
      BY <1>0, <1>4 DEF Patch
    <2>5. Paid
      BY <1>0, <1>4, <2>1, <2>3, <2>4 DEF Paid
    <2> QED
      BY <2>5, PaidOwed
  <1>5. ASSUME NEW r \in Runs, NEW replied \in BOOLEAN, Create(r, replied),
               faults' = IF replied THEN faults ELSE faults + 1
        PROVE  Owed'
    <2>1. r \in Creating /\ r \notin Saving /\ link' = link
      BY <1>5 DEF Create, Creating, Saving
    <2>2. PICK p \in {"save", "fail"} : pc' = [pc EXCEPT ![r] = p] /\ (replied <=> p = "save")
      BY <1>5 DEF Create, Go
    <2>3. Creating' = Creating \ {r} /\ Saving' = IF replied THEN Saving \cup {r} ELSE Saving
      <3>1. Creating' = Creating \ {r} /\ Saving' = IF replied THEN Saving \cup {r} ELSE Saving \ {r}
        BY <2>2, Groups
      <3> QED
        BY <2>1, <3>1
    <2>4. /\ Cardinality(Creating') = Cardinality(Creating) - 1
          /\ Cardinality(Saving') = IF replied THEN Cardinality(Saving) + 1 ELSE Cardinality(Saving)
      BY <2>1, <2>3, GroupSizes, FS_AddElement, FS_RemoveElement
    <2>5. Len(clio') = Len(clio) + 1
      <3>1. clio \in Seq([content : 1..version, foreign : BOOLEAN]) /\ pc[r] = "create"
        BY <1>5 DEF SyncInv, TypeOK, Create
      <3>2. [content |-> mem[r].content, foreign |-> FALSE] \in [content : 1..version, foreign : BOOLEAN]
        BY <3>1, Shape DEF SyncInv, Known, Memory
      <3> QED
        BY <1>5, <3>1, <3>2, AppendProperties DEF Create
    <2> QED
      BY <1>0, <1>5, <2>1, <2>4, <2>5, GroupSizes DEF Owed
  <1>6. ASSUME NEW r \in Runs, NEW replied \in BOOLEAN, Save(r, replied), faults' >= faults PROVE Owed'
    <2>1. link'.ref.id # 0 /\ Len(clio') = Len(clio)
      BY <1>6, Shape DEF Save, SyncInv, Known, Memory, Refs
    <2>2. PICK p \in {"end", "fail"} : pc' = [pc EXCEPT ![r] = p]
      BY <1>6 DEF Save, Go
    <2>3. Creating' \subseteq Creating
      BY <2>2, Groups
    <2>4. Cardinality(Creating') <= Cardinality(Creating) /\ Cardinality(Creating') \in Nat
      BY <2>3, GroupSizes, FS_Subset, FS_CardinalityType
    <2> QED
      BY <1>0, <1>6, <2>1, <2>4, GroupSizes DEF Owed
  <1>7. ASSUME NEW r \in Runs, Step(r) PROVE Owed'
    <2>1. CASE \/ ReadTask(r) \/ ReadLink(r) \/ Detect(r) \/ Compare(r) \/ MarkConflict(r) \/ Relink(r)
               \/ Fetch(r) \/ CreateReview(r) \/ PatchRefused(r) \/ MarkFailed(r) \/ End(r)
      <3>1. PICK p \in Steps : /\ pc' = [pc EXCEPT ![r] = p] /\ p # "save"
                               /\ p = "create" => link.ref = NoRef
        BY <2>1 DEF ReadTask, ReadLink, Detect, Compare, MarkConflict, Relink, Fetch, CreateReview,
           PatchRefused, MarkFailed, End, Go, Steps
      <3>2. UNCHANGED <<clio, faults>> /\ pc[r] # "save"
        BY <2>1 DEF ReadTask, ReadLink, Detect, Compare, MarkConflict, Relink, Fetch, CreateReview,
           PatchRefused, MarkFailed, End
      <3>3. link'.ref = link.ref
        BY <2>1 DEF ReadTask, ReadLink, Detect, Compare, MarkConflict, Relink, Fetch, CreateReview,
           PatchRefused, MarkFailed, End, SyncInv, TypeOK
      <3> QED
        BY <1>2, <3>1, <3>2, <3>3
    <2>2. CASE (Patch(r, TRUE) \/ Create(r, TRUE) \/ Save(r, TRUE)) /\ UNCHANGED faults
      <3>0. faults' >= faults
        BY <1>0, <2>2
      <3>1. CASE Patch(r, TRUE)
        BY <1>4, <3>0, <3>1
      <3>2. CASE Create(r, TRUE)
        BY <1>5, <2>2, <3>2
      <3>3. CASE Save(r, TRUE)
        BY <1>6, <3>0, <3>3
      <3> QED
        BY <2>2, <3>1, <3>2, <3>3
    <2> QED
      BY <1>7, <2>1, <2>2 DEF Step
  <1>8. ASSUME NEW r \in Runs, ReplyLost(r) PROVE Owed'
    <2>1. faults' = faults + 1
      BY <1>8 DEF ReplyLost, Fault
    <2>2. faults' >= faults
      BY <1>0, <2>1
    <2>3. CASE Patch(r, FALSE)
      BY <1>4, <2>2, <2>3
    <2>4. CASE Create(r, FALSE)
      BY <1>5, <2>1, <2>4
    <2>5. CASE Save(r, FALSE)
      BY <1>6, <2>2, <2>5
    <2> QED
      BY <1>8, <2>3, <2>4, <2>5 DEF ReplyLost
  <1>9. CASE StartWorker \/ \E r \in Manual : StartManual(r)
    <2>1. PICK r \in Runs : pc' = [pc EXCEPT ![r] = "task"] /\ pc[r] = "idle"
      BY <1>9 DEF StartWorker, StartManual, Runs
    <2>2. UNCHANGED <<clio, faults, link>>
      BY <1>9 DEF StartWorker, StartManual
    <2> QED
      BY <1>2, <2>1, <2>2
  <1>10. CASE RequestSync \/ (\E byHuman \in BOOLEAN : LocalEdit(byHuman)) \/ UNCHANGED vars
    BY <1>1, <1>10 DEF RequestSync, LocalEdit, vars
  <1>11. ASSUME NEW k \in DOMAIN clio, ClioEdit(k) PROVE Owed'
    <2>1. UNCHANGED <<pc, faults>> /\ link'.ref.id = link.ref.id
      BY <1>11, Ageing DEF ClioEdit
    <2>2. Len(clio') = Len(clio)
      BY <1>0, <1>11 DEF ClioEdit
    <2> QED
      BY <1>1, <2>1, <2>2
  <1> QED
    BY <1>3, <1>7, <1>8, <1>9, <1>10, <1>11 DEF Next

\* A Clio task that the link does not show has been lost to a fault or belongs to a
\* run that read the link before it was there: however often the task is synced,
\* there are no more of them than that.
THEOREM DuplicatesTheorem == Spec => []DuplicatesBounded
  <1>1. Init => Owed
    <2> SUFFICES ASSUME Init PROVE Owed
      OBVIOUS
    <2>1. SyncInv
      BY InitSyncInv
    <2>2. Len(clio) = 0 /\ faults = 0 /\ link.ref.id = 0
      BY EmptySeq DEF Init, NoRef
    <2> QED
      BY <2>1, <2>2, GroupSizes DEF Owed
  <1>2. SyncInv /\ Owed => DuplicatesBounded
    <2> SUFFICES ASSUME SyncInv, Owed PROVE DuplicatesBounded
      OBVIOUS
    <2>1. Len(clio) \in Nat /\ faults \in Nat
      BY Shape, LenProperties, BoundAssumption DEF SyncInv, TypeOK
    <2> QED
      BY <2>1, GroupSizes DEF Owed, DuplicatesBounded
  <1> QED
    BY <1>1, <1>2, InitSyncInv, NextSyncInv, NextOwed, PTL DEF Spec
=============================================================================
