---------------------------- MODULE Driver_proofs ----------------------------
(***************************************************************************)
(* The driver, proved for every number of files, constants and threads:    *)
(* types, the names of constants and the objects linked when the files are *)
(* compiled one after the other, and what the linker is given in general.  *)
(***************************************************************************)
EXTENDS Driver, TLAPS

\* The flags and the environment stay what they were; labels are numbers.
EnvInv ==
  /\ assemble \in BOOLEAN /\ link \in BOOLEAN /\ parallel \in BOOLEAN
  /\ env \in [stdlib : BOOLEAN, asFails : SUBSET HasCode, output : Outputs]
  /\ labels \in [1..Files -> Seq(Nat)]

\* No two ranges begin with the same file, and that file is compiled.
RangesInv ==
  /\ \A q, r \in ranges : q[1] = r[1] => q = r
  /\ \A r \in ranges : file[r] = r[1]
  /\ ~parallel /\ phase \in {"compile", "link", "linked"} =>
       ranges = {<<f, f>> : f \in 1..Files}

\* Nothing is named or collected before the front end is done.
FreshInv ==
  phase = "frontend" =>
    /\ labels = [f \in 1..Files |-> <<>>]
    /\ objectFiles = <<>> /\ size = 0

\* Only a file with code gets past the first step of its task.
CodeInv == \A r \in ranges : pc[r] \notin {"start", "end"} => file[r] \in HasCode

\* An object on the disk was assembled from a file whose output it is, and
\* what is pushed, or about to be, is on the disk.
DiskInv ==
  /\ \A p \in Paths : disk[p] # 0 =>
       /\ disk[p] \in HasCode
       /\ Succeeds(disk[p])
       /\ Output(disk[p]) = p
  /\ \A r \in ranges : pc[r] \in {"push", "store"} => disk[Output(file[r])] # 0
  /\ \A i \in DOMAIN objectFiles : disk[objectFiles[i]] # 0

\* What was linked is what the vector names, each path once.
LinkedInv ==
  phase = "linked" =>
    /\ linked = [i \in 1..size |-> disk[objectFiles[i]]]
    /\ \A i, j \in 1..size : objectFiles[i] = objectFiles[j] => i = j

\* Without threads a task starts when those before it have ended.
OrderInv ==
  ~parallel =>
    \A q, r \in ranges : q[1] < r[1] /\ pc[r] # "start" => pc[q] = "end"

\* Without threads the counter is ahead of every name, but for the name of
\* the constant between whose naming and the increment a task is.
CounterInv ==
  ~parallel =>
    /\ \A r \in ranges : pc[r] = "write" => seen[r] = counter
    /\ \A f \in 1..Files : \A i \in DOMAIN labels[f] :
         \/ labels[f][i] < counter
         \/ /\ labels[f][i] = counter
            /\ \E r \in ranges : pc[r] \in {"read", "write"}

\* Without threads the vector holds, in their order, the outputs of the files
\* that assembled and whose tasks have ended.
CollectedInv ==
  ~parallel /\ assemble /\ Apart =>
    /\ \A r \in ranges : pc[r] = "store" => end[r] = size
    /\ size = Len(objectFiles)
    /\ \A i \in DOMAIN objectFiles :
         \E r \in ranges : pc[r] = "end" /\ file[r] = disk[objectFiles[i]]
    /\ \A i, j \in DOMAIN objectFiles : i < j => disk[objectFiles[i]] < disk[objectFiles[j]]
    /\ \A r \in ranges : pc[r] = "end" /\ Succeeds(file[r]) =>
         \E i \in DOMAIN objectFiles : objectFiles[i] = Output(file[r])

\* The link comes when all tasks have ended.
JoinedInv == phase \in {"link", "linked"} => \A r \in ranges : pc[r] = "end"

IInv ==
  /\ TypeOK /\ EnvInv /\ RangesInv /\ FreshInv /\ CodeInv
  /\ DiskInv /\ LinkedInv /\ JoinedInv
  /\ OrderInv /\ CounterInv /\ SequentialNames /\ CollectedInv

-----------------------------------------------------------------------------
\* A step of one task, but for the crash.
Works(r) ==
  \/ Start(r) \/ NameConstant(r) \/ ReadCounter(r) \/ WriteCounter(r)
  \/ Generated(r) \/ AsFails(r) \/ Assemble(r) \/ ReadEnd(r) \/ WriteEnd(r)

\* A step that leaves the tasks alone.
Passes ==
  /\ UNCHANGED <<options, tasks>>
  /\ stage' \in {stage, stage + 1} /\ (stage' = stage \/ stage < Len(Frontend))
  /\ code' \in {code, 1, 139}
  /\ \/ phase' \in {phase, "exit"} /\ UNCHANGED linked
     \/ /\ phase = "compile" /\ phase' = "link" /\ UNCHANGED linked
        /\ \A r \in ranges : pc[r] = "end"
     \/ Link

\* Every step is a task's, the start of the tasks, or leaves them alone.
LEMMA Steps ==
  ASSUME [Next]_vars
  PROVE  StartCompile \/ Passes \/ \E r \in ranges : Works(r)
<1>1. CASE StageFails
  BY <1>1 DEF StageFails, Passes
<1>2. CASE StageDone
  BY <1>2 DEF StageDone, Passes
<1>3. ASSUME NEW r \in ranges, Crash(r)
      PROVE  Passes
  BY <1>3 DEF Crash, At, Passes
<1>4. CASE Joined
  BY <1>4 DEF Joined, Passes
<1>5. CASE NoStdlib
  BY <1>5 DEF NoStdlib, Passes
<1>6. CASE LinkFails
  BY <1>6 DEF LinkFails, Passes
<1>7. CASE Link
  BY <1>7 DEF Link, Passes
<1>8. CASE UNCHANGED vars
  BY <1>8 DEF vars, Passes, options, tasks
<1> QED
  BY <1>1, <1>2, <1>3, <1>4, <1>5, <1>6, <1>7, <1>8 DEF Next, Works, Exit

\* What a task leaves alone.
LEMMA WorkFrame ==
  ASSUME TypeOK, NEW r \in ranges, Works(r)
  PROVE  /\ phase = "compile"
         /\ UNCHANGED <<options, stage, phase, code, ranges, file, linked>>
         /\ \A q \in ranges : q # r => pc'[q] = pc[q]
         /\ pc' \in [ranges -> {"start", "generate", "read", "write", "assemble", "push", "store", "end"}]
         /\ pc[r] # "end" /\ pc'[r] # "start"
         /\ ~parallel => \A q \in ranges : q[1] < r[1] => pc[q] = "end"
<1>1. phase = "compile" /\ pc[r] # "end"
  BY DEF Works, Start, NameConstant, ReadCounter, WriteCounter, Generated, AsFails, Assemble, ReadEnd, WriteEnd, At
<1>2. UNCHANGED <<options, stage, phase, code, ranges, file, linked>>
  BY DEF Works, Start, NameConstant, ReadCounter, WriteCounter, Generated, AsFails, Assemble, ReadEnd, WriteEnd
<1>3. ~parallel => \A q \in ranges : q[1] < r[1] => pc[q] = "end"
  BY DEF Works, Start, NameConstant, ReadCounter, WriteCounter, Generated, AsFails, Assemble, ReadEnd, WriteEnd, At
<1>4. \E where \in {"generate", "read", "write", "assemble", "push", "store", "end"} : Goto(r, where)
  BY DEF Works, Start, NameConstant, ReadCounter, WriteCounter, Generated, AsFails, Assemble, ReadEnd, WriteEnd
<1>5. /\ \A q \in ranges : q # r => pc'[q] = pc[q]
      /\ pc' \in [ranges -> {"start", "generate", "read", "write", "assemble", "push", "store", "end"}]
      /\ pc'[r] # "start"
  BY <1>4 DEF Goto, TypeOK
<1> QED BY <1>1, <1>2, <1>3, <1>5

\* Ranges are pairs of files, and no two begin with the same file.
LEMMA RangesDisjoint ==
  ASSUME NEW cut, NEW q \in Ranges(cut), NEW r \in Ranges(cut), q[1] = r[1]
  PROVE  q = r
<1>1. q[2] = r[2]
  BY FilesAssumption DEF Ranges
<1> QED BY <1>1 DEF Ranges

LEMMA RangesAfterStart ==
  ASSUME StartCompile, EnvInv
  PROVE  /\ ranges' \subseteq (1..Files) \X (1..Files)
         /\ \A q, r \in ranges' : q[1] = r[1] => q = r
         /\ ~parallel => ranges' = {<<f, f>> : f \in 1..Files}
<1>1. CASE parallel
  <2>1. PICK cut \in Cuts : ranges' = Ranges(cut)
    BY <1>1 DEF StartCompile
  <2>2. ranges' \subseteq (1..Files) \X (1..Files)
    BY <2>1 DEF Ranges
  <2> QED BY <1>1, <2>1, <2>2, RangesDisjoint
<1>2. CASE ~parallel
  BY <1>2 DEF StartCompile
<1> QED BY <1>1, <1>2

LEMMA OutputIsPath ==
  ASSUME EnvInv, NEW f \in 1..Files
  PROVE  Output(f) \in Paths
BY DEF EnvInv, Output, Paths

-----------------------------------------------------------------------------
\* Types, and the flags, the environment and the names being numbers.
LEMMA TypeStep ==
  ASSUME TypeOK, EnvInv, CodeInv, [Next]_vars
  PROVE  TypeOK' /\ EnvInv'
<1>1. CASE StartCompile
  <2>1. EnvInv'
    BY <1>1 DEF StartCompile, EnvInv, options
  <2>2. \A r \in ranges' : r \in (1..Files) \X (1..Files) /\ r[1] \in 1..Files
    BY <1>1, RangesAfterStart
  <2>3. TypeOK'
    BY <1>1, <2>2 DEF StartCompile, TypeOK, options
  <2> QED BY <2>1, <2>3
<1>2. CASE Passes
  <2>1. TypeOK'
    BY <1>2 DEF Passes, Link, TypeOK, options, tasks, Frontend
  <2>2. EnvInv'
    BY <1>2 DEF Passes, EnvInv, options, tasks
  <2> QED BY <2>1, <2>2
<1>3. ASSUME NEW r \in ranges, Works(r)
      PROVE  TypeOK' /\ EnvInv'
  <2>1. /\ UNCHANGED <<assemble, link, parallel, env, stage, phase, code, ranges, file>>
        /\ pc' \in [ranges -> {"start", "generate", "read", "write", "assemble", "push", "store", "end"}]
    BY <1>3, WorkFrame DEF options
  <2>2. file[r] \in 1..Files
    BY DEF TypeOK
  <2> DEFINE Typed ==
        /\ counter' \in Nat /\ seen' \in [ranges -> Nat]
        /\ labels' \in [1..Files -> Seq(Nat)]
        /\ \A f \in 1..Files : Len(labels'[f]) <= Constants[f]
        /\ objectFiles' \in Seq(Paths) /\ size' \in 0..Len(objectFiles')
        /\ end' \in [ranges -> 0..Len(objectFiles')]
        /\ disk' \in [Paths -> 0..Files]
  <2>3. Typed
    <3>1. CASE Start(r) \/ Generated(r) \/ AsFails(r)
      <4>1. UNCHANGED <<counter, seen, labels, objectFiles, size, end, disk>>
        BY <3>1 DEF Start, Generated, AsFails
      <4> QED BY <4>1 DEF TypeOK, EnvInv
    <3>2. CASE NameConstant(r)
      <4>1. labels[file[r]] \in Seq(Nat) /\ counter \in Nat
        BY <2>2 DEF TypeOK, EnvInv
      <4>2. labels' \in [1..Files -> Seq(Nat)]
        <5>1. Append(labels[file[r]], counter) \in Seq(Nat)
          BY <4>1
        <5> QED BY <3>2, <5>1 DEF NameConstant, EnvInv
      <4>3. \A f \in 1..Files : Len(labels'[f]) <= Constants[f]
        BY <2>2, <3>2, <4>1, FilesAssumption DEF NameConstant, EnvInv, TypeOK
      <4> QED BY <3>2, <4>2, <4>3 DEF NameConstant, TypeOK
    <3>3. CASE ReadCounter(r) \/ WriteCounter(r)
      <4>1. counter' \in Nat /\ seen' \in [ranges -> Nat]
        <5>1. counter \in Nat /\ seen \in [ranges -> Nat]
          BY DEF TypeOK
        <5>2. CASE ReadCounter(r)
          BY <5>1, <5>2 DEF ReadCounter
        <5>3. CASE WriteCounter(r)
          BY <5>1, <5>3 DEF WriteCounter
        <5> QED BY <3>3, <5>2, <5>3
      <4>2. UNCHANGED <<labels, objectFiles, size, end, disk>>
        BY <3>3 DEF ReadCounter, WriteCounter
      <4> QED BY <4>1, <4>2 DEF TypeOK, EnvInv
    <3>4. CASE Assemble(r)
      <4>1. UNCHANGED <<counter, seen, labels, objectFiles, size, end>>
        BY <3>4 DEF Assemble
      <4>2. disk \in [Paths -> 0..Files] /\ file[r] \in 0..Files /\ Output(file[r]) \in Paths
        BY <2>2, OutputIsPath DEF TypeOK
      <4>3. disk' \in [Paths -> 0..Files]
        BY <3>4, <4>2 DEF Assemble
      <4> QED BY <4>1, <4>3 DEF TypeOK, EnvInv
    <3>5. CASE ReadEnd(r)
      BY <3>5 DEF ReadEnd, TypeOK, EnvInv
    <3>6. CASE WriteEnd(r)
      <4> DEFINE n == IF end[r] = Len(objectFiles) THEN end[r] + 1 ELSE Len(objectFiles)
      <4>1. end[r] \in 0..Len(objectFiles) /\ objectFiles \in Seq(Paths) /\ Output(file[r]) \in Paths
        BY <2>2, OutputIsPath DEF TypeOK
      <4>2. DOMAIN objectFiles = 1..Len(objectFiles) /\ Len(objectFiles) \in Nat
        BY <4>1
      <4>3. DOMAIN objectFiles \cup {end[r] + 1} = 1..n /\ n \in Nat
        BY <4>1, <4>2
      <4>4. objectFiles' \in [1..n -> Paths]
        <5>1. \A i \in 1..n : (IF i = end[r] + 1 THEN Output(file[r]) ELSE objectFiles[i]) \in Paths
          BY <4>1, <4>2, <4>3
        <5> QED BY <3>6, <4>3, <5>1 DEF WriteEnd
      <4>5. objectFiles' \in Seq(Paths) /\ Len(objectFiles') = n
        BY <4>3, <4>4
      <4>6. size' = end[r] + 1 /\ n >= end[r] + 1 /\ n >= Len(objectFiles)
        BY <3>6, <4>1, <4>2 DEF WriteEnd
      <4>7. size' \in 0..Len(objectFiles')
        BY <4>1, <4>5, <4>6
      <4>8. end' \in [ranges -> 0..Len(objectFiles')]
        <5>1. Len(objectFiles) \in Nat /\ Len(objectFiles') \in Nat /\ Len(objectFiles) <= Len(objectFiles')
          BY <4>2, <4>3, <4>5, <4>6
        <5>2. 0..Len(objectFiles) \subseteq 0..Len(objectFiles')
          BY <5>1
        <5>3. end' = end /\ end \in [ranges -> 0..Len(objectFiles)]
          BY <3>6 DEF WriteEnd, TypeOK
        <5> QED BY <5>2, <5>3
      <4> QED BY <3>6, <4>5, <4>7, <4>8 DEF WriteEnd, TypeOK, EnvInv
    <3> HIDE DEF Typed
    <3> QED BY <1>3, <3>1, <3>2, <3>3, <3>4, <3>5, <3>6 DEF Works
  <2>4. EnvInv'
    BY <2>1, <2>3 DEF EnvInv
  <2>5. TypeOK'
    BY <2>1, <2>3 DEF TypeOK
  <2> QED BY <2>4, <2>5
<1> QED BY <1>1, <1>2, <1>3, Steps

LEMMA RangesStep ==
  ASSUME TypeOK, EnvInv, RangesInv, [Next]_vars
  PROVE  RangesInv'
<1>1. CASE StartCompile
  BY <1>1, RangesAfterStart DEF StartCompile, RangesInv, options
<1>2. CASE Passes
  BY <1>2 DEF Passes, Link, RangesInv, options, tasks
<1>3. ASSUME NEW r \in ranges, Works(r)
      PROVE  RangesInv'
  BY <1>3, WorkFrame DEF RangesInv, options
<1> QED BY <1>1, <1>2, <1>3, Steps

LEMMA FreshStep ==
  ASSUME TypeOK, FreshInv, [Next]_vars
  PROVE  FreshInv'
<1>1. CASE StartCompile
  BY <1>1 DEF StartCompile, FreshInv
<1>2. CASE Passes
  BY <1>2 DEF Passes, Link, FreshInv, tasks
<1>3. ASSUME NEW r \in ranges, Works(r)
      PROVE  FreshInv'
  BY <1>3, WorkFrame DEF FreshInv
<1> QED BY <1>1, <1>2, <1>3, Steps

LEMMA CodeStep ==
  ASSUME TypeOK, CodeInv, [Next]_vars
  PROVE  CodeInv'
<1>1. CASE StartCompile
  BY <1>1 DEF StartCompile, CodeInv
<1>2. CASE Passes
  BY <1>2 DEF Passes, CodeInv, tasks
<1>3. ASSUME NEW r \in ranges, Works(r)
      PROVE  CodeInv'
  <2>1. /\ UNCHANGED <<ranges, file>>
        /\ \A q \in ranges : q # r => pc'[q] = pc[q]
    BY <1>3, WorkFrame
  <2>2. pc'[r] \notin {"start", "end"} => file[r] \in HasCode
    <3>1. CASE Start(r)
      BY <3>1 DEF Start, Goto, TypeOK
    <3>2. CASE ~Start(r)
      <4>1. pc[r] \notin {"start", "end"}
        BY <1>3, <3>2 DEF Works, NameConstant, ReadCounter, WriteCounter, Generated, AsFails, Assemble, ReadEnd, WriteEnd, At
      <4> QED BY <4>1 DEF CodeInv
    <3> QED BY <3>1, <3>2
  <2> QED BY <2>1, <2>2 DEF CodeInv
<1> QED BY <1>1, <1>2, <1>3, Steps

LEMMA JoinedStep ==
  ASSUME TypeOK, JoinedInv, [Next]_vars
  PROVE  JoinedInv'
<1>1. CASE StartCompile
  BY <1>1 DEF StartCompile, JoinedInv
<1>2. CASE Passes
  BY <1>2 DEF Passes, Link, JoinedInv, tasks
<1>3. ASSUME NEW r \in ranges, Works(r)
      PROVE  JoinedInv'
  BY <1>3, WorkFrame DEF JoinedInv
<1> QED BY <1>1, <1>2, <1>3, Steps

LEMMA OrderStep ==
  ASSUME TypeOK, EnvInv, RangesInv, OrderInv, [Next]_vars
  PROVE  OrderInv'
<1>1. CASE StartCompile
  BY <1>1 DEF StartCompile, OrderInv
<1>2. CASE Passes
  BY <1>2 DEF Passes, OrderInv, tasks, options
<1>3. ASSUME NEW r \in ranges, Works(r)
      PROVE  OrderInv'
  <2> SUFFICES ASSUME ~parallel, NEW p \in ranges, NEW q \in ranges,
                      p[1] < q[1], pc'[q] # "start"
               PROVE  pc'[p] = "end"
    BY <1>3, WorkFrame DEF OrderInv, options
  <2>1. p[1] \in 1..Files /\ q[1] \in 1..Files /\ r[1] \in 1..Files
    <3>1. \A t \in (1..Files) \X (1..Files) : t[1] \in 1..Files
      OBVIOUS
    <3> QED BY <3>1 DEF TypeOK
  <2>2. CASE q = r
    BY <1>3, <2>1, <2>2, WorkFrame
  <2>3. CASE q # r
    BY <1>3, <2>1, <2>3, WorkFrame DEF OrderInv
  <2> QED BY <2>2, <2>3
<1> QED BY <1>1, <1>2, <1>3, Steps

-----------------------------------------------------------------------------
\* The objects on the disk, and the names of them in the vector.
LEMMA DiskStep ==
  ASSUME TypeOK, EnvInv, RangesInv, FreshInv, CodeInv, DiskInv, [Next]_vars
  PROVE  DiskInv'
<1>1. CASE StartCompile
  BY <1>1 DEF StartCompile, DiskInv, Succeeds, Output, options
<1>2. CASE Passes
  BY <1>2 DEF Passes, DiskInv, Succeeds, Output, options, tasks
<1>3. ASSUME NEW r \in ranges, Works(r)
      PROVE  DiskInv'
  <2>1. /\ UNCHANGED <<assemble, link, parallel, env, ranges, file>>
        /\ \A q \in ranges : q # r => pc'[q] = pc[q]
        /\ pc \in [ranges -> {"start", "generate", "read", "write", "assemble", "push", "store", "end"}]
    <3>1. pc \in [ranges -> {"start", "generate", "read", "write", "assemble", "push", "store", "end"}]
      BY DEF TypeOK
    <3> QED BY <1>3, <3>1, WorkFrame DEF options
  <2>2. \A q \in ranges : file[q] \in 1..Files /\ Output(file[q]) \in Paths
    BY OutputIsPath DEF TypeOK
  <2>3. disk \in [Paths -> 0..Files] /\ objectFiles \in Seq(Paths)
    BY DEF TypeOK
  <2>4. CASE Assemble(r)
    <3>1. /\ disk' = [disk EXCEPT ![Output(file[r])] = file[r]]
          /\ objectFiles' = objectFiles
          /\ file[r] \in HasCode /\ Succeeds(file[r]) /\ file[r] # 0
      BY <2>2, <2>4 DEF Assemble, At, CodeInv, Succeeds
    <3>2. \A p \in Paths : disk'[p] = IF p = Output(file[r]) THEN file[r] ELSE disk[p]
      BY <2>3, <3>1
    <3>3. \A p \in Paths : disk[p] # 0 => disk'[p] # 0
      BY <3>1, <3>2
    <3>4. \A p \in Paths : disk'[p] # 0 =>
            disk'[p] \in HasCode /\ Succeeds(disk'[p]) /\ Output(disk'[p]) = p
      BY <3>1, <3>2 DEF DiskInv
    <3>5. \A q \in ranges : pc'[q] \in {"push", "store"} => disk'[Output(file[q])] # 0
      BY <2>1, <2>2, <3>1, <3>2, <3>3 DEF DiskInv
    <3>6. \A i \in DOMAIN objectFiles' : disk'[objectFiles'[i]] # 0
      BY <2>3, <3>1, <3>3 DEF DiskInv
    <3> QED BY <2>1, <3>4, <3>5, <3>6 DEF DiskInv, Succeeds, Output
  <2>5. CASE WriteEnd(r)
    <3>1. disk' = disk /\ disk[Output(file[r])] # 0
      BY <2>5 DEF WriteEnd, At, DiskInv
    <3>2. \A i \in DOMAIN objectFiles' : disk[objectFiles'[i]] # 0
      BY <2>5, <3>1 DEF WriteEnd, DiskInv
    <3>3. pc'[r] = "end"
      BY <2>1, <2>5 DEF WriteEnd, Goto
    <3> QED BY <2>1, <3>1, <3>2, <3>3 DEF DiskInv, Succeeds, Output
  <2>6. CASE ~Assemble(r) /\ ~WriteEnd(r)
    <3>1. UNCHANGED <<disk, objectFiles>>
      BY <1>3, <2>6 DEF Works, Start, NameConstant, ReadCounter, WriteCounter, Generated, AsFails, ReadEnd
    <3>2. pc'[r] \in {"push", "store"} => pc[r] \in {"push", "store"}
      BY <1>3, <2>1, <2>6 DEF Works, Start, NameConstant, ReadCounter, WriteCounter, Generated, AsFails, ReadEnd, Goto, At
    <3> QED BY <2>1, <3>1, <3>2 DEF DiskInv, Succeeds, Output
  <2> QED BY <2>4, <2>5, <2>6
<1> QED BY <1>1, <1>2, <1>3, Steps

LEMMA LinkedStep ==
  ASSUME TypeOK, LinkedInv, [Next]_vars
  PROVE  LinkedInv'
<1>1. CASE StartCompile
  BY <1>1 DEF StartCompile, LinkedInv
<1>2. CASE Passes
  <2>1. CASE Link
    <3>1. /\ linked' = [i \in 1..size |-> disk[objectFiles[i]]]
          /\ ~Duplicate(SubSeq(objectFiles, 1, size))
          /\ UNCHANGED <<size, disk, objectFiles>>
      BY <2>1 DEF Link, tasks
    <3>2. size \in 0..Len(objectFiles) /\ objectFiles \in Seq(Paths)
      BY DEF TypeOK
    <3>3. /\ DOMAIN SubSeq(objectFiles, 1, size) = 1..size
          /\ \A i \in 1..size : SubSeq(objectFiles, 1, size)[i] = objectFiles[i]
      BY <3>2
    <3>4. \A i, j \in 1..size : objectFiles[i] = objectFiles[j] => i = j
      BY <3>1, <3>3 DEF Duplicate
    <3> QED BY <3>1, <3>4 DEF LinkedInv
  <2>2. CASE ~Link
    BY <1>2, <2>2 DEF Passes, LinkedInv, tasks
  <2> QED BY <2>1, <2>2
<1>3. ASSUME NEW r \in ranges, Works(r)
      PROVE  LinkedInv'
  BY <1>3, WorkFrame DEF LinkedInv
<1> QED BY <1>1, <1>2, <1>3, Steps

-----------------------------------------------------------------------------
\* Without threads the counter is ahead of the names, and they differ.
LEMMA NamesStep ==
  ASSUME TypeOK, EnvInv, RangesInv, FreshInv, OrderInv, CounterInv, SequentialNames, [Next]_vars
  PROVE  CounterInv' /\ SequentialNames'
<1>1. CASE StartCompile
  BY <1>1 DEF StartCompile, FreshInv, CounterInv, SequentialNames, options
<1>2. CASE Passes
  BY <1>2 DEF Passes, CounterInv, SequentialNames, options, tasks
<1>3. ASSUME NEW r \in ranges, Works(r)
      PROVE  CounterInv' /\ SequentialNames'
  <2>1. /\ UNCHANGED <<parallel, ranges, file>>
        /\ \A q \in ranges : q # r => pc'[q] = pc[q]
        /\ pc[r] # "end"
    BY <1>3, WorkFrame DEF options
  <2> SUFFICES ASSUME ~parallel PROVE CounterInv' /\ SequentialNames'
    BY <2>1 DEF CounterInv, SequentialNames
  <2>2. pc \in [ranges -> {"start", "generate", "read", "write", "assemble", "push", "store", "end"}]
    BY DEF TypeOK
  <2>3. /\ counter \in Nat
        /\ \A f \in 1..Files : labels[f] \in Seq(Nat)
        /\ file[r] \in 1..Files
    <3>1. counter \in Nat /\ file[r] \in 1..Files
      BY DEF TypeOK
    <3>2. \A f \in 1..Files : labels[f] \in Seq(Nat)
      BY DEF EnvInv
    <3> QED BY <3>1, <3>2
  \* No other task is under way.
  <2>4. \A q \in ranges : q # r => pc[q] \in {"start", "end"}
    <3> SUFFICES ASSUME NEW q \in ranges, q # r PROVE pc[q] \in {"start", "end"}
      OBVIOUS
    <3>1. q[1] \in 1..Files /\ r[1] \in 1..Files /\ q[1] # r[1]
      <4>1. \A t \in (1..Files) \X (1..Files) : t[1] \in 1..Files
        OBVIOUS
      <4> QED BY <4>1 DEF TypeOK, RangesInv
    <3>2. CASE q[1] < r[1]
      BY <1>3, <3>2, WorkFrame
    <3>3. CASE r[1] < q[1]
      BY <2>1, <3>3 DEF OrderInv
    <3> QED BY <3>1, <3>2, <3>3
  <2>5. CASE NameConstant(r)
    <3>1. /\ labels' = [labels EXCEPT ![file[r]] = Append(labels[file[r]], counter)]
          /\ counter' = counter /\ seen' = seen
          /\ pc[r] = "generate" /\ pc'[r] = "read"
      BY <2>2, <2>5 DEF NameConstant, At, Goto
    <3> DEFINE old == labels[file[r]]
               new == Append(old, counter)
    <3>2. /\ DOMAIN new = DOMAIN old \cup {Len(old) + 1}
          /\ \A i \in DOMAIN old : new[i] = old[i] /\ i # Len(old) + 1
          /\ new[Len(old) + 1] = counter
      <4>1. old \in Seq(Nat) /\ counter \in Nat
        BY <2>3
      <4> HIDE DEF old
      <4> QED BY <4>1
    <3>3. \A f \in 1..Files : labels'[f] = IF f = file[r] THEN new ELSE labels[f]
      BY <3>1 DEF EnvInv
    <3>4. \A f \in 1..Files : \A i \in DOMAIN labels[f] : labels[f][i] < counter
      BY <2>4, <3>1 DEF CounterInv
    <3>5. CounterInv'
      <4>1. \A q \in ranges : pc'[q] # "write"
        BY <2>1, <2>4, <3>1
      <4>2. ASSUME NEW f \in 1..Files, NEW i \in DOMAIN labels'[f]
            PROVE  labels'[f][i] < counter \/ (labels'[f][i] = counter /\ pc'[r] \in {"read", "write"})
        BY <3>1, <3>2, <3>3, <3>4
      <4> QED BY <2>1, <3>1, <4>1, <4>2 DEF CounterInv
    <3>6. SequentialNames'
      <4> SUFFICES ASSUME NEW f \in 1..Files, NEW g \in 1..Files,
                          NEW i \in DOMAIN labels'[f], NEW j \in DOMAIN labels'[g],
                          labels'[f][i] = labels'[g][j]
                   PROVE  f = g /\ i = j
        BY DEF SequentialNames
      <4>1. CASE f = file[r] /\ i = Len(old) + 1
        <5>1. labels'[g][j] = counter
          BY <3>2, <3>3, <4>1
        <5>2. ~(j \in DOMAIN labels[g] /\ labels'[g][j] = labels[g][j])
          BY <2>3, <3>4, <5>1
        <5>3. g = file[r]
          BY <3>3, <5>2
        <5>4. j \in DOMAIN new /\ ~(j \in DOMAIN old)
          BY <3>2, <3>3, <5>2, <5>3
        <5> QED BY <3>2, <4>1, <5>3, <5>4
      <4>2. CASE g = file[r] /\ j = Len(old) + 1
        <5>1. labels'[f][i] = counter
          BY <3>2, <3>3, <4>2
        <5>2. ~(i \in DOMAIN labels[f] /\ labels'[f][i] = labels[f][i])
          BY <2>3, <3>4, <5>1
        <5> QED BY <3>2, <3>3, <4>2, <5>2
      <4>3. CASE ~(f = file[r] /\ i = Len(old) + 1) /\ ~(g = file[r] /\ j = Len(old) + 1)
        <5>1. /\ i \in DOMAIN labels[f] /\ labels'[f][i] = labels[f][i]
              /\ j \in DOMAIN labels[g] /\ labels'[g][j] = labels[g][j]
          BY <3>2, <3>3, <4>3
        <5>2. labels[f][i] = labels[g][j]
          BY <5>1
        <5>3. \A m \in DOMAIN labels[f], n \in DOMAIN labels[g] :
                labels[f][m] = labels[g][n] => f = g /\ m = n
          BY DEF SequentialNames
        <5> QED BY <5>1, <5>2, <5>3
      <4> QED BY <4>1, <4>2, <4>3
    <3> QED BY <3>5, <3>6
  <2>6. CASE ReadCounter(r)
    <3>1. /\ seen'[r] = counter
          /\ UNCHANGED <<counter, labels>>
          /\ pc[r] = "read" /\ pc'[r] = "write"
      BY <2>2, <2>6 DEF ReadCounter, At, Goto, TypeOK
    <3>2. CounterInv'
      BY <2>1, <2>4, <3>1 DEF CounterInv
    <3> QED BY <3>1, <3>2 DEF SequentialNames
  <2>7. CASE WriteCounter(r)
    <3>1. /\ counter' = counter + 1
          /\ UNCHANGED labels
          /\ pc[r] = "write" /\ pc'[r] = "generate"
      BY <2>2, <2>7 DEF WriteCounter, At, Goto, CounterInv
    <3>2. \A f \in 1..Files : \A i \in DOMAIN labels[f] : labels[f][i] \in Nat
      BY <2>3
    <3>3. \A f \in 1..Files : \A i \in DOMAIN labels[f] : labels[f][i] < counter'
      <4>1. \A f \in 1..Files : \A i \in DOMAIN labels[f] : labels[f][i] <= counter
        BY <2>3, <3>2 DEF CounterInv
      <4> QED BY <2>3, <3>1, <3>2, <4>1
    <3>4. \A q \in ranges : pc'[q] # "write"
      BY <2>1, <2>4, <3>1
    <3> QED BY <2>1, <3>1, <3>3, <3>4 DEF CounterInv, SequentialNames
  <2>8. CASE ~NameConstant(r) /\ ~ReadCounter(r) /\ ~WriteCounter(r)
    <3>1. UNCHANGED <<counter, seen, labels>>
      BY <1>3, <2>8 DEF Works, Start, Generated, AsFails, Assemble, ReadEnd, WriteEnd
    <3>2. pc[r] \notin {"read", "write"} /\ pc'[r] # "write"
      BY <1>3, <2>2, <2>8 DEF Works, Start, Generated, AsFails, Assemble, ReadEnd, WriteEnd, At, Goto
    <3> QED BY <2>1, <2>4, <3>1, <3>2 DEF CounterInv, SequentialNames
  <2> QED BY <2>5, <2>6, <2>7, <2>8
<1> QED BY <1>1, <1>2, <1>3, Steps

-----------------------------------------------------------------------------
\* Without threads the vector grows by the output of the next file.
LEMMA CollectedStep ==
  ASSUME TypeOK, EnvInv, RangesInv, FreshInv, CodeInv, DiskInv, OrderInv,
         SequentialNames, CollectedInv, [Next]_vars
  PROVE  CollectedInv'
<1>1. CASE StartCompile
  BY <1>1 DEF StartCompile, FreshInv, CollectedInv, options
<1>2. CASE Passes
  BY <1>2 DEF Passes, CollectedInv, Apart, Succeeds, Output, options, tasks
<1>3. ASSUME NEW r \in ranges, Works(r)
      PROVE  CollectedInv'
  <2>1. /\ UNCHANGED <<assemble, parallel, env, ranges, file>>
        /\ \A q \in ranges : q # r => pc'[q] = pc[q]
        /\ pc[r] # "end"
    BY <1>3, WorkFrame DEF options
  <2> SUFFICES ASSUME ~parallel, assemble, Apart PROVE CollectedInv'
    BY <2>1 DEF CollectedInv, Apart, Output
  <2>2. /\ pc \in [ranges -> {"start", "generate", "read", "write", "assemble", "push", "store", "end"}]
        /\ objectFiles \in Seq(Paths)
        /\ disk \in [Paths -> 0..Files]
        /\ end \in [ranges -> 0..Len(objectFiles)]
        /\ \A q \in ranges : file[q] \in 1..Files
    <3>1. file \in [ranges -> 1..Files]
      BY DEF TypeOK
    <3>2. \A q \in ranges : file[q] \in 1..Files
      BY <3>1
    <3>3. pc \in [ranges -> {"start", "generate", "read", "write", "assemble", "push", "store", "end"}]
      BY DEF TypeOK
    <3> QED BY <3>2, <3>3 DEF TypeOK
  <2>3. /\ \A q \in ranges : pc[q] = "store" => end[q] = size
        /\ size = Len(objectFiles)
        /\ \A i \in DOMAIN objectFiles :
             \E q \in ranges : pc[q] = "end" /\ file[q] = disk[objectFiles[i]]
        /\ \A i, j \in DOMAIN objectFiles : i < j => disk[objectFiles[i]] < disk[objectFiles[j]]
        /\ \A q \in ranges : pc[q] = "end" /\ Succeeds(file[q]) =>
             \E i \in DOMAIN objectFiles : objectFiles[i] = Output(file[q])
    BY DEF CollectedInv
  <2>4. \A q \in ranges : q # r => pc[q] \in {"start", "end"} /\ (pc[q] = "end" => file[q] < file[r])
    <3> SUFFICES ASSUME NEW q \in ranges, q # r
                 PROVE  pc[q] \in {"start", "end"} /\ (pc[q] = "end" => file[q] < file[r])
      OBVIOUS
    <3>1. /\ q[1] \in 1..Files /\ r[1] \in 1..Files /\ q[1] # r[1]
          /\ file[q] = q[1] /\ file[r] = r[1]
      <4>1. \A t \in (1..Files) \X (1..Files) : t[1] \in 1..Files
        OBVIOUS
      <4> QED BY <4>1 DEF TypeOK, RangesInv
    <3>2. CASE q[1] < r[1]
      BY <1>3, <3>1, <3>2, WorkFrame
    <3>3. CASE r[1] < q[1]
      BY <2>1, <3>1, <3>3 DEF OrderInv
    <3> QED BY <3>1, <3>2, <3>3
  <2>5. Output(file[r]) \in Paths /\ (disk[Output(file[r])] # 0 => disk[Output(file[r])] = file[r])
    <3>1. Output(file[r]) \in Paths
      BY <2>2, OutputIsPath
    <3>2. disk[Output(file[r])] # 0 => disk[Output(file[r])] \in 1..Files
      BY <2>2, <3>1
    <3> QED BY <2>2, <3>1, <3>2 DEF DiskInv, Apart
  <2>6. CASE Start(r) \/ AsFails(r) \/ Generated(r) \/ NameConstant(r) \/ ReadCounter(r) \/ WriteCounter(r)
    <3>1. UNCHANGED <<objectFiles, size, end, disk>>
      BY <2>6 DEF Start, AsFails, Generated, NameConstant, ReadCounter, WriteCounter
    <3>2. pc'[r] # "store"
      BY <2>2, <2>6 DEF Start, AsFails, Generated, NameConstant, ReadCounter, WriteCounter, Goto, At
    <3>3. pc'[r] = "end" => ~Succeeds(file[r])
      <4>1. CASE AsFails(r)
        <5>1. ~Duplicate(labels[file[r]])
          BY <2>2 DEF Duplicate, SequentialNames
        <5> QED BY <4>1, <5>1 DEF AsFails, Succeeds
      <4>2. CASE ~AsFails(r)
        BY <2>2, <2>6, <4>2 DEF Start, Generated, NameConstant, ReadCounter, WriteCounter, Goto, At, Succeeds
      <4> QED BY <4>1, <4>2
    <3> QED BY <2>1, <2>3, <3>1, <3>2, <3>3 DEF CollectedInv, Succeeds, Output
  <2>7. CASE Assemble(r)
    <3>1. /\ disk' = [disk EXCEPT ![Output(file[r])] = file[r]]
          /\ UNCHANGED <<objectFiles, size, end>>
          /\ pc'[r] = "push"
      BY <2>2, <2>7 DEF Assemble, Goto, At
    <3>2. \A i \in DOMAIN objectFiles : objectFiles[i] \in Paths /\ disk'[objectFiles[i]] = disk[objectFiles[i]]
      <4>1. \A p \in Paths : disk'[p] = IF p = Output(file[r]) THEN file[r] ELSE disk[p]
        BY <2>2, <3>1
      <4>2. \A i \in DOMAIN objectFiles : objectFiles[i] \in Paths /\ disk[objectFiles[i]] # 0
        BY <2>2 DEF DiskInv
      <4> QED BY <2>5, <4>1, <4>2
    <3> QED BY <2>1, <2>3, <3>1, <3>2 DEF CollectedInv, Succeeds, Output
  <2>8. CASE ReadEnd(r)
    <3>1. /\ UNCHANGED <<objectFiles, size, disk>>
          /\ end' = [end EXCEPT ![r] = size]
          /\ pc'[r] = "store"
      BY <2>2, <2>8 DEF ReadEnd, Goto, At
    <3>2. \A q \in ranges : pc'[q] = "store" => end'[q] = size
      BY <2>1, <2>2, <2>4, <3>1
    <3> QED BY <2>1, <2>3, <3>1, <3>2 DEF CollectedInv, Succeeds, Output
  <2>9. CASE WriteEnd(r)
    <3> DEFINE n == Len(objectFiles)
    <3>1. /\ disk' = disk /\ end[r] = n /\ size' = n + 1
          /\ objectFiles' = [i \in DOMAIN objectFiles \cup {n + 1} |->
                              IF i = n + 1 THEN Output(file[r]) ELSE objectFiles[i]]
          /\ pc[r] = "store" /\ pc'[r] = "end"
      BY <2>2, <2>3, <2>9 DEF WriteEnd, Goto, At
    <3>2. /\ DOMAIN objectFiles = 1..n /\ n \in Nat
          /\ DOMAIN objectFiles' = 1..(n + 1)
          /\ objectFiles'[n + 1] = Output(file[r])
          /\ \A i \in 1..n : objectFiles'[i] = objectFiles[i]
      BY <2>2, <3>1
    <3>3. disk[Output(file[r])] = file[r]
      BY <2>5, <3>1 DEF DiskInv
    <3>4. size' = Len(objectFiles')
      <4>1. objectFiles' \in [1..(n + 1) -> Paths]
        BY <2>2, <2>5, <3>1, <3>2
      <4> QED BY <3>1, <3>2, <4>1
    <3>5. \A i \in 1..n : disk[objectFiles[i]] < file[r]
      BY <2>1, <2>3, <2>4, <3>2
    <3>6. \A i, j \in 1..(n + 1) : i < j => disk[objectFiles'[i]] < disk[objectFiles'[j]]
      <4> SUFFICES ASSUME NEW i \in 1..(n + 1), NEW j \in 1..(n + 1), i < j
                   PROVE  disk[objectFiles'[i]] < disk[objectFiles'[j]]
        OBVIOUS
      <4>1. i \in 1..n /\ (j \in 1..n \/ j = n + 1)
        BY <3>2
      <4> QED BY <2>3, <3>2, <3>3, <3>5, <4>1
    <3>7. \A i \in 1..(n + 1) : \E q \in ranges : pc'[q] = "end" /\ file[q] = disk[objectFiles'[i]]
      <4> SUFFICES ASSUME NEW i \in 1..(n + 1)
                   PROVE  \E q \in ranges : pc'[q] = "end" /\ file[q] = disk[objectFiles'[i]]
        OBVIOUS
      <4>1. CASE i = n + 1
        BY <3>1, <3>2, <3>3, <4>1
      <4>2. CASE i \in 1..n
        BY <2>1, <2>3, <3>2, <4>2
      <4> QED BY <3>2, <4>1, <4>2
    <3>8. \A q \in ranges : pc'[q] = "end" /\ Succeeds(file[q]) =>
            \E i \in 1..(n + 1) : objectFiles'[i] = Output(file[q])
      <4> SUFFICES ASSUME NEW q \in ranges, pc'[q] = "end", Succeeds(file[q])
                   PROVE  \E i \in 1..(n + 1) : objectFiles'[i] = Output(file[q])
        OBVIOUS
      <4>1. CASE q = r
        <5>1. n + 1 \in 1..(n + 1)
          BY <3>2
        <5> QED BY <3>2, <4>1, <5>1
      <4>2. CASE q # r
        <5>1. PICK i \in 1..n : objectFiles[i] = Output(file[q])
          BY <2>1, <2>3, <3>2, <4>2
        <5>2. i \in 1..(n + 1)
          BY <3>2
        <5> QED BY <3>2, <5>1, <5>2
      <4> QED BY <4>1, <4>2
    <3>9. \A q \in ranges : pc'[q] # "store"
      BY <2>1, <2>4, <3>1
    <3>10. /\ \A i, j \in DOMAIN objectFiles' : i < j => disk'[objectFiles'[i]] < disk'[objectFiles'[j]]
           /\ \A i \in DOMAIN objectFiles' :
                \E q \in ranges' : pc'[q] = "end" /\ file'[q] = disk'[objectFiles'[i]]
      <4>1. disk' = disk /\ file' = file /\ ranges' = ranges
        BY <2>1, <3>1
      <4> QED BY <3>2, <3>6, <3>7, <4>1
    <3>11. \A q \in ranges' : pc'[q] = "end" /\ Succeeds(file[q]) =>
             \E i \in DOMAIN objectFiles' : objectFiles'[i] = Output(file[q])
      BY <2>1, <3>2, <3>8
    <3> QED BY <2>1, <3>4, <3>9, <3>10, <3>11 DEF CollectedInv, Succeeds, Output
  <2> QED BY <1>3, <2>6, <2>7, <2>8, <2>9 DEF Works
<1> QED BY <1>1, <1>2, <1>3, Steps

-----------------------------------------------------------------------------
LEMMA InitInv == Init => IInv
<1> SUFFICES ASSUME Init PROVE IInv
  OBVIOUS
<1>1. \A f \in 1..Files : labels[f] = <<>> /\ Len(labels[f]) = 0
  BY DEF Init
<1>2. TypeOK
  BY <1>1, FilesAssumption DEF Init, TypeOK, Frontend
<1>3. EnvInv
  BY <1>1 DEF Init, EnvInv
<1>4. RangesInv /\ FreshInv /\ CodeInv /\ JoinedInv /\ LinkedInv /\ OrderInv
  BY DEF Init, RangesInv, FreshInv, CodeInv, JoinedInv, LinkedInv, OrderInv
<1>5. DiskInv
  BY DEF Init, DiskInv
<1>6. CounterInv /\ SequentialNames
  BY <1>1 DEF Init, CounterInv, SequentialNames
<1>7. CollectedInv
  BY DEF Init, CollectedInv
<1> QED BY <1>2, <1>3, <1>4, <1>5, <1>6, <1>7 DEF IInv

\* The inductive invariant of the driver (main.cpp:106-201).
THEOREM Invariance == Spec => []IInv
<1>1. IInv /\ [Next]_vars => IInv'
  BY TypeStep, RangesStep, FreshStep, CodeStep, JoinedStep, OrderStep, DiskStep,
     LinkedStep, NamesStep, CollectedStep DEF IInv
<1> QED BY <1>1, InitInv, PTL DEF Spec

\* Every variable keeps its type, whatever the threads do (main.cpp:106-178).
THEOREM TypeCorrect == Spec => []TypeOK
<1>1. IInv => TypeOK
  BY DEF IInv
<1> QED BY <1>1, Invariance, PTL

\* Compiled one after the other, no two constants share a name, however many
\* files and constants there are (code_generator.cpp:1036-1040).
THEOREM NamesAreUnique == Spec => []SequentialNames
<1>1. IInv => SequentialNames
  BY DEF IInv
<1> QED BY <1>1, Invariance, PTL

\* However many threads interleave, the linker is given only objects that `as'
\* made, and none of them twice (main.cpp:148-158).
THEOREM OnlyAssembledAreLinked == Spec => []LinkedWereAssembled
<1>1. IInv => LinkedWereAssembled
  <2> SUFFICES ASSUME IInv, phase = "linked"
               PROVE  /\ \A i \in DOMAIN linked : linked[i] \in HasCode /\ Succeeds(linked[i])
                      /\ ~Duplicate(linked)
    BY DEF LinkedWereAssembled
  <2>1. /\ linked = [i \in 1..size |-> disk[objectFiles[i]]]
        /\ \A i, j \in 1..size : objectFiles[i] = objectFiles[j] => i = j
    BY DEF IInv, LinkedInv
  <2>2. \A i \in 1..size : i \in DOMAIN objectFiles /\ objectFiles[i] \in Paths
    BY DEF IInv, TypeOK
  <2>3. \A i \in 1..size : /\ linked[i] \in HasCode /\ Succeeds(linked[i])
                           /\ Output(linked[i]) = objectFiles[i]
    BY <2>1, <2>2 DEF IInv, DiskInv
  <2>4. ~Duplicate(linked)
    BY <2>1, <2>3 DEF Duplicate
  <2> QED BY <2>1, <2>3, <2>4
<1> QED BY <1>1, Invariance, PTL

\* Compiled one after the other, exactly the files that assemble are linked,
\* once each and in their order (main.cpp:174-176, 187-189).
THEOREM AllAreLinkedInOrder == Spec => []SequentialLinksAll
<1>1. IInv => SequentialLinksAll
  <2> SUFFICES ASSUME IInv, phase = "linked", ~parallel, assemble, Apart
               PROVE  /\ {linked[i] : i \in DOMAIN linked} = {f \in 1..Files : Succeeds(f)}
                      /\ \A i, j \in DOMAIN linked : i < j => linked[i] < linked[j]
    BY DEF SequentialLinksAll
  <2>1. /\ linked = [i \in 1..size |-> disk[objectFiles[i]]]
        /\ 1..size = DOMAIN objectFiles
        /\ \A i \in 1..size : objectFiles[i] \in Paths
    BY DEF IInv, LinkedInv, CollectedInv, TypeOK
  <2>2. \A i, j \in DOMAIN linked : i < j => linked[i] < linked[j]
    BY <2>1 DEF IInv, CollectedInv
  <2>3. \A i \in DOMAIN linked : linked[i] \in 1..Files /\ Succeeds(linked[i])
    BY <2>1, FilesAssumption DEF IInv, DiskInv
  <2>4. ASSUME NEW f \in 1..Files, Succeeds(f)
        PROVE  \E i \in DOMAIN linked : linked[i] = f
    <3>1. PICK r \in ranges : file[r] = f /\ pc[r] = "end"
      <4>1. <<f, f>> \in ranges
        BY DEF IInv, RangesInv
      <4> QED BY <4>1 DEF IInv, RangesInv, JoinedInv
    <3>2. PICK i \in 1..size : objectFiles[i] = Output(f)
      BY <2>1, <2>4, <3>1 DEF IInv, CollectedInv
    <3>3. disk[Output(f)] \in 1..Files /\ Output(disk[Output(f)]) = Output(f)
      BY <2>1, <3>2, FilesAssumption DEF IInv, DiskInv
    <3> QED BY <2>1, <3>2, <3>3 DEF Apart
  <2> QED BY <2>2, <2>3, <2>4
<1> QED BY <1>1, Invariance, PTL
=============================================================================
