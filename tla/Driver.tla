------------------------------- MODULE Driver -------------------------------
(***************************************************************************)
(* main of src/src/main.cpp: the stages of the front end one after the     *)
(* other, the `compile' lambda for every file, one after the other or in   *)
(* the ranges tbb::parallel_for hands to its threads, and the link.        *)
(*                                                                         *)
(* The threads share the vector objectFiles and the static counter that    *)
(* names the constants (code_generator.cpp:1036), neither of them guarded: *)
(* the reads and writes of a push_back and of an increment are steps.      *)
(***************************************************************************)
EXTENDS Naturals, Sequences, FiniteSets

CONSTANTS
  Files,      \* how many SSA files there are
  HasCode,    \* those with a function that is not external
  Constants,  \* how many strings and floating point constants each file has
  Outputs     \* the ways paths, without their extension, are given to the outputs

ASSUME FilesAssumption ==
  /\ Files \in Nat /\ HasCode \subseteq 1..Files
  /\ Constants \in [1..Files -> Nat]
  /\ \A o \in Outputs : DOMAIN o = 1..Files

Frontend == <<"tokenize", "parse", "fillTypes", "processAST", "analyze", "build">>

VARIABLES
  assemble, link, parallel,  \* the flags given
  env,         \* is BRAW_STDLIB set, for which files does `as' fail, and where
               \* do the outputs go?  (main.cpp:119-127 writes "back" for "..")
  stage,       \* how many stages of the front end are done
  phase,       \* "frontend", "compile", "link", and "linked" or "exit"
  code,        \* what main returns
  ranges,      \* the ranges of files that are handed out, as <<first, last>>
  pc,          \* where the task of each range is
  file,        \* the file the task of each range compiles
  counter,     \* the static counter
  seen,        \* what each task last read of it
  labels,      \* the labels of each file's data section, in order
  objectFiles, \* what the memory of the vector objectFiles holds
  size,        \* how many elements it has
  end,         \* what each task last read of its size
  disk,        \* which file the object at each output path was made from
  linked       \* the files the executable was linked from

vars == <<assemble, link, parallel, env, stage, phase, code, ranges, pc, file,
          counter, seen, labels, objectFiles, size, end, disk, linked>>
options == <<assemble, link, parallel, env>>
tasks == <<ranges, pc, file, counter, seen, labels, objectFiles, size, end, disk>>

Paths == {o[f] : o \in Outputs, f \in 1..Files}
Output(f) == env.output[f]

\* The ways to cut 1..Files into ranges.
Cuts == SUBSET (1..(Files - 1))
Ranges(cut) ==
  {r \in (1..Files) \X (1..Files) :
     /\ r[1] <= r[2]
     /\ r[1] = 1 \/ r[1] - 1 \in cut
     /\ r[2] = Files \/ r[2] \in cut
     /\ \A k \in r[1]..(r[2] - 1) : k \notin cut}

Init ==
  /\ assemble \in BOOLEAN /\ link \in BOOLEAN /\ parallel \in BOOLEAN
  /\ env \in [stdlib : BOOLEAN, asFails : SUBSET HasCode, output : Outputs]
  /\ stage = 0 /\ phase = "frontend" /\ code = 0
  /\ ranges = {} /\ pc = <<>> /\ file = <<>>
  /\ counter = 0 /\ seen = <<>>
  /\ labels = [f \in 1..Files |-> <<>>]
  /\ objectFiles = <<>> /\ size = 0 /\ end = <<>>
  /\ disk = [p \in Paths |-> 0]
  /\ linked = <<>>

\* Lines 69-100: a stage that reports an error ends the program with 1.
\* SSA::Builder::build, the last one, reports none (line 107).
StageFails ==
  /\ phase = "frontend" /\ stage + 1 < Len(Frontend)
  /\ phase' = "exit" /\ code' = 1
  /\ UNCHANGED <<options, stage, tasks, linked>>

StageDone_Again ==
  /\ phase = "frontend"
  /\ stage' = stage + 1
  /\ UNCHANGED <<options, phase, code, tasks, linked>>
StageDone ==
  /\ phase = "frontend" /\ stage < Len(Frontend)
  /\ stage' = stage + 1
  /\ UNCHANGED <<options, phase, code, tasks, linked>>

(***************************************************************************)
(* Lines 161-177.  parallel_for calls its body with ranges of any length,  *)
(* and the body compiles the file at r.begin(); the loop compiles each.    *)
(***************************************************************************)
StartCompile ==
  /\ phase = "frontend" /\ stage = Len(Frontend)
  /\ phase' = "compile"
  /\ IF parallel THEN \E cut \in Cuts : ranges' = Ranges(cut)
                 ELSE ranges' = {<<f, f>> : f \in 1..Files}
  /\ pc' = [r \in ranges' |-> "start"]
  /\ file' = [r \in ranges' |-> r[1]]
  /\ seen' = [r \in ranges' |-> 0]
  /\ end' = [r \in ranges' |-> 0]
  /\ UNCHANGED <<options, stage, code, counter, labels, objectFiles, size, disk, linked>>

At_Unordered(r, where) == phase = "compile" /\ pc[r] = where

\* The next step of r's task; without threads, those before it have ended.
At(r, where) ==
  /\ phase = "compile" /\ pc[r] = where
  /\ parallel \/ \A q \in ranges : q[1] < r[1] => pc[q] = "end"
Goto(r, where) == pc' = [pc EXCEPT ![r] = where]

\* Lines 110-117.
Start(r) ==
  /\ At(r, "start")
  /\ Goto(r, IF file[r] \in HasCode THEN "generate" ELSE "end")
  /\ UNCHANGED <<options, stage, phase, code, ranges, file, counter, seen, labels, objectFiles, size, end, disk, linked>>

\* Lines 134-146 with code_generator.cpp:1035-1041: a constant is named by the counter.
NameConstant(r) ==
  /\ At(r, "generate") /\ Len(labels[file[r]]) < Constants[file[r]]
  /\ labels' = [labels EXCEPT ![file[r]] = Append(@, counter)]
  /\ Goto(r, "read")
  /\ UNCHANGED <<options, stage, phase, code, ranges, file, counter, seen, objectFiles, size, end, disk, linked>>

ReadCounter(r) ==
  /\ At(r, "read")
  /\ seen' = [seen EXCEPT ![r] = counter]
  /\ Goto(r, "write")
  /\ UNCHANGED <<options, stage, phase, code, ranges, file, counter, labels, objectFiles, size, end, disk, linked>>

WriteCounter(r) ==
  /\ At(r, "write")
  /\ counter' = seen[r] + 1
  /\ Goto(r, "generate")
  /\ UNCHANGED <<options, stage, phase, code, ranges, file, seen, labels, objectFiles, size, end, disk, linked>>

Generated(r) ==
  /\ At(r, "generate") /\ Len(labels[file[r]]) = Constants[file[r]]
  /\ Goto(r, IF assemble THEN "assemble" ELSE "end")
  /\ UNCHANGED <<options, stage, phase, code, ranges, file, counter, seen, labels, objectFiles, size, end, disk, linked>>

Duplicate(s) == \E i, j \in DOMAIN s : i # j /\ s[i] = s[j]

\* Lines 148-156: as refuses a label that is defined twice; a failure is logged.
AsFails_Pushed(r) ==
  /\ At(r, "assemble")
  /\ file[r] \in env.asFails \/ Duplicate(labels[file[r]])
  /\ Goto(r, "push")
  /\ UNCHANGED <<options, stage, phase, code, ranges, file, counter, seen, labels, objectFiles, size, end, disk, linked>>
AsFails(r) ==
  /\ At(r, "assemble")
  /\ file[r] \in env.asFails \/ Duplicate(labels[file[r]])
  /\ Goto(r, "end")
  /\ UNCHANGED <<options, stage, phase, code, ranges, file, counter, seen, labels, objectFiles, size, end, disk, linked>>

Assemble(r) ==
  /\ At(r, "assemble")
  /\ ~(file[r] \in env.asFails \/ Duplicate(labels[file[r]]))
  /\ disk' = [disk EXCEPT ![Output(file[r])] = file[r]]
  /\ Goto(r, "push")
  /\ UNCHANGED <<options, stage, phase, code, ranges, file, counter, seen, labels, objectFiles, size, end, linked>>

\* Line 158: push_back reads the end of the vector, then writes there.
ReadEnd(r) ==
  /\ At(r, "push")
  /\ end' = [end EXCEPT ![r] = size]
  /\ Goto(r, "store")
  /\ UNCHANGED <<options, stage, phase, code, ranges, file, counter, seen, labels, objectFiles, size, disk, linked>>

\* When another thread came between, the last one to write decides the size:
\* it may name elements again that an earlier write had cut off.
WriteEnd(r) ==
  /\ At(r, "store")
  /\ objectFiles' = [i \in DOMAIN objectFiles \cup {end[r] + 1} |->
                       IF i = end[r] + 1 THEN Output(file[r]) ELSE objectFiles[i]]
  /\ size' = end[r] + 1
  /\ Goto(r, "end")
  /\ UNCHANGED <<options, stage, phase, code, ranges, file, counter, seen, labels, end, disk, linked>>

\* ... or the vector, given up by one of them, brings the program down.
Crash(r) ==
  /\ At(r, "store") /\ end[r] # size
  /\ phase' = "exit" /\ code' = 139
  /\ UNCHANGED <<options, stage, tasks, linked>>

\* Lines 159, 171: all calls of compile have returned.
Joined_CountsObjects ==
  /\ phase = "compile" /\ \A r \in ranges : pc[r] = "end"
  /\ size = Cardinality(HasCode)
  /\ phase' = IF link THEN "link" ELSE "exit"
  /\ UNCHANGED <<options, stage, code, tasks, linked>>
Joined ==
  /\ phase = "compile" /\ \A r \in ranges : pc[r] = "end"
  /\ phase' = IF link THEN "link" ELSE "exit"
  /\ UNCHANGED <<options, stage, code, tasks, linked>>

\* Lines 180-184.
NoStdlib ==
  /\ phase = "link" /\ ~env.stdlib
  /\ phase' = "exit" /\ code' = 1
  /\ UNCHANGED <<options, stage, tasks, linked>>

\* Lines 186-201: gcc links what the paths in objectFiles hold, or fails.
LinkFails ==
  /\ phase = "link" /\ env.stdlib
  /\ phase' = "exit" /\ code' = 1
  /\ UNCHANGED <<options, stage, tasks, linked>>

Link ==
  /\ phase = "link" /\ env.stdlib
  /\ ~Duplicate(SubSeq(objectFiles, 1, size))
  /\ linked' = [i \in 1..size |-> disk[objectFiles[i]]]
  /\ phase' = "linked"
  /\ UNCHANGED <<options, stage, code, tasks>>

Exit == phase \in {"exit", "linked"} /\ UNCHANGED vars

Next ==
  \/ StageFails \/ StageDone \/ StartCompile
  \/ \E r \in ranges :
       \/ Start(r)
       \/ NameConstant(r) \/ ReadCounter(r) \/ WriteCounter(r)
       \/ Generated(r) \/ AsFails(r) \/ Assemble(r)
       \/ ReadEnd(r) \/ WriteEnd(r) \/ Crash(r)
  \/ Joined \/ NoStdlib \/ LinkFails \/ Link \/ Exit

Spec == Init /\ [][Next]_vars

\* The stages and the calls of compile run to their end.
FairSpec == Spec /\ WF_vars(Next)

-----------------------------------------------------------------------------

\* Every variable has its type (main.cpp:106-107).
TypeOK ==
  /\ stage \in 0..Len(Frontend)
  /\ phase \in {"frontend", "compile", "link", "linked", "exit"}
  /\ code \in {0, 1, 139}
  /\ ranges \subseteq (1..Files) \X (1..Files)
  /\ pc \in [ranges -> {"start", "generate", "read", "write", "assemble", "push", "store", "end"}]
  /\ file \in [ranges -> 1..Files]
  /\ counter \in Nat /\ seen \in [ranges -> Nat]
  /\ \A f \in 1..Files : Len(labels[f]) <= Constants[f]
  /\ objectFiles \in Seq(Paths) /\ size \in 0..Len(objectFiles)
  /\ end \in [ranges -> 0..Len(objectFiles)]
  /\ disk \in [Paths -> 0..Files]

Succeeds(f) == f \in HasCode /\ f \notin env.asFails
Apart == \A f, g \in 1..Files : Output(f) = Output(g) => f = g

(***************************************************************************)
(* Compiled one after the other, the files that assemble are linked, all   *)
(* of them, once each and in their order (main.cpp:174-176, 187-189).      *)
(***************************************************************************)
SequentialLinksAll ==
  phase = "linked" /\ ~parallel /\ assemble /\ Apart =>
    /\ {linked[i] : i \in DOMAIN linked} = {f \in 1..Files : Succeeds(f)}
    /\ \A i, j \in DOMAIN linked : i < j => linked[i] < linked[j]

(***************************************************************************)
(* Compiled one after the other, no two constants of the program have one  *)
(* name (code_generator.cpp:1036-1040).                                    *)
(***************************************************************************)
SequentialNames ==
  ~parallel =>
    \A f, g \in 1..Files : \A i \in DOMAIN labels[f], j \in DOMAIN labels[g] :
      labels[f][i] = labels[g][j] => f = g /\ i = j

(***************************************************************************)
(* Whatever the threads do, the linker is given only objects that `as' has *)
(* made of a file with code, and none of them twice (main.cpp:148-158).    *)
(***************************************************************************)
LinkedWereAssembled ==
  phase = "linked" =>
    /\ \A i \in DOMAIN linked : linked[i] \in HasCode /\ Succeeds(linked[i])
    /\ ~Duplicate(linked)

(***************************************************************************)
(* The compiler ends, also when a file fails to assemble or a thread is    *)
(* overtaken (main.cpp:161-207).                                           *)
(***************************************************************************)
Terminates == <>(phase \in {"linked", "exit"})

=============================================================================
