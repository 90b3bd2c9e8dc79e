------------------------- MODULE SessionStoreProofs -------------------------
(***************************************************************************)
(* What the session files promise, for any number of terminals, sessions   *)
(* and lines, with faults and crashes at every step, as long as no two     *)
(* terminals number their temporary files alike:                           *)
(*                                                                         *)
(*   - a file that can be read changes only when a finished temporary file *)
(*     takes its place (FilesReplacedWhole);                               *)
(*   - a session is found under its identifier, and once                   *)
(*     (SessionsFindable);                                                 *)
(*   - a session on disk is always a conversation that a terminal held     *)
(*     when it saved it, and opening it gives that conversation as far as  *)
(*     the format keeps it, which is all but how a failed tool call failed *)
(*     and the form of JSON texts (SessionsDurable: SessionStore           *)
(*     implements DurableSessions; ContextKept, which asks for the rest,   *)
(*     is violated).                                                       *)
(*                                                                         *)
(* The first rests on an invariant about names (Inv), the others also on   *)
(* one about contents (Hold) and on what the encoding keeps (RoundTrip).   *)
(***************************************************************************)
EXTENDS SessionStore, SequenceTheorems, NaturalsInduction, FiniteSetTheorems, TLAPS

\* The temporary names of a process: its own numbers.
OwnTemporaries(p) ==
    {<<"session", n>> : n \in FirstId[p] .. LastId[p]}
    \cup {<<"model", n>> : n \in FirstChoice[p] .. LastChoice[p]}

\* A name that no process uses for a temporary file.
Lasting(n) == n # Closed /\ \A q \in Processes : n \notin OwnTemporaries(q)

Saving(p) == pc[p] \in {"open", "write", "publish"}

\* The parts of the invariant: the variables are functions over the processes;
\* a process that saves has a temporary name of its own and a lasting target;
\* what it has open is its temporary, which is empty until it is written and
\* has all the lines from then on.
Functional ==
    /\ pc = [p \in Processes |-> pc[p]]
    /\ fd = [p \in Processes |-> fd[p]]
    /\ job = [p \in Processes |-> job[p]]
    /\ choices \in [Processes -> Nat]
    /\ \A p \in Processes : choices[p] >= FirstChoice[p]

OwnNames ==
    \A p \in Processes : Saving(p) =>
        job[p].temp \in OwnTemporaries(p) /\ Lasting(job[p].to)

OpenFiles ==
    \A p \in Processes :
        /\ pc[p] # "write" => fd[p] = Closed
        /\ pc[p] = "write" => /\ fd[p] = job[p].temp
                              /\ job[p].temp \in DOMAIN file
                              /\ file[job[p].temp] = <<>>
        /\ pc[p] = "publish" => /\ job[p].temp \in DOMAIN file
                                /\ file[job[p].temp] = job[p].lines

Inv == Functional /\ OwnNames /\ OpenFiles

-----------------------------------------------------------------------------
(* Names. *)

\* A temporary name is not the name of a file that can be read.
LEMMA TemporaryIsNotReadable ==
    ASSUME NEW p \in Processes, NEW n \in OwnTemporaries(p)
    PROVE  /\ n \notin Readable
           /\ \A i : <<"tea", i>> # n
           /\ n # Closed
           /\ n # Unlinked
<1>1. /\ \A i : <<"tea", i>> # n /\ <<"pi", i>> # n
      /\ n # <<"last-model">>
      /\ n # <<"closed">>
      /\ n # <<"unlinked">>
  BY DEF OwnTemporaries
<1>2. n \notin SessionNames
  BY <1>1 DEF SessionNames
<1> QED
  BY <1>1, <1>2 DEF Readable, Preference, Closed, Unlinked

\* Two processes have no temporary name in common.
LEMMA TemporariesApart ==
    ASSUME NumbersApart,
           NEW p \in Processes, NEW q \in Processes, p # q,
           NEW m \in OwnTemporaries(p), NEW n \in OwnTemporaries(q)
    PROVE  m # n
<1>1. /\ (FirstId[p] .. LastId[p]) \cap (FirstId[q] .. LastId[q]) = {}
      /\ (FirstChoice[p] .. LastChoice[p]) \cap (FirstChoice[q] .. LastChoice[q]) = {}
  BY DEF NumbersApart
<1>2. CASE m \in {<<"session", k>> : k \in FirstId[p] .. LastId[p]}
  <2>1. PICK k \in FirstId[p] .. LastId[p] : m = <<"session", k>>
    BY <1>2
  <2>2. k \notin FirstId[q] .. LastId[q]
    BY <1>1
  <2> QED
    BY <2>1, <2>2 DEF OwnTemporaries
<1>3. CASE m \in {<<"model", k>> : k \in FirstChoice[p] .. LastChoice[p]}
  <2>1. PICK k \in FirstChoice[p] .. LastChoice[p] : m = <<"model", k>>
    BY <1>3
  <2>2. k \notin FirstChoice[q] .. LastChoice[q]
    BY <1>1
  <2> QED
    BY <2>1, <2>2 DEF OwnTemporaries
<1> QED
  BY <1>2, <1>3 DEF OwnTemporaries

\* What can be read is not temporary; nor is what a session is stored under.
LEMMA LastingNames ==
    /\ \A n \in Readable : Lasting(n)
    /\ \A i : Lasting(<<"tea", i>>)
<1>1. \A n \in Readable : n # Closed
  BY DEF Readable, SessionNames, Preference, Closed
<1>2. \A i : <<"tea", i>> # Closed
  BY DEF Closed
<1> QED
  BY <1>1, <1>2, TemporaryIsNotReadable DEF Lasting

-----------------------------------------------------------------------------
(* The invariant is inductive. *)

LEMMA InvInit == Init => Inv
<1> SUFFICES ASSUME Init PROVE Inv
  OBVIOUS
<1>1. Functional
  BY BoundsAssumption DEF Init, Functional
<1>2. \A p \in Processes : pc[p] = "down" /\ fd[p] = Closed
  BY DEF Init
<1> QED
  BY <1>1, <1>2 DEF Inv, OwnNames, OpenFiles, Saving

\* Steps that leave the files, what is open and what is being saved alone.
LEMMA InvElsewhere ==
    ASSUME Inv, NEW p \in Processes,
           UNCHANGED <<file, fd, job, choices>>,
           \/ pc' = pc
           \/ /\ ~Saving(p) /\ pc' = [pc EXCEPT ![p] = pc'[p]]
              /\ pc'[p] \in {"down", "idle", "picking"}
    PROVE  Inv'
BY DEF Inv, Functional, OwnNames, OpenFiles, Saving

\* A process turns to a file: nothing is open yet.
LEMMA InvBegin ==
    ASSUME Inv, NEW p \in Processes, NEW j,
           UNCHANGED <<file, fd>>,
           choices' \in [Processes -> Nat],
           \A q \in Processes : choices'[q] >= choices[q],
           ~Saving(p),
           pc' = [pc EXCEPT ![p] = "open"],
           job' = [job EXCEPT ![p] = j],
           j.temp \in OwnTemporaries(p), Lasting(j.to)
    PROVE  Inv'
<1>1. Functional'
  <2>1. \A q \in Processes : choices'[q] >= FirstChoice[q]
    BY BoundsAssumption DEF Inv, Functional
  <2> QED
    BY <2>1 DEF Inv, Functional
<1>2. /\ \A q \in Processes \ {p} : job'[q] = job[q] /\ pc'[q] = pc[q]
      /\ job'[p] = j /\ pc'[p] = "open" /\ fd'[p] = Closed
  BY DEF Inv, Functional, OpenFiles, Saving
<1>3. OwnNames'
  BY <1>2 DEF Inv, OwnNames, Saving, OwnTemporaries
<1>4. OpenFiles'
  BY <1>2 DEF Inv, OpenFiles
<1> QED
  BY <1>1, <1>3, <1>4 DEF Inv

LEMMA InvStart == ASSUME Inv, NEW p \in Processes, Start(p) PROVE Inv'
BY InvElsewhere DEF Start, GoTo, At, disk, Saving, Inv, Functional

LEMMA InvConverse == ASSUME Inv, NEW p \in Processes, Converse(p) PROVE Inv'
BY InvElsewhere DEF Converse, disk

LEMMA InvNewSession == ASSUME Inv, NEW p \in Processes, NewSession(p) PROVE Inv'
BY InvElsewhere DEF NewSession, disk

LEMMA InvSelectModel ==
    ASSUME Inv, NEW p \in Processes, NEW model, SelectModel(p, model)
    PROVE  Inv'
<1> DEFINE j == [kind |-> "model", to |-> Preference, temp |-> Temporary("model", choices[p]),
                 lines |-> <<[type |-> "model", model |-> model]>>]
<1>1. choices[p] \in FirstChoice[p] .. LastChoice[p]
  BY BoundsAssumption DEF Inv, Functional, SelectModel
<1>2. j.temp \in OwnTemporaries(p) /\ Lasting(j.to)
  BY <1>1, LastingNames DEF OwnTemporaries, Temporary, Readable
<1>3. /\ choices' \in [Processes -> Nat]
      /\ \A q \in Processes : choices'[q] >= choices[q]
  BY DEF Inv, Functional, SelectModel
<1>4. /\ UNCHANGED <<file, fd>> /\ ~Saving(p)
      /\ pc' = [pc EXCEPT ![p] = "open"]
      /\ job' = [job EXCEPT ![p] = j]
  BY DEF SelectModel, At, GoTo, Saving, disk
<1> QED
  BY <1>2, <1>3, <1>4, InvBegin

LEMMA InvSave == ASSUME Inv, NEW p \in Processes, Save(p) PROVE Inv'
<1> DEFINE lines == EncodeFile(record[p])
           number == next[p] + Len(lines) - 1
<1>1. /\ number \in FirstId[p] .. LastId[p] - 1
      /\ UNCHANGED <<file, fd, choices>> /\ ~Saving(p)
  BY DEF Save, At, Saving
<1>2. CASE Len(lines) > MaxLines
  BY <1>1, <1>2, InvElsewhere DEF Save
<1>3. CASE ~(Len(lines) > MaxLines)
  <2> DEFINE places == IF Found(record[p].id) = {} THEN {<<"tea", record[p].id>>}
                       ELSE Found(record[p].id)
             j(n) == [kind |-> "session", to |-> n,
                      temp |-> Temporary("session", number), lines |-> lines]
  <2>1. PICK n \in places : job' = [job EXCEPT ![p] = j(n)]
    BY <1>3 DEF Save
  <2>2. pc' = [pc EXCEPT ![p] = "open"]
    BY <1>3 DEF Save, GoTo
  <2>4. Lasting(n)
    BY LastingNames DEF Found, Readable
  <2>5. number \in FirstId[p] .. LastId[p]
    <3> HIDE DEF number
    <3> QED
      BY <1>1, BoundsAssumption
  <2>6. Temporary("session", number) \in OwnTemporaries(p)
    <3> HIDE DEF number
    <3> QED
      BY <2>5 DEF OwnTemporaries, Temporary
  <2>7. /\ choices' \in [Processes -> Nat]
        /\ \A q \in Processes : choices'[q] >= choices[q]
    BY <1>1 DEF Inv, Functional
  <2>8. j(n).temp \in OwnTemporaries(p) /\ Lasting(j(n).to)
    BY <2>4, <2>6
  <2> HIDE DEF j
  <2> QED
    BY <1>1, <2>1, <2>2, <2>7, <2>8, InvBegin
<1> QED
  BY <1>2, <1>3

LEMMA InvPicker ==
    ASSUME Inv, NEW p \in Processes, List(p) \/ ClosePicker(p) \/ Load(p)
    PROVE  Inv'
BY InvElsewhere DEF List, ClosePicker, Load, GoTo, At, disk, Saving, Inv, Functional

-----------------------------------------------------------------------------
(* The steps of a write. *)

\* What a process keeps open or waits to publish is its own temporary.
Held(q) == pc[q] \in {"write", "publish"}

\* A step of p that leaves the other processes and their temporaries alone.
LEMMA InvFiles ==
    ASSUME Inv, NEW p \in Processes, Functional',
           \A q \in Processes \ {p} :
               /\ pc'[q] = pc[q] /\ job'[q] = job[q] /\ fd'[q] = fd[q]
               /\ Held(q) => /\ job[q].temp \in DOMAIN file'
                             /\ file'[job[q].temp] = file[job[q].temp],
           pc'[p] \in {"open", "write", "publish"} =>
               pc[p] \in {"open", "write", "publish"} /\ job'[p] = job[p],
           pc'[p] # "write" => fd'[p] = Closed,
           pc'[p] = "write" => /\ fd'[p] = job'[p].temp
                               /\ job'[p].temp \in DOMAIN file'
                               /\ file'[job'[p].temp] = <<>>,
           pc'[p] = "publish" => /\ job'[p].temp \in DOMAIN file'
                                 /\ file'[job'[p].temp] = job'[p].lines
    PROVE  Inv'
<1>1. OwnNames'
  BY DEF Inv, OwnNames, Saving, OwnTemporaries, Lasting
<1>2. OpenFiles'
  BY DEF Inv, OpenFiles, Held
<1> QED
  BY <1>1, <1>2 DEF Inv

\* The temporary of one process is neither that of another, nor the file
\* another saves to.
LEMMA OthersAreElsewhere ==
    ASSUME Inv, NumbersApart, NEW p \in Processes, NEW q \in Processes, p # q,
           Saving(p), Saving(q)
    PROVE  job[q].temp # job[p].temp /\ job[q].temp # job[p].to
BY TemporariesApart DEF Inv, OwnNames, Lasting

LEMMA InvOpenTemporary ==
    ASSUME Inv, NumbersApart, NEW p \in Processes, OpenTemporary(p)
    PROVE  Inv'
<1> USE DEF At, GoTo
<1>1. Functional'
  BY DEF Inv, Functional, OpenTemporary, GiveUp
<1>2. CASE file' = With(job[p].temp, <<>>) /\ fd' = [fd EXCEPT ![p] = job[p].temp]
           /\ pc' = [pc EXCEPT ![p] = "write"] /\ UNCHANGED job
  <2>1. \A q \in Processes \ {p} : Held(q) =>
            job[q].temp \in DOMAIN file /\ job[q].temp # job[p].temp
    BY OthersAreElsewhere DEF OpenTemporary, Inv, OpenFiles, Held, Saving
  <2>2. \A q \in Processes \ {p} :
            /\ pc'[q] = pc[q] /\ job'[q] = job[q] /\ fd'[q] = fd[q]
            /\ Held(q) => /\ job[q].temp \in DOMAIN file'
                          /\ file'[job[q].temp] = file[job[q].temp]
    BY <1>2, <2>1 DEF Inv, Functional, With
  <2>3. /\ pc[p] = "open" /\ pc'[p] = "write" /\ job'[p] = job[p]
        /\ fd'[p] = job'[p].temp
        /\ job'[p].temp \in DOMAIN file' /\ file'[job'[p].temp] = <<>>
    BY <1>2 DEF OpenTemporary, Inv, Functional, With
  <2> QED
    BY <1>1, <2>2, <2>3, InvFiles
<1>3. CASE pc' = [pc EXCEPT ![p] = "idle"] /\ job' = [job EXCEPT ![p] = NoJob]
           /\ UNCHANGED <<file, fd>>
  <2>1. \A q \in Processes \ {p} :
            /\ pc'[q] = pc[q] /\ job'[q] = job[q] /\ fd'[q] = fd[q]
            /\ Held(q) => /\ job[q].temp \in DOMAIN file'
                          /\ file'[job[q].temp] = file[job[q].temp]
    BY <1>3 DEF Inv, Functional, OpenFiles, Held
  <2>2. pc'[p] = "idle" /\ fd'[p] = Closed
    BY <1>3 DEF OpenTemporary, Inv, Functional, OpenFiles
  <2> QED
    BY <1>1, <2>1, <2>2, InvFiles
<1> QED
  BY <1>2, <1>3 DEF OpenTemporary, GiveUp

\* What a write leaves in the directory: its own temporary, whole or torn.
LEMMA WriteTouches ==
    ASSUME Inv, NumbersApart, NEW p \in Processes, pc[p] = "write",
           NEW lines, PutThrough(p, lines)
    PROVE  /\ file' = With(job[p].temp, lines)
           /\ job[p].temp \in DOMAIN file' /\ file'[job[p].temp] = lines
           /\ \A q \in Processes \ {p} : Held(q) =>
                 /\ job[q].temp \in DOMAIN file'
                 /\ file'[job[q].temp] = file[job[q].temp]
<1>1. fd[p] = job[p].temp /\ fd[p] # Unlinked
  BY TemporaryIsNotReadable DEF Inv, OpenFiles, OwnNames, Saving
<1>2. file' = With(job[p].temp, lines)
  BY <1>1 DEF PutThrough
<1>3. \A q \in Processes \ {p} : Held(q) =>
          job[q].temp \in DOMAIN file /\ job[q].temp # job[p].temp
  BY OthersAreElsewhere DEF Inv, OpenFiles, Held, Saving
<1> QED
  BY <1>2, <1>3 DEF With

LEMMA InvWriteTemporary ==
    ASSUME Inv, NumbersApart, NEW p \in Processes, WriteTemporary(p)
    PROVE  Inv'
<1> USE DEF At, GoTo
<1>1. /\ Functional'
      /\ pc[p] = "write" /\ fd'[p] = Closed
      /\ \A q \in Processes \ {p} : fd'[q] = fd[q] /\ job'[q] = job[q] /\ pc'[q] = pc[q]
  BY DEF Inv, Functional, WriteTemporary, GiveUp, Close
<1>2. CASE /\ PutThrough(p, IF fd[p] = Unlinked THEN <<>>
                           ELSE Overwrite(file[fd[p]], job[p].lines))
           /\ pc' = [pc EXCEPT ![p] = "publish"] /\ UNCHANGED job
  <2>1. fd[p] = job[p].temp /\ fd[p] # Unlinked /\ file[fd[p]] = <<>>
    BY <1>1, TemporaryIsNotReadable DEF Inv, OpenFiles, OwnNames, Saving
  <2>2. PutThrough(p, job[p].lines)
    BY <1>2, <2>1 DEF Overwrite
  <2>3. pc'[p] = "publish" /\ job'[p] = job[p]
    BY <1>2 DEF Inv, Functional
  <2> QED
    BY <1>1, <2>2, <2>3, WriteTouches, InvFiles
<1>3. ASSUME NEW cut, PutThrough(p, cut),
             pc' = [pc EXCEPT ![p] = "idle"]
      PROVE  Inv'
  <2>1. pc'[p] = "idle"
    BY <1>3 DEF Inv, Functional
  <2> QED
    BY <1>1, <1>3, <2>1, WriteTouches, InvFiles
<1> QED
  BY <1>2, <1>3 DEF WriteTemporary, GiveUp

LEMMA InvPublish ==
    ASSUME Inv, NumbersApart, NEW p \in Processes, Publish(p)
    PROVE  Inv'
<1> USE DEF At, GoTo
<1>1. /\ pc[p] = "publish" /\ pc' = [pc EXCEPT ![p] = "idle"]
      /\ job' = [job EXCEPT ![p] = NoJob] /\ UNCHANGED choices
  BY DEF Publish, GiveUp
<1>2. \A q \in Processes : fd[q] # job[p].temp /\ fd[q] # job[p].to
  BY <1>1, OthersAreElsewhere, TemporaryIsNotReadable
  DEF Inv, OpenFiles, OwnNames, Saving, Lasting
<1>3. \A q \in Processes \ {p} : Held(q) =>
          /\ job[q].temp \in DOMAIN file
          /\ job[q].temp # job[p].temp /\ job[q].temp # job[p].to
  BY <1>1, OthersAreElsewhere DEF Inv, OpenFiles, Held, Saving
<1>4. CASE RenameFile(job[p].temp, job[p].to)
  <2>1. fd' = fd
    BY <1>2, <1>4 DEF RenameFile, Inv, Functional
  <2>2. \A q \in Processes \ {p} : Held(q) =>
            job[q].temp \in DOMAIN file' /\ file'[job[q].temp] = file[job[q].temp]
    BY <1>3, <1>4 DEF RenameFile
  <2>3. Functional'
    BY <1>1, <2>1 DEF Inv, Functional
  <2> QED
    BY <1>1, <2>1, <2>2, <2>3, InvFiles DEF Inv, Functional, OpenFiles
<1>5. CASE RemoveFile(job[p].temp)
  <2>1. fd' = fd
    BY <1>2, <1>5 DEF RemoveFile, Inv, Functional
  <2>2. \A q \in Processes \ {p} : Held(q) =>
            job[q].temp \in DOMAIN file' /\ file'[job[q].temp] = file[job[q].temp]
    BY <1>3, <1>5 DEF RemoveFile, Restrict
  <2>3. Functional'
    BY <1>1, <2>1 DEF Inv, Functional
  <2> QED
    BY <1>1, <2>1, <2>2, <2>3, InvFiles DEF Inv, Functional, OpenFiles
<1> QED
  BY <1>4, <1>5 DEF Publish

LEMMA InvCrash ==
    ASSUME Inv, NumbersApart, NEW p \in Processes, Crash(p)
    PROVE  Inv'
<1> USE DEF At, GoTo
<1>1. Functional'
  <2>1. choices' = [choices EXCEPT ![p] = FirstChoice[p]] /\ FirstChoice[p] \in Nat
    BY BoundsAssumption DEF Crash
  <2>2. /\ choices' \in [Processes -> Nat]
        /\ \A q \in Processes : choices'[q] >= FirstChoice[q]
    BY <2>1 DEF Inv, Functional
  <2> QED
    BY <2>2 DEF Inv, Functional, Crash, Close
<1>2. /\ pc'[p] = "down" /\ fd'[p] = Closed
      /\ \A q \in Processes \ {p} : fd'[q] = fd[q] /\ job'[q] = job[q] /\ pc'[q] = pc[q]
  BY DEF Inv, Functional, Crash, Close
<1>3. CASE UNCHANGED file
  BY <1>1, <1>2, <1>3, InvFiles DEF Inv, OpenFiles, Held
<1>4. ASSUME pc[p] = "write", NEW cut, PutThrough(p, cut) PROVE Inv'
  BY <1>1, <1>2, <1>4, WriteTouches, InvFiles
<1> QED
  BY <1>3, <1>4 DEF Crash

LEMMA InvStep == Inv /\ NumbersApart /\ [Next]_vars => Inv'
<1> SUFFICES ASSUME Inv, NumbersApart, [Next]_vars PROVE Inv'
  OBVIOUS
<1>1. CASE UNCHANGED vars
  BY <1>1 DEF vars, disk, Inv, Functional, OwnNames, OpenFiles, Saving, Lasting, OwnTemporaries
<1>2. ASSUME NEW p \in Processes, Step(p) PROVE Inv'
  BY <1>2, InvStart, InvConverse, InvNewSession, InvSave, InvSelectModel,
     InvOpenTemporary, InvWriteTemporary, InvPublish, InvPicker, InvCrash DEF Step
<1> QED
  BY <1>1, <1>2 DEF Next

-----------------------------------------------------------------------------
(* A reader's file is only ever replaced by a finished one. *)

Replaced ==
    \A n \in Readable :
        \/ n \notin DOMAIN file \cup DOMAIN file'
        \/ n \in DOMAIN file /\ n \in DOMAIN file' /\ file'[n] = file[n]
        \/ /\ n \in DOMAIN file'
           /\ \E p \in Processes : At(p, "publish") /\ job[p].to = n
                                     /\ file'[n] = job[p].lines

\* A write touches no name but the temporary of the process that writes.
LEMMA WithIsElsewhere ==
    ASSUME NEW p \in Processes, NEW temp \in OwnTemporaries(p), NEW lines,
           file' = With(temp, lines)
    PROVE  Replaced
BY TemporaryIsNotReadable DEF Replaced, With

LEMMA PublishReplaces ==
    ASSUME Inv, NEW p \in Processes, Publish(p)
    PROVE  Replaced
<1>1. /\ pc[p] = "publish" /\ job[p].temp \in DOMAIN file
      /\ file[job[p].temp] = job[p].lines
      /\ job[p].temp \in OwnTemporaries(p)
  BY DEF Publish, At, Inv, OpenFiles, OwnNames, Saving
<1>2. job[p].temp \notin Readable
  BY <1>1, TemporaryIsNotReadable
<1>3. CASE RenameFile(job[p].temp, job[p].to)
  <2>1. job[p].to \in DOMAIN file' /\ file'[job[p].to] = job[p].lines
    BY <1>1, <1>3 DEF RenameFile
  <2>2. \A n \in Readable \ {job[p].to} :
            /\ n \in DOMAIN file <=> n \in DOMAIN file'
            /\ n \in DOMAIN file => file'[n] = file[n]
    BY <1>2, <1>3 DEF RenameFile
  <2> QED
    BY <1>1, <2>1, <2>2 DEF Replaced, At
<1>4. CASE RemoveFile(job[p].temp)
  BY <1>2, <1>4 DEF RemoveFile, Restrict, Replaced
<1> QED
  BY <1>3, <1>4 DEF Publish

LEMMA StepReplaces == Inv /\ NumbersApart /\ [Next]_vars => Replaced
<1> SUFFICES ASSUME Inv, NumbersApart, [Next]_vars PROVE Replaced
  OBVIOUS
<1>1. CASE UNCHANGED file
  BY <1>1 DEF Replaced
<1>2. ASSUME NEW p \in Processes, OpenTemporary(p) PROVE Replaced
  <2>1. job[p].temp \in OwnTemporaries(p)
    BY <1>2 DEF OpenTemporary, At, Inv, OwnNames, Saving
  <2> QED
    BY <1>1, <1>2, <2>1, WithIsElsewhere DEF OpenTemporary
<1>3. ASSUME NEW p \in Processes, pc[p] = "write", NEW lines, PutThrough(p, lines)
      PROVE  Replaced
  <2>1. job[p].temp \in OwnTemporaries(p)
    BY <1>3 DEF Inv, OwnNames, Saving
  <2> QED
    BY <1>3, <2>1, WithIsElsewhere, WriteTouches
<1>4. ASSUME NEW p \in Processes, WriteTemporary(p) PROVE Replaced
  BY <1>3, <1>4 DEF WriteTemporary, At
<1>5. ASSUME NEW p \in Processes, Crash(p) PROVE Replaced
  BY <1>1, <1>3, <1>5 DEF Crash, At
<1>6. ASSUME NEW p \in Processes, Step(p) PROVE Replaced
  <2>1. CASE Start(p) \/ Converse(p) \/ NewSession(p) \/ Save(p)
             \/ (\E model \in Models : SelectModel(p, model))
             \/ List(p) \/ ClosePicker(p) \/ Load(p)
    BY <1>1, <2>1
    DEF Start, Converse, NewSession, Save, SelectModel, List, ClosePicker, Load, disk
  <2> QED
    BY <1>2, <1>4, <1>5, <1>6, <2>1, PublishReplaces DEF Step
<1> QED
  BY <1>1, <1>6 DEF Next, vars, disk

\* Whatever is open is a temporary of the process that has it open, and what
\* waits to be published is complete.
THEOREM TemporariesHold == NumbersApart => (Spec => []Inv)
<1> SUFFICES ASSUME NumbersApart PROVE Spec => []Inv
  OBVIOUS
<1>1. Init => Inv
  BY InvInit
<1>2. Inv /\ [Next]_vars => Inv'
  BY InvStep
<1> QED
  BY <1>1, <1>2, PTL DEF Spec

\* SessionStore::save and save_last_model: with numbers of its own in every
\* terminal, a file that can be read is never opened, truncated or removed; it
\* changes only to all the lines of one save.
THEOREM FilesReplacedWhole == NumbersApart => (Spec => ReplacedWhole)
<1> SUFFICES ASSUME NumbersApart PROVE Spec => ReplacedWhole
  OBVIOUS
<1>1. Init => Inv
  BY InvInit
<1>2. Inv /\ [Next]_vars => Inv'
  BY InvStep
<1>3. Inv /\ [Next]_vars => [Replaced]_vars
  BY StepReplaces
<1>4. ReplacedWhole <=> [][Replaced]_vars
  BY PTL DEF ReplacedWhole, Replaced
<1> QED
  BY <1>1, <1>2, <1>3, <1>4, PTL DEF Spec

-----------------------------------------------------------------------------
(* Lines and messages of the right kinds. *)

AreEntries(lines) == lines \in Seq(Range(lines)) /\ \A l \in Range(lines) : IsEntry(l)
AreMessages(ms) == ms \in Seq(Range(ms)) /\ \A m \in Range(ms) : IsMessage(m)
-----------------------------------------------------------------------------
(* Numbers and sequences. *)

\* A set of numbers that is not empty has a least.
LEMMA LeastNat ==
    ASSUME NEW T \in SUBSET Nat, T # {}
    PROVE  \E m \in T : \A k \in T : m <= k
<1>1. PICK m \in T : \A k \in T : <<k, m>> \notin OpToRel(<, Nat)
  BY WFMin, NatLessThanWellFounded, Zenon
<1>2. \A k \in T : ~(k < m)
  BY <1>1, Zenon DEF OpToRel
<1> QED
  BY <1>2

\* Induction over the numbers, for a set.
LEMMA AllNats ==
    ASSUME NEW T \in SUBSET Nat, 0 \in T, \A n \in T : n + 1 \in T
    PROVE  T = Nat
<1> SUFFICES ASSUME Nat \ T # {} PROVE FALSE
  OBVIOUS
<1>1. PICK m \in Nat \ T : \A k \in Nat \ T : m <= k
  BY LeastNat
<1>2. m # 0 /\ m - 1 \in Nat /\ ~(m <= m - 1)
  OBVIOUS
<1>3. m - 1 \in T
  BY <1>1, <1>2
<1> QED
  BY <1>1, <1>3

\* The largest of a set of numbers that has one.
LEMMA MaxIs ==
    ASSUME NEW T \in SUBSET Nat, NEW m \in T, \A k \in T : k <= m
    PROVE  Max(T) = m
<1>1. \A x \in T : (\A y \in T : x >= y) => x = m
  OBVIOUS
<1>2. \A y \in T : m >= y
  OBVIOUS
<1> QED
  BY <1>1, <1>2 DEF Max

-----------------------------------------------------------------------------
(* The encoding. *)

Header(r) == [type |-> "session", id |-> r.id, model |-> NoModel]
ModelChange(r) == [type |-> "model_change", model |-> r.model]
ThinkingChange(r) == [type |-> "thinking_level_change", level |-> r.thinking]
MessageLine(r, i) == [type |-> "message", message |-> EncodeMessage(r.messages[i], r.model)]

\* The lines before the first message.
Heading(r) == IF r.model = NoModel THEN 2 ELSE 3

\* The lines of a session file, one by one.
LEMMA EncodedFile ==
    ASSUME NEW r, r.messages \in Seq(Range(r.messages))
    PROVE  /\ Len(r.messages) \in Nat
           /\ EncodeFile(r) \in Seq(Range(EncodeFile(r)))
           /\ Len(EncodeFile(r)) = Heading(r) + Len(r.messages)
           /\ EncodeFile(r)[1] = Header(r)
           /\ r.model # NoModel => EncodeFile(r)[2] = ModelChange(r)
           /\ EncodeFile(r)[Heading(r)] = ThinkingChange(r)
           /\ \A i \in 1 .. Len(r.messages) : EncodeFile(r)[Heading(r) + i] = MessageLine(r, i)
<1> DEFINE n == Len(r.messages)
           m == [i \in DOMAIN r.messages |-> MessageLine(r, i)]
           S == {Header(r), ModelChange(r), ThinkingChange(r)} \cup {MessageLine(r, i) : i \in 1 .. n}
           a == <<Header(r)>>
           b == IF r.model = NoModel THEN <<>> ELSE <<ModelChange(r)>>
           c == <<ThinkingChange(r)>>
<1>1. n \in Nat /\ DOMAIN r.messages = 1 .. n
  BY LenProperties
<1> HIDE DEF n
<1>2. m \in Seq(S) /\ Len(m) = n /\ \A i \in 1 .. n : m[i] = MessageLine(r, i)
  <2>1. m = [i \in 1 .. n |-> MessageLine(r, i)]
    BY <1>1
  <2>2. m \in [1 .. n -> S]
    BY <2>1
  <2> HIDE DEF m, S
  <2>3. m \in Seq(S) /\ Len(m) = n
    BY <1>1, <2>2
  <2> QED
    BY <2>1, <2>3
<1>3. /\ a \in Seq(S) /\ Len(a) = 1 /\ a[1] = Header(r)
      /\ c \in Seq(S) /\ Len(c) = 1 /\ c[1] = ThinkingChange(r)
      /\ b \in Seq(S) /\ Len(b) = Heading(r) - 2 /\ (r.model # NoModel => b[1] = ModelChange(r))
      /\ Heading(r) \in {2, 3} /\ (r.model = NoModel <=> Heading(r) = 2)
  <2>1. /\ Header(r) \in S /\ ThinkingChange(r) \in S /\ ModelChange(r) \in S
    OBVIOUS
  <2>2. /\ Heading(r) \in {2, 3} /\ (r.model = NoModel <=> Heading(r) = 2)
        /\ r.model # NoModel => Heading(r) = 3
    BY DEF Heading
  <2> HIDE DEF S
  <2>3. /\ a \in Seq(S) /\ Len(a) = 1 /\ a[1] = Header(r)
        /\ c \in Seq(S) /\ Len(c) = 1 /\ c[1] = ThinkingChange(r)
    BY <2>1
  <2>4. r.model = NoModel => b \in Seq(S) /\ Len(b) = 0
    OBVIOUS
  <2>5. r.model # NoModel => b \in Seq(S) /\ Len(b) = 1 /\ b[1] = ModelChange(r)
    BY <2>1
  <2> HIDE DEF a, b, c
  <2>6. b \in Seq(S) /\ Len(b) = Heading(r) - 2
    <3>1. CASE r.model = NoModel
      BY <2>2, <2>4, <3>1
    <3>2. CASE r.model # NoModel
      <4>1. Heading(r) = 3 /\ Len(b) = 1 /\ b \in Seq(S)
        BY <2>2, <2>5, <3>2, Zenon
      <4> QED
        BY <4>1
    <3> QED
      BY <3>1, <3>2
  <2>7. r.model # NoModel => b[1] = ModelChange(r)
    BY <2>5
  <2> QED
    BY <2>2, <2>3, <2>6, <2>7, Zenon
<1>4. EncodeFile(r) = ((a \o b) \o c) \o m
  BY DEF EncodeFile, Header, ModelChange, ThinkingChange, MessageLine
<1> HIDE DEF a, b, c, m, S
<1> DEFINE k == Heading(r)
<1> HIDE DEF k
<1>5. /\ a \o b \in Seq(S) /\ Len(a \o b) = k - 1
      /\ (a \o b)[1] = Header(r)
      /\ r.model # NoModel => (a \o b)[2] = ModelChange(r)
  <2>1. /\ a \o b \in Seq(S) /\ Len(a \o b) = Len(a) + Len(b)
        /\ \A i \in 1 .. Len(a) + Len(b) : (a \o b)[i] = IF i <= Len(a) THEN a[i] ELSE b[i - Len(a)]
    BY <1>3, ConcatProperties
  <2>2. Len(a) = 1 /\ Len(b) = k - 2 /\ k \in {2, 3} /\ (r.model # NoModel => k = 3)
    BY <1>3 DEF k
  <2>3. 1 \in 1 .. Len(a) + Len(b) /\ (r.model # NoModel => 2 \in 1 .. Len(a) + Len(b))
    BY <2>2
  <2> QED
    BY <1>3, <2>1, <2>2, <2>3
<1>6. /\ (a \o b) \o c \in Seq(S) /\ Len((a \o b) \o c) = k
      /\ \A i \in 1 .. k - 1 : ((a \o b) \o c)[i] = (a \o b)[i]
      /\ ((a \o b) \o c)[k] = ThinkingChange(r)
  BY <1>3, <1>5, ConcatProperties DEF k
<1> DEFINE h == (a \o b) \o c
<1>7. /\ h \in Seq(S) /\ Len(h) = k /\ k \in {2, 3}
      /\ h[1] = Header(r) /\ h[k] = ThinkingChange(r)
      /\ r.model # NoModel => h[2] = ModelChange(r) /\ k = 3
  BY <1>3, <1>5, <1>6 DEF k
<1> HIDE DEF h
<1>8. /\ h \o m \in Seq(S) /\ Len(h \o m) = k + n
      /\ \A i \in 1 .. k + n : (h \o m)[i] = IF i <= k THEN h[i] ELSE m[i - k]
  BY <1>2, <1>7, ConcatProperties
<1>9. EncodeFile(r) = h \o m
  BY <1>4 DEF h
<1>10. EncodeFile(r) \in Seq(Range(EncodeFile(r)))
  BY <1>8, <1>9, SeqOfRange
<1>11. \A i \in 1 .. n : (h \o m)[k + i] = MessageLine(r, i)
  <2> TAKE i \in 1 .. n
  <2>1. k + i \in 1 .. k + n /\ ~(k + i <= k) /\ (k + i) - k = i
    BY <1>1, <1>7
  <2> QED
    BY <1>2, <1>8, <2>1
<1>12. /\ (h \o m)[1] = Header(r) /\ (h \o m)[k] = ThinkingChange(r)
       /\ r.model # NoModel => (h \o m)[2] = ModelChange(r)
  BY <1>1, <1>7, <1>8
<1> QED
  BY <1>1, <1>8, <1>9, <1>10, <1>11, <1>12 DEF k, n

-----------------------------------------------------------------------------
(* The loop of decode_file over the lines. *)

\* What is read of the first n lines, for every n up to last.
Reads(read, lines, last) ==
    read = [n \in 0 .. last |->
              IF n = 0 THEN <<>>
              ELSE IF lines[n].type = "message"
                   THEN Append(read[n - 1], DecodeMessage(lines[n].message))
              ELSE read[n - 1]]

\* There is such a function: by induction on the number of lines.
LEMMA ReadingExists ==
    ASSUME NEW lines PROVE \A last \in Nat : \E read : Reads(read, lines, last)
<1> DEFINE T == {last \in Nat : \E read : Reads(read, lines, last)}
<1>1. 0 \in T
  <2>1. Reads([n \in 0 .. 0 |-> <<>>], lines, 0)
    BY DEF Reads
  <2> QED
    BY <2>1
<1>2. ASSUME NEW last \in T PROVE last + 1 \in T
  <2>1. PICK read : Reads(read, lines, last)
    OBVIOUS
  <2> DEFINE l == lines[last + 1]
             more == [n \in 0 .. last + 1 |->
                        IF n <= last THEN read[n]
                        ELSE IF l.type = "message" THEN Append(read[last], DecodeMessage(l.message))
                        ELSE read[last]]
  <2>2. Reads(more, lines, last + 1)
    <3> DEFINE Line(f, n) == IF n = 0 THEN <<>>
                             ELSE IF lines[n].type = "message"
                                  THEN Append(f[n - 1], DecodeMessage(lines[n].message))
                             ELSE f[n - 1]
    <3>1. ASSUME NEW n \in 0 .. last PROVE more[n] = Line(more, n)
      <4>1. more[n] = read[n] /\ (n # 0 => more[n - 1] = read[n - 1])
        OBVIOUS
      <4>2. read[n] = Line(read, n)
        BY <2>1 DEF Reads
      <4> HIDE DEF more
      <4> QED
        BY <4>1, <4>2
    <3>2. more[last + 1] = Line(more, last + 1)
      <4>1. /\ more[last + 1] = (IF l.type = "message"
                                 THEN Append(more[last], DecodeMessage(l.message))
                                 ELSE more[last])
            /\ last + 1 # 0 /\ (last + 1) - 1 = last
        OBVIOUS
      <4> HIDE DEF more
      <4> QED
        BY <4>1
    <3>3. \A n \in 0 .. last + 1 : n \in 0 .. last \/ n = last + 1
      OBVIOUS
    <3> HIDE DEF more, l, Line
    <3>4. \A n \in 0 .. last + 1 : more[n] = Line(more, n)
      BY <3>1, <3>2, <3>3
    <3>5. more = [n \in 0 .. last + 1 |-> more[n]]
      BY DEF more
    <3> QED
      BY <3>4, <3>5 DEF Reads, Line
  <2> HIDE DEF more
  <2> QED
    BY <2>2
<1> HIDE DEF T
<1>3. T = Nat
  <2>1. T \in SUBSET Nat
    BY DEF T
  <2> QED
    BY <1>1, <1>2, <2>1, AllNats
<1> QED
  BY <1>3 DEF T

\* What MessagesIn chooses is one.
LEMMA Reading ==
    ASSUME NEW lines, Len(lines) \in Nat
    PROVE  \E read : Reads(read, lines, Len(lines)) /\ MessagesIn(lines) = read[Len(lines)]
<1>1. PICK any : Reads(any, lines, Len(lines))
  BY ReadingExists
<1> QED
  BY <1>1 DEF Reads, MessagesIn

\* What is read of a file whose lines were written by this or another program:
\* a sequence of messages.
LEMMA ReadMessages ==
    ASSUME NEW lines, AreEntries(lines), Decodable(lines)
    PROVE  AreMessages(MessagesIn(lines))
<1> DEFINE L == Len(lines)
           M == {DecodeMessage(lines[i].message) : i \in {i \in 2 .. L : lines[i].type = "message"}}
<1>1. /\ L \in Nat \ {0} /\ DOMAIN lines = 1 .. L
      /\ \A i \in 1 .. L : IsEntry(lines[i])
      /\ lines[1].type = "session"
  <2>1. L \in Nat /\ DOMAIN lines = 1 .. L
    BY LenProperties DEF AreEntries
  <2>2. \A i \in 1 .. L : lines[i] \in Range(lines)
    BY <2>1 DEF Range
  <2>3. L # 0 /\ lines[1].type = "session"
    BY <2>1 DEF Decodable
  <2> QED
    BY <2>1, <2>2, <2>3 DEF AreEntries
<1>2. PICK read : Reads(read, lines, L) /\ MessagesIn(lines) = read[L]
  BY <1>1, Reading
<1> HIDE DEF L, M
<1>3. \A n \in 0 .. L : read[n] = IF n = 0 THEN <<>>
                                  ELSE IF lines[n].type = "message"
                                       THEN Append(read[n - 1], DecodeMessage(lines[n].message))
                                  ELSE read[n - 1]
  BY <1>2 DEF Reads
<1> DEFINE T == {n \in Nat : n <= L => read[n] \in Seq(M)}
<1>4. 0 \in T
  <2>1. read[0] = <<>>
    BY <1>1, <1>3
  <2>2. read[0] \in Seq(M)
    BY <2>1, EmptySeq
  <2> QED
    BY <2>2
<1>5. ASSUME NEW n \in T PROVE n + 1 \in T
  <2>1. SUFFICES ASSUME n + 1 <= L PROVE read[n + 1] \in Seq(M)
    OBVIOUS
  <2>2. n \in Nat /\ n + 1 \in 0 .. L /\ read[n] \in Seq(M) /\ n + 1 # 0 /\ (n + 1) - 1 = n
    BY <1>1, <2>1
  <2>3. CASE lines[n + 1].type = "message"
    <3>1. n + 1 \in 2 .. L
      BY <1>1, <2>2, <2>3
    <3>2. DecodeMessage(lines[n + 1].message) \in M
      BY <2>3, <3>1 DEF M
    <3>3. read[n + 1] = Append(read[n], DecodeMessage(lines[n + 1].message))
      BY <1>3, <2>2, <2>3
    <3> QED
      BY <2>2, <3>2, <3>3, AppendProperties
  <2>4. CASE lines[n + 1].type # "message"
    BY <1>3, <2>2, <2>4
  <2> QED
    BY <2>3, <2>4
<1>6. T = Nat
  BY <1>4, <1>5, AllNats
<1>7. MessagesIn(lines) \in Seq(M)
  BY <1>1, <1>2, <1>6
<1>8. ASSUME NEW i \in 2 .. L, lines[i].type = "message"
      PROVE  IsMessage(DecodeMessage(lines[i].message))
  <2> DEFINE m == lines[i].message
  <2>1. /\ m.role \in {"user", "assistant", "toolResult"}
        /\ m.role = "assistant" =>
             /\ \A j \in DOMAIN m.calls : m.calls[j].arguments \in DOMAIN ToJson
             /\ m.stop \in DOMAIN ParseStop
        /\ m.role = "toolResult" => m.details \in DOMAIN ToJson
    <3>1. IsEntry(lines[i])
      BY <1>1
    <3>2. m.role = "assistant" => m.stop \in DOMAIN ParseStop
      BY <1>8 DEF Decodable, L
    <3> QED
      BY <1>8, <3>1, <3>2 DEF IsEntry
  <2> SUFFICES IsMessage(DecodeMessage(m))
    OBVIOUS
  <2> HIDE DEF m
  <2>2. CASE m.role = "user"
    <3>1. DecodeMessage(m) = m
      BY <2>2 DEF DecodeMessage
    <3> QED
      BY <2>2, <3>1 DEF IsMessage
  <2>3. CASE m.role = "assistant"
    <3>1. /\ DecodeMessage(m).role = "assistant"
          /\ DecodeMessage(m).calls = DecodeCalls(m.calls)
          /\ DecodeMessage(m).stop = ParseStop[m.stop]
      BY <2>3 DEF DecodeMessage
    <3>2. ParseStop[m.stop] \in DOMAIN StopName
      BY <2>1, <2>3 DEF ParseStop, StopName
    <3>3. \A x \in DOMAIN ToJson : ToJson[x] \in DOMAIN ParseOrString
      BY DEF ToJson, ParseOrString
    <3>4. \A j \in DOMAIN DecodeCalls(m.calls) :
             DecodeCalls(m.calls)[j].arguments \in DOMAIN ParseOrString
      BY <2>1, <2>3, <3>3 DEF DecodeCalls
    <3> QED
      BY <3>1, <3>2, <3>4 DEF IsMessage
  <2>4. CASE m.role = "toolResult"
    <3>1. /\ DecodeMessage(m).role = "toolResult"
          /\ DecodeMessage(m).details = DecodeDetails(m.details)
      BY <2>4 DEF DecodeMessage
    <3>2. DecodeDetails(m.details) \in {<<>>} \cup {<<d>> : d \in DOMAIN ParseOrString}
      <4>1. \A x \in DOMAIN ToJson : ToJson[x] \in DOMAIN ParseOrString
        BY DEF ToJson, ParseOrString
      <4> QED
        BY <2>1, <2>4, <4>1 DEF DecodeDetails
    <3> QED
      BY <3>1, <3>2 DEF IsMessage
  <2> QED
    BY <2>1, <2>2, <2>3, <2>4 DEF m
<1>9. \A x \in M : IsMessage(x)
  BY <1>8 DEF M
<1> QED
  BY <1>7, <1>9, SeqOfRange, RangeOfSeq DEF AreMessages

\* What the format keeps of a message is kept when it is written and read again.
LEMMA KeptAgain ==
    ASSUME NEW m, IsMessage(m), NEW model
    PROVE  /\ Kept(DecodeMessage(EncodeMessage(m, model))) = Kept(m)
           /\ EncodeMessage(m, model).role = m.role
           /\ m.role = "assistant" => /\ EncodeMessage(m, model).stop \in DOMAIN ParseStop
                                      /\ EncodeMessage(m, model).model = model
<1>1. CASE m.role = "user"
  BY <1>1 DEF EncodeMessage, DecodeMessage, Kept
<1>2. CASE m.role = "assistant"
  <2> DEFINE w == [role |-> "assistant", text |-> m.text, calls |-> EncodeCalls(m.calls),
                   model |-> model, stop |-> StopName[m.stop]]
             d == [role |-> "assistant", text |-> m.text, calls |-> DecodeCalls(EncodeCalls(m.calls)),
                   stop |-> ParseStop[StopName[m.stop]]]
  <2>1. EncodeMessage(m, model) = w
    BY <1>2 DEF EncodeMessage
  <2>2. DecodeMessage(w) = d
    BY DEF DecodeMessage
  <2>3. StopName[m.stop] \in DOMAIN ParseStop
    BY <1>2 DEF IsMessage, StopName, ParseStop
  <2>4. EncodeCalls(DecodeCalls(EncodeCalls(m.calls))) = EncodeCalls(m.calls)
    <3>1. \A x \in DOMAIN ParseOrString : ParseOrString[ToJson[ParseOrString[x]]] = ParseOrString[x]
      BY DEF ParseOrString, ToJson
    <3> DEFINE calls == m.calls
    <3>2. \A i \in DOMAIN calls : calls[i].arguments \in DOMAIN ParseOrString
      BY <1>2 DEF IsMessage
    <3> HIDE DEF calls
    <3>3. EncodeCalls(calls) =
            [i \in DOMAIN calls |-> [id |-> calls[i].id, arguments |-> ParseOrString[calls[i].arguments]]]
      BY DEF EncodeCalls
    <3>4. DecodeCalls(EncodeCalls(calls)) =
            [i \in DOMAIN calls |->
               [id |-> calls[i].id, arguments |-> ToJson[ParseOrString[calls[i].arguments]]]]
      BY <3>3 DEF DecodeCalls
    <3>5. EncodeCalls(DecodeCalls(EncodeCalls(calls))) =
            [i \in DOMAIN calls |->
               [id |-> calls[i].id,
                arguments |-> ParseOrString[ToJson[ParseOrString[calls[i].arguments]]]]]
      <4> DEFINE c == DecodeCalls(EncodeCalls(calls))
      <4>1. /\ DOMAIN c = DOMAIN calls
            /\ \A i \in DOMAIN calls :
                 /\ c[i].id = calls[i].id
                 /\ c[i].arguments = ToJson[ParseOrString[calls[i].arguments]]
        BY <3>4
      <4> HIDE DEF c
      <4>2. EncodeCalls(c) = [i \in DOMAIN calls |->
               [id |-> calls[i].id,
                arguments |-> ParseOrString[ToJson[ParseOrString[calls[i].arguments]]]]]
        BY <4>1 DEF EncodeCalls
      <4> QED
        BY <4>2 DEF c
    <3> QED
      BY <3>1, <3>2, <3>3, <3>5 DEF calls
  <2>5. Kept(d) = [role |-> "assistant", text |-> m.text,
                   calls |-> EncodeCalls(DecodeCalls(EncodeCalls(m.calls)))]
    BY DEF Kept
  <2>6. Kept(m) = [role |-> "assistant", text |-> m.text, calls |-> EncodeCalls(m.calls)]
    BY <1>2 DEF Kept
  <2>7. w.role = "assistant" /\ w.stop = StopName[m.stop] /\ w.model = model
    OBVIOUS
  <2> HIDE DEF w, d
  <2> QED
    BY <1>2, <2>1, <2>2, <2>3, <2>4, <2>5, <2>6, <2>7
<1>3. CASE m.role = "toolResult"
  <2> DEFINE w == [role |-> "toolResult", call |-> m.call, isError |-> m.isError,
                   details |-> EncodeDetails(m.details), usage |-> EncodeUsage(m.usage)]
             d == [role |-> "toolResult", call |-> m.call, isError |-> m.isError,
                   details |-> DecodeDetails(EncodeDetails(m.details)),
                   usage |-> DecodeUsage(EncodeUsage(m.usage)),
                   terminate |-> FALSE, failure |-> "none"]
  <2>1. EncodeMessage(m, model) = w /\ DecodeMessage(w) = d
    BY <1>3 DEF EncodeMessage, DecodeMessage
  <2>2. DecodeDetails(EncodeDetails(DecodeDetails(EncodeDetails(m.details))))
           = DecodeDetails(EncodeDetails(m.details))
    <3>1. m.details \in {<<>>} \cup {<<t>> : t \in DOMAIN ParseOrString}
      BY <1>3 DEF IsMessage
    <3>2. \A t \in DOMAIN ParseOrString :
             ParseOrString[t] = "Null" \/ ParseOrString[ToJson[ParseOrString[t]]] = ParseOrString[t]
      BY DEF ParseOrString, ToJson
    <3>3. /\ \A t : EncodeDetails(<<t>>) = ParseOrString[t]
          /\ EncodeDetails(<<>>) = "Null" /\ DecodeDetails("Null") = <<>>
          /\ \A e : e # "Null" => DecodeDetails(e) = <<ToJson[e]>>
      BY DEF EncodeDetails, DecodeDetails
    <3>4. CASE m.details = <<>>
      BY <3>3, <3>4
    <3>5. ASSUME NEW t \in DOMAIN ParseOrString, m.details = <<t>>
          PROVE  DecodeDetails(EncodeDetails(DecodeDetails(EncodeDetails(<<t>>))))
                   = DecodeDetails(EncodeDetails(<<t>>))
      <4>1. CASE ParseOrString[t] = "Null"
        BY ONLY <3>3, <4>1
      <4>2. CASE ParseOrString[t] # "Null"
        BY ONLY <3>2, <3>3, <4>2, t \in DOMAIN ParseOrString
      <4> QED
        BY <4>1, <4>2
    <3> QED
      BY <3>1, <3>4, <3>5
  <2>3. Kept(d) = [role |-> "toolResult", call |-> m.call, isError |-> m.isError,
                   details |-> DecodeDetails(EncodeDetails(DecodeDetails(EncodeDetails(m.details))))]
    BY DEF Kept
  <2>4. Kept(m) = [role |-> "toolResult", call |-> m.call, isError |-> m.isError,
                   details |-> DecodeDetails(EncodeDetails(m.details))]
    BY <1>3 DEF Kept
  <2>5. w.role = "toolResult"
    OBVIOUS
  <2> HIDE DEF w, d
  <2> QED
    BY <1>3, <2>1, <2>2, <2>3, <2>4, <2>5
<1> QED
  BY <1>1, <1>2, <1>3 DEF IsMessage

\* A file that was written is read, unless it is too large.
LEMMA WrittenIsDecodable ==
    ASSUME NEW r, AreMessages(r.messages), Len(EncodeFile(r)) <= MaxLines
    PROVE  Decodable(EncodeFile(r)) /\ AreEntries(EncodeFile(r))
<1> DEFINE ls == EncodeFile(r)
           n == Len(r.messages)
           k == Heading(r)
<1>1. /\ n \in Nat /\ ls \in Seq(Range(ls)) /\ Len(ls) = k + n /\ k \in {2, 3}
      /\ ls[1] = Header(r)
      /\ k = 3 => ls[2] = ModelChange(r)
      /\ ls[k] = ThinkingChange(r)
      /\ \A i \in 1 .. n : ls[k + i] = MessageLine(r, i)
  <2>1. r.messages \in Seq(Range(r.messages))
    BY DEF AreMessages
  <2>2. k \in {2, 3} /\ (k = 3 => r.model # NoModel)
    BY DEF Heading
  <2> HIDE DEF k
  <2> QED
    BY <2>1, <2>2, EncodedFile DEF k
<1> HIDE DEF ls, k
<1>2. \A i \in 1 .. n : IsMessage(r.messages[i])
  <2>1. DOMAIN r.messages = 1 .. n
    BY LenProperties DEF AreMessages
  <2> QED
    BY <2>1 DEF AreMessages, Range
<1> HIDE DEF n
<1>3. ASSUME NEW j \in 1 .. Len(ls)
      PROVE  /\ ls[j].type # "invalid" /\ IsEntry(ls[j])
             /\ ls[j].type = "message" /\ ls[j].message.role = "assistant" =>
                   ls[j].message.stop \in DOMAIN ParseStop
  <2>1. CASE j <= k
    <3>1. ls[j].type \in {"session", "model_change", "thinking_level_change"}
      BY <1>1, <2>1 DEF Header, ModelChange, ThinkingChange
    <3> QED
      BY <3>1 DEF IsEntry
  <2>2. CASE j > k
    <3> DEFINE i == j - k
    <3>1. i \in 1 .. n /\ k + i = j
      BY <1>1, <2>2
    <3> HIDE DEF i
    <3> DEFINE m == r.messages[i]
               w == EncodeMessage(m, r.model)
    <3>2. ls[j] = [type |-> "message", message |-> w]
      BY <1>1, <3>1 DEF MessageLine
    <3>3. IsMessage(m)
      BY <1>2, <3>1
    <3>4. w.role = m.role /\ (m.role = "assistant" => w.stop \in DOMAIN ParseStop)
      <4> HIDE DEF m
      <4> QED
        BY <3>3, KeptAgain
    <3>5. m.role = "assistant" =>
             \A x \in DOMAIN w.calls : w.calls[x].arguments \in DOMAIN ToJson
      <4> HIDE DEF m
      <4>1. SUFFICES ASSUME m.role = "assistant"
                     PROVE  \A x \in DOMAIN w.calls : w.calls[x].arguments \in DOMAIN ToJson
        OBVIOUS
      <4>2. w.calls = EncodeCalls(m.calls)
        BY <4>1 DEF EncodeMessage
      <4>3. \A a \in DOMAIN ParseOrString : ParseOrString[a] \in DOMAIN ToJson
        BY DEF ParseOrString, ToJson
      <4> QED
        BY <3>3, <4>1, <4>2, <4>3 DEF EncodeCalls, IsMessage
    <3>6. m.role = "toolResult" => w.details \in DOMAIN ToJson
      <4> HIDE DEF m
      <4>1. SUFFICES ASSUME m.role = "toolResult" PROVE w.details \in DOMAIN ToJson
        OBVIOUS
      <4>2. w.details = EncodeDetails(m.details)
        BY <4>1 DEF EncodeMessage
      <4>3. \A t \in DOMAIN ParseOrString : ParseOrString[t] \in DOMAIN ToJson
        BY DEF ParseOrString, ToJson
      <4>4. "Null" \in DOMAIN ToJson
        BY DEF ToJson
      <4>5. m.details \in {<<>>} \cup {<<t>> : t \in DOMAIN ParseOrString}
        BY <3>3, <4>1 DEF IsMessage
      <4> QED
        BY <4>2, <4>3, <4>4, <4>5 DEF EncodeDetails
    <3> HIDE DEF w, m
    <3> QED
      BY <3>2, <3>3, <3>4, <3>5, <3>6 DEF IsEntry, IsMessage
  <2> QED
    BY <1>1, <2>1, <2>2
<1>4. AreEntries(ls)
  <2>1. Range(ls) = {ls[j] : j \in 1 .. Len(ls)}
    BY <1>1, RangeEquality
  <2>2. \A l \in Range(ls) : IsEntry(l)
    BY <1>3, <2>1
  <2> QED
    BY <1>1, <2>2 DEF AreEntries
<1>5. Decodable(ls)
  BY <1>1, <1>3, BoundsAssumption DEF Decodable, Header, ls
<1> QED
  BY <1>4, <1>5 DEF ls

\* Reading what was written gives the messages one by one.
LEMMA MessagesRead ==
    ASSUME NEW r, AreMessages(r.messages)
    PROVE  MessagesIn(EncodeFile(r)) =
             [i \in 1 .. Len(r.messages) |-> DecodeMessage(EncodeMessage(r.messages[i], r.model))]
<1> DEFINE ls == EncodeFile(r)
           n == Len(r.messages)
           k == Heading(r)
           D(i) == DecodeMessage(EncodeMessage(r.messages[i], r.model))
<1>1. /\ n \in Nat /\ Len(ls) = k + n /\ k \in {2, 3}
      /\ ls[1] = Header(r)
      /\ k = 3 => ls[2] = ModelChange(r)
      /\ ls[k] = ThinkingChange(r)
      /\ \A i \in 1 .. n : ls[k + i] = MessageLine(r, i)
  <2>1. r.messages \in Seq(Range(r.messages))
    BY DEF AreMessages
  <2>2. k \in {2, 3} /\ (k = 3 => r.model # NoModel)
    BY DEF Heading
  <2> HIDE DEF k
  <2> QED
    BY <2>1, <2>2, EncodedFile DEF k
<1> HIDE DEF ls, n, k
<1>2. PICK read : Reads(read, ls, k + n) /\ MessagesIn(ls) = read[k + n]
  <2>1. Len(ls) \in Nat
    BY <1>1
  <2> QED
    BY <1>1, <2>1, Reading
<1>3. \A x \in 0 .. k + n : read[x] = IF x = 0 THEN <<>>
                                  ELSE IF ls[x].type = "message"
                                       THEN Append(read[x - 1], DecodeMessage(ls[x].message))
                                  ELSE read[x - 1]
  BY <1>2 DEF Reads
<1>4. read[k] = <<>>
  <2>1. /\ ls[1].type # "message" /\ ls[k].type # "message"
        /\ k = 3 => ls[2].type # "message"
    BY <1>1 DEF Header, ModelChange, ThinkingChange
  <2>2. read[0] = <<>> /\ 0 \in 0 .. k + n
    BY <1>1, <1>3
  <2>3. read[1] = <<>>
    BY <1>1, <1>3, <2>1, <2>2
  <2>4. read[2] = <<>>
    BY <1>1, <1>3, <2>1, <2>3
  <2>5. k = 3 => read[3] = <<>>
    BY <1>1, <1>3, <2>1, <2>4
  <2> QED
    BY <1>1, <2>4, <2>5
<1> DEFINE T == {j \in Nat : j <= n => read[k + j] = [i \in 1 .. j |-> D(i)]}
<1>5. 0 \in T
  <2>1. read[k + 0] = <<>>
    BY <1>1, <1>4
  <2>2. [i \in 1 .. 0 |-> D(i)] = <<>>
    OBVIOUS
  <2> QED
    BY <2>1, <2>2
<1>6. ASSUME NEW j \in T PROVE j + 1 \in T
  <2>1. SUFFICES ASSUME j + 1 <= n PROVE read[k + (j + 1)] = [i \in 1 .. j + 1 |-> D(i)]
    OBVIOUS
  <2>2. /\ j \in Nat /\ k + (j + 1) \in 0 .. k + n /\ k + (j + 1) # 0
        /\ (k + (j + 1)) - 1 = k + j /\ j + 1 \in 1 .. n
        /\ read[k + j] = [i \in 1 .. j |-> D(i)]
    BY <1>1, <2>1
  <2>3. /\ ls[k + (j + 1)].type = "message"
        /\ DecodeMessage(ls[k + (j + 1)].message) = D(j + 1)
    <3>1. ls[k + (j + 1)] = MessageLine(r, j + 1)
      BY <1>1, <2>2
    <3> QED
      BY <3>1 DEF MessageLine
  <2> HIDE DEF D
  <2>4. read[k + (j + 1)] = Append([i \in 1 .. j |-> D(i)], D(j + 1))
    BY <1>3, <2>2, <2>3
  <2>5. Append([i \in 1 .. j |-> D(i)], D(j + 1)) = [i \in 1 .. j + 1 |-> D(i)]
    BY <2>2
  <2> QED
    BY <2>4, <2>5
<1>7. T = Nat
  <2> HIDE DEF T
  <2>1. T \in SUBSET Nat
    BY DEF T
  <2> QED
    BY <1>5, <1>6, <2>1, AllNats
<1>8. read[k + n] = [i \in 1 .. n |-> D(i)]
  <2> HIDE DEF T
  <2>1. n \in T
    BY <1>1, <1>7
  <2> USE DEF T
  <2> HIDE DEF D
  <2> QED
    BY <1>1, <2>1
<1> QED
  BY <1>2, <1>8 DEF ls, n

\* Reading what was written gives the model and the thinking level.
LEMMA ModelRead ==
    ASSUME NEW r, AreMessages(r.messages)
    PROVE  ModelIn(EncodeFile(r)) = r.model /\ ThinkingIn(EncodeFile(r)) = r.thinking
<1> DEFINE ls == EncodeFile(r)
           n == Len(r.messages)
           k == Heading(r)
<1>1. /\ n \in Nat /\ ls \in Seq(Range(ls)) /\ Len(ls) = k + n /\ k \in {2, 3}
      /\ ls[1] = Header(r)
      /\ (k = 3 <=> r.model # NoModel)
      /\ r.model # NoModel => ls[2] = ModelChange(r)
      /\ ls[k] = ThinkingChange(r)
      /\ \A i \in 1 .. n : ls[k + i] = MessageLine(r, i)
  <2>1. r.messages \in Seq(Range(r.messages))
    BY DEF AreMessages
  <2>2. k \in {2, 3} /\ (k = 3 <=> r.model # NoModel)
    BY DEF Heading
  <2> HIDE DEF k
  <2> QED
    BY <2>1, <2>2, EncodedFile DEF k
<1> HIDE DEF ls, n, k
<1>2. DOMAIN ls = 1 .. k + n
  BY <1>1, LenProperties
<1>3. \A i \in 1 .. k + n : i > k => ls[i].type = "message"
  <2> TAKE i \in 1 .. k + n
  <2>1. i > k => i - k \in 1 .. n /\ k + (i - k) = i
    BY <1>1
  <2>2. i > k => ls[i] = MessageLine(r, i - k)
    BY <1>1, <2>1
  <2> QED
    BY <2>2 DEF MessageLine
<1>4. /\ ls[1].type = "session" /\ ls[1].model = NoModel
      /\ r.model # NoModel => ls[2].type = "model_change" /\ ls[2].model = r.model
      /\ ls[k].type = "thinking_level_change" /\ ls[k].level = r.thinking
  BY <1>1 DEF Header, ModelChange, ThinkingChange
<1>5. \A i \in 1 .. k + n : i = 1 \/ (i = 2 /\ k = 3) \/ i = k \/ i > k
  BY <1>1
<1>6. ThinkingIn(ls) = r.thinking
  <2>1. Entries(ls, "thinking_level_change") = {k}
    BY <1>1, <1>2, <1>3, <1>4, <1>5 DEF Entries
  <2>2. Max({k}) = k
    BY <1>1, MaxIs
  <2> QED
    BY <1>4, <2>1, <2>2 DEF ThinkingIn
<1>7. CASE r.model # NoModel
  <2>1. Entries(ls, "model_change") = {2}
    BY <1>1, <1>2, <1>3, <1>4, <1>5, <1>7 DEF Entries
  <2>2. Max({2}) = 2
    BY MaxIs
  <2> QED
    BY <1>4, <1>6, <1>7, <2>1, <2>2 DEF ModelIn, ls
<1>8. CASE r.model = NoModel
  <2>1. Entries(ls, "model_change") = {}
    BY <1>1, <1>2, <1>3, <1>4, <1>5, <1>8 DEF Entries
  <2>2. ASSUME NEW i \in Entries(ls, "message"), ls[i].message.role = "assistant"
        PROVE  ls[i].message.model = NoModel
    <3>1. i \in 1 .. k + n /\ i > k
      BY <1>1, <1>2, <1>4, <1>5, <2>2 DEF Entries
    <3> DEFINE j == i - k
               m == r.messages[j]
    <3>2. j \in 1 .. n /\ k + j = i
      BY <1>1, <3>1
    <3>3. ls[i].message = EncodeMessage(m, NoModel)
      <4>1. ls[i] = MessageLine(r, j)
        BY <1>1, <3>2
      <4> QED
        BY <1>8, <4>1 DEF MessageLine
    <3>4. IsMessage(m)
      <4>1. DOMAIN r.messages = 1 .. n
        BY LenProperties DEF AreMessages, n
      <4> QED
        BY <3>2, <4>1 DEF AreMessages, Range
    <3> HIDE DEF m
    <3> QED
      BY <2>2, <3>3, <3>4, KeptAgain
  <2> QED
    BY <1>4, <1>6, <1>8, <2>1, <2>2 DEF ModelIn, ls
<1> QED
  BY <1>7, <1>8

\* A session that is written and read is the same conversation.
LEMMA RoundTrip ==
    ASSUME NEW r, AreMessages(r.messages)
    PROVE  Conversation(DecodeFile(EncodeFile(r))) = Conversation(r)
<1> DEFINE n == Len(r.messages)
           ms == [i \in 1 .. n |-> DecodeMessage(EncodeMessage(r.messages[i], r.model))]
<1>1. DecodeFile(EncodeFile(r)) =
        [id |-> r.id, model |-> r.model, thinking |-> r.thinking, messages |-> ms]
  <2>1. EncodeFile(r)[1].id = r.id
    <3>1. r.messages \in Seq(Range(r.messages))
      BY DEF AreMessages
    <3>2. EncodeFile(r)[1] = Header(r)
      BY <3>1, EncodedFile
    <3> QED
      BY <3>2 DEF Header
  <2> QED
    BY <2>1, MessagesRead, ModelRead DEF DecodeFile
<1>2. DOMAIN r.messages = 1 .. n /\ \A i \in 1 .. n : IsMessage(r.messages[i])
  <2>1. DOMAIN r.messages = 1 .. n
    BY LenProperties DEF AreMessages
  <2> QED
    BY <2>1 DEF AreMessages, Range
<1>3. \A i \in 1 .. n : Kept(ms[i]) = Kept(r.messages[i])
  <2> TAKE i \in 1 .. n
  <2>1. ms[i] = DecodeMessage(EncodeMessage(r.messages[i], r.model))
    OBVIOUS
  <2> QED
    BY <1>2, <2>1, KeptAgain
<1>4. DOMAIN ms = 1 .. n
  OBVIOUS
<1> HIDE DEF ms, n
<1>5. [i \in DOMAIN ms |-> Kept(ms[i])] = [i \in DOMAIN r.messages |-> Kept(r.messages[i])]
  BY <1>2, <1>3, <1>4
<1> QED
  BY <1>1, <1>5 DEF Conversation

-----------------------------------------------------------------------------
(* The sessions on disk and in the terminals: the invariant. *)

TeaFile(i) == <<"tea", i>>
OtherFile(i) == <<"pi", i>>

\* The file of another program that carries the identifier can be read.
OtherIsRead(i) == OtherFile(i) \in DOMAIN file /\ Decodable(file[OtherFile(i)])

\* A session file carries the identifier it is named after.  What Tea wrote can
\* be read, and is there only if no other program's file is read for it.
Written(lines, i) == AreEntries(lines) /\ lines # <<>> /\ lines[1].id = i
FilesHold ==
    /\ \A i \in Ids :
         /\ TeaFile(i) \in DOMAIN file => /\ Written(file[TeaFile(i)], i)
                                          /\ Decodable(file[TeaFile(i)])
                                          /\ ~OtherIsRead(i)
         /\ OtherFile(i) \in DOMAIN file => Written(file[OtherFile(i)], i)
    /\ directory = "missing" => \A n \in SessionNames : n \notin DOMAIN file

\* A terminal that saves writes the session it shows, to the file the session
\* was found in.
SavesSession(p) ==
    /\ job[p].kind = "session" /\ directory # "missing" /\ record[p].id \in Ids
    /\ job[p].lines = EncodeFile(record[p]) /\ Len(job[p].lines) <= MaxLines
    /\ job[p].to = IF OtherIsRead(record[p].id) THEN OtherFile(record[p].id)
                   ELSE TeaFile(record[p].id)
SavesModel(p) == job[p].kind = "model" /\ job[p].to = Preference
JobsHold == \A p \in Processes : Saving(p) => SavesSession(p) \/ SavesModel(p)

RecordHolds(r) ==
    /\ r = [id |-> r.id, model |-> r.model, thinking |-> r.thinking, messages |-> r.messages]
    /\ AreMessages(r.messages)
RecordsHold ==
    /\ record = [p \in Processes |-> record[p]]
    /\ \A p \in Processes :
         /\ RecordHolds(record[p])
         /\ IF pc[p] = "down" THEN record[p] = NoRecord ELSE record[p].id \in Ids

\* What a picker shows can be found.
PickersHold ==
    /\ listed = [p \in Processes |-> listed[p]]
    /\ \A p \in Processes : listed[p] \subseteq Ids /\ \A i \in listed[p] : Found(i) # {}

Bounded ==
    /\ directory \in {"missing", "real", "symlink"}
    /\ DOMAIN file \subseteq Names
    /\ pc \in [Processes -> {"down", "idle", "open", "write", "publish", "picking"}]
    /\ next \in [Processes -> Nat]

Hold == FilesHold /\ JobsHold /\ RecordsHold /\ PickersHold /\ Bounded

-----------------------------------------------------------------------------
(* Looking for a session. *)

\* The names of session files tell the identifiers apart.
LEMMA FileNames ==
    /\ \A i \in Ids : TeaFile(i) \in SessionNames /\ OtherFile(i) \in SessionNames
    /\ \A n \in SessionNames : \E i \in Ids : n = TeaFile(i) \/ n = OtherFile(i)
    /\ \A i, j \in Ids : /\ TeaFile(i) # OtherFile(j)
                         /\ TeaFile(i) = TeaFile(j) => i = j
                         /\ OtherFile(i) = OtherFile(j) => i = j
    /\ Preference \notin SessionNames
    /\ SessionNames \subseteq Readable /\ Preference \in Readable
<1>1. \A i, j : <<"tea", i>> # <<"pi", j>>
  OBVIOUS
<1>2. \A n \in SessionNames : \E i \in Ids : n = <<"tea", i>> \/ n = <<"pi", i>>
  BY DEF SessionNames
<1>3. \A i : <<"last-model">> # <<"tea", i>> /\ <<"last-model">> # <<"pi", i>>
  OBVIOUS
<1>4. \A i \in Ids : <<"tea", i>> \in SessionNames /\ <<"pi", i>> \in SessionNames
  BY DEF SessionNames
<1> QED
  BY <1>1, <1>2, <1>3, <1>4 DEF TeaFile, OtherFile, Readable, Preference

\* find_path has one answer: another program's file if it can be read, or Tea's.
FoundIn(i) ==
    IF OtherIsRead(i) THEN {OtherFile(i)}
    ELSE IF TeaFile(i) \in DOMAIN file THEN {TeaFile(i)} ELSE {}

\* What find_path finds, from the names alone.
LEMMA FoundIs == FilesHold => \A i \in Ids : Found(i) = FoundIn(i)
<1> SUFFICES ASSUME FilesHold, NEW i \in Ids PROVE Found(i) = FoundIn(i)
  OBVIOUS
<1>1. \A n \in SessionNames :
         n \in DOMAIN file /\ Decodable(file[n]) /\ file[n][1].id = i
           => n = TeaFile(i) \/ n = OtherFile(i)
  BY FileNames DEF FilesHold, Written
<1>2. TeaFile(i) \in DOMAIN file =>
         Decodable(file[TeaFile(i)]) /\ file[TeaFile(i)][1].id = i /\ ~OtherIsRead(i)
  BY DEF FilesHold, Written
<1>3. OtherFile(i) \in DOMAIN file => file[OtherFile(i)][1].id = i
  BY DEF FilesHold, Written
<1>4. TeaFile(i) \in SessionNames /\ OtherFile(i) \in SessionNames
  BY FileNames
<1>5. CASE directory = "missing"
  <2>1. TeaFile(i) \notin DOMAIN file /\ OtherFile(i) \notin DOMAIN file
    BY <1>4, <1>5 DEF FilesHold
  <2> QED
    BY <1>5, <2>1 DEF Found, OtherIsRead, FoundIn
<1>6. CASE directory # "missing"
  <2>1. Found(i) = {n \in DOMAIN file : n \in SessionNames /\ Decodable(file[n]) /\ file[n][1].id = i}
    BY <1>6 DEF Found
  <2>2. CASE OtherIsRead(i)
    <3>1. TeaFile(i) \notin DOMAIN file
      BY <1>2, <2>2
    <3> QED
      BY <1>1, <1>3, <1>4, <2>1, <2>2, <3>1 DEF OtherIsRead, FoundIn
  <2>3. CASE ~OtherIsRead(i)
    BY <1>1, <1>2, <1>4, <2>1, <2>3 DEF OtherIsRead, FoundIn
  <2> QED
    BY <2>2, <2>3
<1> QED
  BY <1>5, <1>6

\* The same after a step.
LEMMA FoundIsNext == FilesHold' => \A i \in Ids : Found(i)' = FoundIn(i)'
<1>1. FilesHold => \A i \in Ids : Found(i) = FoundIn(i)
  BY FoundIs
<1>2. (FilesHold => \A i \in Ids : Found(i) = FoundIn(i))'
  BY <1>1, PTL
<1> QED
  BY <1>2

\* Reading the files that were found.
StoredIn(found) ==
    CHOOSE c \in {Conversation(r) : r \in {DecodeFile(lines) : lines \in found}} : TRUE

\* What is stored depends on the contents of what is found.
LEMMA StoredIs ==
    ASSUME NEW i
    PROVE  Stored(i) = IF Found(i) = {} THEN Nothing ELSE StoredIn({file[n] : n \in Found(i)})
BY DEF Stored, StoredIn

\* The same after a step.
LEMMA StoredIsNext ==
    ASSUME NEW i
    PROVE  Stored(i)' = IF Found(i)' = {} THEN Nothing
                        ELSE StoredIn({file'[n] : n \in Found(i)'})
BY DEF Stored, StoredIn, Nothing

\* The session files are as they were.
SessionsKept ==
    \A n \in SessionNames : /\ n \in DOMAIN file' <=> n \in DOMAIN file
                            /\ n \in DOMAIN file => file'[n] = file[n]

\* A step that leaves the session files as they were finds what it found.
LEMMA FoundAgain ==
    ASSUME FilesHold, SessionsKept, directory' # directory => directory' # "missing"
    PROVE  /\ FilesHold'
           /\ \A i \in Ids : /\ OtherIsRead(i)' <=> OtherIsRead(i)
                             /\ Found(i)' = Found(i) /\ Stored(i)' = Stored(i)
<1>1. ASSUME NEW i \in Ids PROVE OtherIsRead(i)' <=> OtherIsRead(i)
  BY FileNames DEF SessionsKept, OtherIsRead
<1>2. FilesHold'
  <2>1. directory' = "missing" => \A n \in SessionNames : n \notin DOMAIN file'
    BY DEF FilesHold, SessionsKept
  <2>2. ASSUME NEW i \in Ids
        PROVE  /\ TeaFile(i) \in DOMAIN file' => /\ Written(file'[TeaFile(i)], i)
                                                 /\ Decodable(file'[TeaFile(i)])
                                                 /\ ~OtherIsRead(i)
               /\ OtherFile(i) \in DOMAIN file' => Written(file'[OtherFile(i)], i)
    BY FileNames DEF FilesHold, SessionsKept
  <2> QED
    BY <1>1, <2>1, <2>2 DEF FilesHold
<1>3. ASSUME NEW i \in Ids PROVE Found(i)' = Found(i)
  <2>1. Found(i)' = FoundIn(i)' /\ Found(i) = FoundIn(i)
    BY <1>2, FoundIs, FoundIsNext
  <2> QED
    BY <1>1, <2>1, FileNames DEF SessionsKept, FoundIn
<1>4. ASSUME NEW i \in Ids PROVE Stored(i)' = Stored(i)
  <2> DEFINE lines == {file[n] : n \in Found(i)}
  <2>1. \A n \in Found(i) : file'[n] = file[n]
    BY FileNames DEF Found, SessionsKept
  <2>2. Found(i)' = Found(i) /\ {file'[n] : n \in Found(i)'} = lines
    BY <1>3, <2>1
  <2> QED
    BY <2>2, StoredIs, StoredIsNext
<1> QED
  BY <1>1, <1>2, <1>3, <1>4

-----------------------------------------------------------------------------
(* Which steps touch a session file. *)

\* Writing a temporary leaves the session files as they were.
LEMMA WriteKeeps ==
    ASSUME NEW p \in Processes, NEW temp \in OwnTemporaries(p), NEW lines,
           file' = With(temp, lines)
    PROVE  SessionsKept
BY TemporaryIsNotReadable, FileNames DEF SessionsKept, With

\* So does every step but the publication of a session.
LEMMA StepKeeps ==
    ASSUME Inv, Hold, NumbersApart, NEW p \in Processes, Step(p)
    PROVE  \/ SessionsKept
           \/ Publish(p) /\ RenameFile(job[p].temp, job[p].to) /\ SavesSession(p)
<1>1. UNCHANGED file => SessionsKept
  BY DEF SessionsKept
<1>2. ASSUME OpenTemporary(p) PROVE SessionsKept
  <2>1. job[p].temp \in OwnTemporaries(p)
    BY <1>2 DEF OpenTemporary, At, Inv, OwnNames, Saving
  <2> QED
    BY <1>1, <1>2, <2>1, WriteKeeps DEF OpenTemporary
<1>3. ASSUME pc[p] = "write", NEW lines, PutThrough(p, lines) PROVE SessionsKept
  <2>1. job[p].temp \in OwnTemporaries(p)
    BY <1>3 DEF Inv, OwnNames, Saving
  <2> QED
    BY <1>3, <2>1, WriteKeeps, WriteTouches
<1>4. ASSUME WriteTemporary(p) PROVE SessionsKept
  BY <1>3, <1>4 DEF WriteTemporary, At
<1>5. ASSUME Crash(p) PROVE SessionsKept
  BY <1>1, <1>3, <1>5 DEF Crash, At
<1>6. ASSUME Publish(p)
      PROVE  SessionsKept \/ (RenameFile(job[p].temp, job[p].to) /\ SavesSession(p))
  <2>1. job[p].temp \in OwnTemporaries(p) /\ Saving(p)
    BY <1>6 DEF Publish, At, Inv, OwnNames, Saving
  <2>2. job[p].temp \notin SessionNames
    BY <2>1, TemporaryIsNotReadable, FileNames
  <2>3. CASE RemoveFile(job[p].temp)
    BY <2>2, <2>3 DEF RemoveFile, Restrict, SessionsKept
  <2>4. CASE RenameFile(job[p].temp, job[p].to) /\ SavesModel(p)
    <3>1. job[p].to \notin SessionNames
      BY <2>4, FileNames DEF SavesModel
    <3> QED
      BY <2>2, <2>4, <3>1 DEF RenameFile, SessionsKept
  <2> QED
    BY <1>6, <2>1, <2>3, <2>4 DEF Publish, Hold, JobsHold
<1>7. CASE Start(p) \/ Converse(p) \/ NewSession(p) \/ Save(p)
           \/ (\E model \in Models : SelectModel(p, model))
           \/ List(p) \/ ClosePicker(p) \/ Load(p)
  BY <1>1, <1>7
  DEF Start, Converse, NewSession, Save, SelectModel, List, ClosePicker, Load, disk
<1> QED
  BY <1>2, <1>4, <1>5, <1>6, <1>7 DEF Step

\* A session is replaced by what the terminal shows.
LEMMA PublishStores ==
    ASSUME Inv, Hold, NumbersApart, NEW p \in Processes, NEW i \in Ids, i = record[p].id,
           Publish(p), RenameFile(job[p].temp, job[p].to), SavesSession(p)
    PROVE  /\ FilesHold'
           /\ \A j \in Ids : OtherIsRead(j)' <=> OtherIsRead(j)
           /\ \A j \in Ids \ {i} : Found(j)' = Found(j) /\ Stored(j)' = Stored(j)
           /\ Found(i)' # {}
           /\ Stored(i)' = Conversation(record[p])
<1> DEFINE r == record[p]
           to == job[p].to
           temp == job[p].temp
<1>1. /\ i \in Ids /\ directory # "missing" /\ directory' = directory
      /\ to = IF OtherIsRead(i) THEN OtherFile(i) ELSE TeaFile(i)
      /\ job[p].lines = EncodeFile(r) /\ Len(EncodeFile(r)) <= MaxLines
  BY DEF SavesSession, Publish
<1>2. /\ temp \in DOMAIN file /\ file[temp] = EncodeFile(r)
      /\ temp \in OwnTemporaries(p)
  BY <1>1 DEF Publish, At, Inv, OpenFiles, OwnNames, Saving
<1>3. temp \notin SessionNames
  BY <1>2, TemporaryIsNotReadable, FileNames
<1>4. /\ to \in DOMAIN file' /\ file'[to] = EncodeFile(r)
      /\ \A n \in SessionNames \ {to} : /\ n \in DOMAIN file' <=> n \in DOMAIN file
                                        /\ n \in DOMAIN file => file'[n] = file[n]
  BY <1>2, <1>3 DEF RenameFile
<1>5. AreMessages(r.messages)
  BY DEF Hold, RecordsHold, RecordHolds
<1>6. Decodable(EncodeFile(r)) /\ AreEntries(EncodeFile(r))
  BY <1>1, <1>5, WrittenIsDecodable
<1>7. EncodeFile(r)[1].id = i /\ EncodeFile(r) # <<>>
  <2>1. r.messages \in Seq(Range(r.messages))
    BY <1>5 DEF AreMessages
  <2>2. EncodeFile(r)[1] = Header(r)
    BY <2>1, EncodedFile
  <2>3. Len(EncodeFile(r)) # 0
    BY <1>6, BoundsAssumption DEF Decodable
  <2>4. Len(<<>>) = 0
    OBVIOUS
  <2> QED
    BY <2>2, <2>3, <2>4 DEF Header
<1> HIDE DEF r, to, temp
<1>8. Written(EncodeFile(r), i)
  BY <1>6, <1>7 DEF Written
<1>9. FilesHold
  BY DEF Hold
<1>10. ASSUME NEW j \in Ids
       PROVE  /\ OtherIsRead(j)' <=> OtherIsRead(j)
              /\ TeaFile(j) = to => j = i /\ ~OtherIsRead(i)
              /\ OtherFile(j) = to => j = i
              /\ j # i => TeaFile(j) # to /\ OtherFile(j) # to
  <2>1. /\ TeaFile(j) = to => j = i /\ ~OtherIsRead(i)
        /\ OtherFile(j) = to => j = i /\ OtherIsRead(i)
    BY <1>1, FileNames
  <2>2. CASE OtherFile(j) = to
    BY <1>4, <1>6, <2>1, <2>2 DEF OtherIsRead
  <2>3. ASSUME OtherFile(j) # to PROVE OtherIsRead(j)' <=> OtherIsRead(j)
    <3>1. OtherFile(j) \in SessionNames \ {to}
      BY <2>3, FileNames
    <3>2. /\ OtherFile(j) \in DOMAIN file' <=> OtherFile(j) \in DOMAIN file
          /\ OtherFile(j) \in DOMAIN file => file'[OtherFile(j)] = file[OtherFile(j)]
      BY <1>4, <3>1
    <3> QED
      BY <3>2 DEF OtherIsRead
  <2>4. j # i => TeaFile(j) # to /\ OtherFile(j) # to
    BY <1>1, FileNames
  <2> QED
    BY <2>1, <2>2, <2>3, <2>4
<1>11. FilesHold'
  <2>1. ASSUME NEW j \in Ids, TeaFile(j) \in DOMAIN file'
        PROVE  /\ Written(file'[TeaFile(j)], j) /\ Decodable(file'[TeaFile(j)])
               /\ ~OtherIsRead(j)
    <3>1. CASE TeaFile(j) = to
      BY <1>4, <1>6, <1>8, <1>10, <3>1
    <3>2. CASE TeaFile(j) # to
      <4>0. TeaFile(j) \in SessionNames \ {to}
        BY <3>2, FileNames
      <4>1. TeaFile(j) \in DOMAIN file /\ file'[TeaFile(j)] = file[TeaFile(j)]
        BY <1>4, <2>1, <4>0
      <4> QED
        BY <1>9, <4>1 DEF FilesHold
    <3> QED
      BY <3>1, <3>2
  <2>2. ASSUME NEW j \in Ids, OtherFile(j) \in DOMAIN file'
        PROVE  Written(file'[OtherFile(j)], j)
    <3>1. CASE OtherFile(j) = to
      BY <1>4, <1>8, <1>10, <3>1
    <3>2. CASE OtherFile(j) # to
      <4>0. OtherFile(j) \in SessionNames \ {to}
        BY <3>2, FileNames
      <4>1. OtherFile(j) \in DOMAIN file /\ file'[OtherFile(j)] = file[OtherFile(j)]
        BY <1>4, <2>2, <4>0
      <4> QED
        BY <1>9, <4>1 DEF FilesHold
    <3> QED
      BY <3>1, <3>2
  <2>3. directory' # "missing"
    BY <1>1
  <2> QED
    BY <1>10, <2>1, <2>2, <2>3 DEF FilesHold
<1>12. ASSUME NEW j \in Ids \ {i} PROVE Found(j)' = Found(j) /\ Stored(j)' = Stored(j)
  <2>1. Found(j)' = FoundIn(j)' /\ Found(j) = FoundIn(j)
    BY <1>9, <1>11, FoundIs, FoundIsNext
  <2>2. TeaFile(j) \in DOMAIN file' <=> TeaFile(j) \in DOMAIN file
    <3>1. TeaFile(j) \in SessionNames \ {to}
      BY <1>10, FileNames
    <3> QED
      BY <1>4, <3>1
  <2>3. Found(j)' = Found(j)
    BY <1>10, <2>1, <2>2 DEF FoundIn
  <2>4. \A n \in Found(j) : n \in SessionNames \ {to} /\ n \in DOMAIN file
    BY <1>10, <2>1, FileNames DEF FoundIn, OtherIsRead
  <2>5. \A n \in Found(j) : file'[n] = file[n]
    BY <1>4, <2>4
  <2>6. {file'[n] : n \in Found(j)} = {file[n] : n \in Found(j)}
    BY <2>5
  <2> QED
    BY <2>3, <2>6, StoredIs, StoredIsNext
<1>13. Found(i)' = {to}
  <2>1. Found(i)' = FoundIn(i)'
    BY <1>1, <1>11, FoundIsNext
  <2>2. OtherIsRead(i)' <=> OtherIsRead(i)
    BY <1>1, <1>10
  <2> QED
    BY <1>1, <1>4, <2>1, <2>2 DEF FoundIn
<1>14. Stored(i)' = Conversation(r)
  <2>1. {file'[n] : n \in {to}} = {EncodeFile(r)}
    BY <1>4
  <2>2. Stored(i)' = StoredIn({EncodeFile(r)})
    BY <1>13, <2>1, StoredIsNext
  <2>3. {Conversation(x) : x \in {DecodeFile(lines) : lines \in {EncodeFile(r)}}}
          = {Conversation(DecodeFile(EncodeFile(r)))}
    OBVIOUS
  <2>4. StoredIn({EncodeFile(r)}) = Conversation(DecodeFile(EncodeFile(r)))
    BY <2>3 DEF StoredIn
  <2> QED
    BY <1>5, <2>2, <2>4, RoundTrip
<1> QED
  BY <1>10, <1>11, <1>12, <1>13, <1>14 DEF r

-----------------------------------------------------------------------------
(* What a step leaves behind. *)

\* What was found is found after a step.
LEMMA StepFinds ==
    ASSUME Inv, Hold, NumbersApart, NEW p \in Processes, Step(p)
    PROVE  /\ FilesHold'
           /\ \A i \in Ids : /\ OtherIsRead(i)' <=> OtherIsRead(i)
                             /\ Found(i) # {} => Found(i)' # {}
           /\ directory # "missing" => directory' # "missing"
<1>1. /\ directory # "missing" => directory' # "missing"
      /\ directory' # directory => directory' # "missing"
  BY DEF Step, Start, Converse, NewSession, Save, SelectModel, OpenTemporary, WriteTemporary,
         Publish, List, ClosePicker, Load, Crash, disk
<1>2. CASE SessionsKept
  BY <1>1, <1>2, FoundAgain DEF Hold
<1>3. CASE Publish(p) /\ RenameFile(job[p].temp, job[p].to) /\ SavesSession(p)
  <2>1. record[p].id \in Ids
    BY <1>3 DEF SavesSession
  <2>2. ASSUME NEW i \in Ids, i = record[p].id
        PROVE  /\ FilesHold'
               /\ \A j \in Ids : /\ OtherIsRead(j)' <=> OtherIsRead(j)
                                 /\ Found(j) # {} => Found(j)' # {}
    BY <1>3, <2>2, PublishStores
  <2> QED
    BY <1>1, <2>1, <2>2
<1> QED
  BY <1>2, <1>3, StepKeeps

\* A step of one terminal leaves what the others do alone.
LEMMA StepIsOwn ==
    ASSUME Inv, Hold, NEW p \in Processes, Step(p)
    PROVE  /\ \A q \in Processes \ {p} : /\ pc'[q] = pc[q] /\ job'[q] = job[q]
                                         /\ record'[q] = record[q] /\ listed'[q] = listed[q]
           /\ record' = [q \in Processes |-> record'[q]]
           /\ listed' = [q \in Processes |-> listed'[q]]
<1>1. /\ pc = [q \in Processes |-> pc[q]] /\ job = [q \in Processes |-> job[q]]
      /\ record = [q \in Processes |-> record[q]] /\ listed = [q \in Processes |-> listed[q]]
  BY DEF Inv, Functional, Hold, RecordsHold, PickersHold
<1> USE <1>1 DEF GoTo, At, disk
<1>2. CASE Start(p) \/ NewSession(p)
  BY <1>2 DEF Start, NewSession, BeginSession
<1>3. CASE Converse(p) \/ Load(p)
  BY <1>3 DEF Converse, Load
<1>4. CASE Save(p)
  BY <1>4 DEF Save
<1>5. CASE \E model \in Models : SelectModel(p, model)
  BY <1>5 DEF SelectModel
<1>6. CASE OpenTemporary(p) \/ WriteTemporary(p) \/ Publish(p)
  BY <1>6 DEF OpenTemporary, WriteTemporary, Publish, GiveUp
<1>7. CASE List(p) \/ ClosePicker(p) \/ Crash(p)
  BY <1>7 DEF List, ClosePicker, Crash
<1> QED
  BY <1>2, <1>3, <1>4, <1>5, <1>6, <1>7 DEF Step

\* The session a terminal shows after a step.
LEMMA StepRecord ==
    ASSUME Inv, Hold, NEW p \in Processes, Step(p)
    PROVE  /\ RecordHolds(record'[p])
           /\ IF pc'[p] = "down" THEN record'[p] = NoRecord ELSE record'[p].id \in Ids
<1> DEFINE Goal == /\ RecordHolds(record'[p])
                   /\ IF pc'[p] = "down" THEN record'[p] = NoRecord ELSE record'[p].id \in Ids
<1>1. /\ pc = [q \in Processes |-> pc[q]] /\ record = [q \in Processes |-> record[q]]
      /\ RecordHolds(record[p])
      /\ IF pc[p] = "down" THEN record[p] = NoRecord ELSE record[p].id \in Ids
  BY DEF Inv, Functional, Hold, RecordsHold
<1>2. AreMessages(<<>>)
  BY DEF AreMessages, Range
<1>3. ASSUME NEW model, BeginSession(p, model), pc'[p] = "idle" PROVE Goal
  <2>1. PICK i \in Ids : record'[p] = [id |-> i, model |-> model, thinking |-> Thinking,
                                       messages |-> <<>>]
    BY <1>1, <1>3 DEF BeginSession
  <2> QED
    BY <1>2, <1>3, <2>1 DEF RecordHolds
<1>4. CASE Start(p) \/ NewSession(p)
  <2>1. pc'[p] = "idle" /\ \E model : BeginSession(p, model)
    BY <1>1, <1>4 DEF Start, NewSession, GoTo, At
  <2> QED
    BY <1>3, <2>1
<1>5. CASE Converse(p)
  <2>1. PICK x \in Exchanges : record' = [record EXCEPT ![p].messages = @ \o x]
    BY <1>5 DEF Converse
  <2> DEFINE r == record[p]
  <2>2. /\ record'[p] = [r EXCEPT !.messages = @ \o x]
        /\ pc'[p] = pc[p] /\ pc[p] = "idle" /\ r.id \in Ids
    BY <1>1, <1>5, <2>1 DEF Converse, At
  <2>3. r = [id |-> r.id, model |-> r.model, thinking |-> r.thinking, messages |-> r.messages]
        /\ AreMessages(r.messages)
    BY <1>1 DEF RecordHolds
  <2> HIDE DEF r
  <2>4. record'[p] = [id |-> r.id, model |-> r.model, thinking |-> r.thinking,
                      messages |-> r.messages \o x]
    BY <2>2, <2>3
  <2>5. AreMessages(r.messages \o x)
    <3>1. x \in Seq(Range(x)) /\ \A m \in Range(x) : IsMessage(m)
      BY ContentsAssumption
    <3> DEFINE S == Range(r.messages) \cup Range(x)
    <3>2. \A m \in S : IsMessage(m)
      BY <2>3, <3>1 DEF AreMessages
    <3>3. r.messages \in Seq(S) /\ x \in Seq(S)
      BY <2>3, <3>1 DEF AreMessages
    <3> HIDE DEF S
    <3>4. r.messages \o x \in Seq(S)
      BY <3>3, ConcatProperties
    <3> QED
      BY <3>2, <3>4, SeqOfRange, RangeOfSeq DEF AreMessages
  <2> QED
    BY <2>2, <2>4, <2>5 DEF RecordHolds
<1>6. ASSUME NEW model, SelectModel(p, model) PROVE Goal
  <2> DEFINE r == record[p]
  <2>1. r = [id |-> r.id, model |-> r.model, thinking |-> r.thinking, messages |-> r.messages]
        /\ AreMessages(r.messages)
    BY <1>1 DEF RecordHolds
  <2>2. /\ record'[p] = [r EXCEPT !.model = model]
        /\ pc'[p] = "open" /\ r.id \in Ids
    BY <1>1, <1>6 DEF SelectModel, GoTo, At
  <2> HIDE DEF r
  <2>3. record'[p] = [id |-> r.id, model |-> model, thinking |-> r.thinking,
                      messages |-> r.messages]
    BY <2>1, <2>2
  <2> QED
    BY <2>1, <2>2, <2>3 DEF RecordHolds
<1>7. CASE Load(p)
  <2>1. PICK i \in listed[p] : \E n \in Found(i) :
           record' = [record EXCEPT ![p] = DecodeFile(file[n])]
    BY <1>7 DEF Load
  <2>2. PICK n \in Found(i) : record' = [record EXCEPT ![p] = DecodeFile(file[n])]
    BY <2>1
  <2>3. i \in Ids
    BY DEF Hold, PickersHold
  <2>4. n \in SessionNames /\ n \in DOMAIN file /\ Decodable(file[n]) /\ file[n][1].id = i
    BY DEF Found
  <2>5. AreEntries(file[n])
    BY <2>4, FileNames DEF Hold, FilesHold, Written
  <2>6. AreMessages(MessagesIn(file[n]))
    BY <2>4, <2>5, ReadMessages
  <2>7. /\ record'[p] = [id |-> i, model |-> ModelIn(file[n]), thinking |-> ThinkingIn(file[n]),
                         messages |-> MessagesIn(file[n])]
        /\ pc'[p] = "idle"
    BY <1>1, <1>7, <2>2, <2>4 DEF Load, DecodeFile, GoTo
  <2> QED
    BY <2>3, <2>6, <2>7 DEF RecordHolds
<1>8. CASE Crash(p)
  <2>1. record'[p] = NoRecord /\ pc'[p] = "down"
    BY <1>1, <1>8 DEF Crash, GoTo
  <2> QED
    BY <1>2, <2>1 DEF RecordHolds, NoRecord
<1>9. ASSUME record' = record, pc[p] # "down", pc'[p] # "down" PROVE Goal
  BY <1>1, <1>9
<1>10. CASE Save(p) \/ OpenTemporary(p) \/ WriteTemporary(p) \/ Publish(p)
            \/ List(p) \/ ClosePicker(p)
  <2>1. record' = record /\ pc[p] # "down" /\ pc'[p] # "down"
    BY <1>1, <1>10
    DEF Save, OpenTemporary, WriteTemporary, Publish, List, ClosePicker, GoTo, At, GiveUp
  <2> QED
    BY <1>9, <2>1
<1>11. CASE \E model \in Models : SelectModel(p, model)
  BY <1>6, <1>11
<1> QED
  BY <1>4, <1>5, <1>7, <1>8, <1>10, <1>11, Zenon DEF Step

\* The picker of a terminal after a step.
LEMMA StepPicker ==
    ASSUME Inv, Hold, NumbersApart, NEW p \in Processes, Step(p)
    PROVE  listed'[p] \subseteq Ids /\ \A i \in listed'[p] : Found(i)' # {}
<1>1. /\ listed = [q \in Processes |-> listed[q]]
      /\ listed[p] \subseteq Ids /\ \A i \in listed[p] : Found(i) # {}
  BY DEF Hold, PickersHold
<1>2. CASE listed' = listed
  BY <1>1, <1>2, StepFinds
<1>3. CASE listed' = [listed EXCEPT ![p] = {}]
  BY <1>1, <1>3
<1>4. CASE List(p)
  <2>1. listed'[p] = Listable
    BY <1>1, <1>4 DEF List
  <2>2. ASSUME NEW i \in Listable PROVE i \in Ids /\ Found(i) # {}
    <3>1. PICK n \in DOMAIN file : /\ n \in SessionNames /\ Decodable(file[n])
                                   /\ file[n][1].id = i /\ directory # "missing"
      BY <2>2 DEF Listable
    <3>2. i \in Ids
      BY <3>1, FileNames DEF Hold, FilesHold, Written
    <3> QED
      BY <3>1, <3>2 DEF Found
  <2> QED
    BY <2>1, <2>2, StepFinds
<1> QED
  BY <1>2, <1>3, <1>4
  DEF Step, Start, Converse, NewSession, Save, SelectModel, OpenTemporary, WriteTemporary,
      Publish, ClosePicker, Load, Crash

\* What a terminal is saving after a step.
LEMMA StepJob ==
    ASSUME Inv, Hold, NumbersApart, NEW p \in Processes, Step(p), Saving(p)'
    PROVE  (SavesSession(p) \/ SavesModel(p))'
<1> USE DEF At, GoTo
<1>1. /\ pc = [q \in Processes |-> pc[q]] /\ job = [q \in Processes |-> job[q]]
      /\ record = [q \in Processes |-> record[q]]
      /\ Saving(p) => SavesSession(p) \/ SavesModel(p)
  BY DEF Inv, Functional, Hold, RecordsHold, JobsHold
<1>2. ASSUME Saving(p), job' = job, record' = record
      PROVE  (SavesSession(p) \/ SavesModel(p))'
  <2>1. CASE SavesModel(p)
    BY <1>2, <2>1 DEF SavesModel
  <2>2. CASE SavesSession(p)
    <3>1. /\ directory' # "missing"
          /\ OtherIsRead(record[p].id)' <=> OtherIsRead(record[p].id)
      BY <1>2, <2>2, StepFinds DEF SavesSession
    <3> QED
      BY <1>2, <2>2, <3>1 DEF SavesSession
  <2> QED
    BY <1>1, <1>2, <2>1, <2>2
<1>3. CASE OpenTemporary(p) \/ WriteTemporary(p)
  <2>1. Saving(p) /\ job' = job /\ record' = record
    BY <1>1, <1>3 DEF OpenTemporary, WriteTemporary, GiveUp, Saving
  <2> QED
    BY <1>2, <2>1
<1>4. CASE Save(p)
  <2>1. CASE Len(EncodeFile(record[p])) > MaxLines
    BY <1>1, <1>4, <2>1 DEF Save, Saving
  <2>2. CASE ~(Len(EncodeFile(record[p])) > MaxLines)
    <3> DEFINE lines == EncodeFile(record[p])
               number == next[p] + Len(lines) - 1
               places == IF Found(record[p].id) = {} THEN {<<"tea", record[p].id>>}
                         ELSE Found(record[p].id)
    <3>1. PICK n \in places :
             job' = [job EXCEPT ![p] = [kind |-> "session", to |-> n,
                                        temp |-> Temporary("session", number), lines |-> lines]]
      BY <1>4, <2>2 DEF Save
    <3>2. job'[p].kind = "session" /\ job'[p].to = n /\ job'[p].lines = lines
      BY <1>1, <3>1
    <3>3. record' = record /\ directory' = "real" /\ UNCHANGED file
      BY <1>4 DEF Save
    <3>4. record[p].id \in Ids
      BY <1>4 DEF Save, Hold, RecordsHold
    <3>5. n = IF OtherIsRead(record[p].id) THEN OtherFile(record[p].id)
              ELSE TeaFile(record[p].id)
      <4>1. Found(record[p].id) = FoundIn(record[p].id)
        BY <3>4, FoundIs DEF Hold
      <4> QED
        BY <4>1 DEF FoundIn, TeaFile
    <3>6. Len(lines) <= MaxLines
      <4>1. Len(lines) \in Nat
        <5>1. AreMessages(record[p].messages)
          BY DEF Hold, RecordsHold, RecordHolds
        <5> QED
          BY <5>1, EncodedFile, LenProperties DEF AreMessages
      <4> HIDE DEF lines
      <4>2. ~(Len(lines) > MaxLines)
        BY <2>2 DEF lines
      <4> QED
        BY <4>1, <4>2, BoundsAssumption
    <3> HIDE DEF lines
    <3>7. /\ job'[p].to = IF OtherIsRead(record[p].id)' THEN OtherFile(record'[p].id)
                         ELSE TeaFile(record'[p].id)
          /\ lines = EncodeFile(record'[p]) /\ record'[p].id \in Ids
      BY <3>2, <3>3, <3>4, <3>5, StepFinds DEF lines
    <3> QED
      BY <3>2, <3>3, <3>6, <3>7 DEF SavesSession
  <2> QED
    BY <2>1, <2>2
<1>5. CASE \E model \in Models : SelectModel(p, model)
  BY <1>1, <1>5 DEF SelectModel, SavesModel
<1>6. CASE Start(p) \/ Converse(p) \/ NewSession(p) \/ Publish(p) \/ List(p) \/ ClosePicker(p)
           \/ Load(p) \/ Crash(p)
  BY <1>1, <1>6
  DEF Start, Converse, NewSession, Publish, GiveUp, List, ClosePicker, Load, Crash, Saving
<1> QED
  BY <1>3, <1>4, <1>5, <1>6, Zenon DEF Step

\* Names stay within the bounds, and numbers are numbers.
LEMMA StepBounded ==
    ASSUME Inv, Hold, NumbersApart, NEW p \in Processes, Step(p)
    PROVE  Bounded'
<1> USE DEF At, GoTo
<1>1. /\ pc = [q \in Processes |-> pc[q]] /\ Bounded
      /\ Saving(p) => /\ job[p].temp \in Names
                      /\ job[p].to \in Names
      /\ pc[p] = "write" => fd[p] = job[p].temp
  <2>1. OwnTemporaries(p) \subseteq Names
    <3>1. /\ \A n \in FirstId[p] .. LastId[p] : n \in Numbers
          /\ \A n \in FirstChoice[p] .. LastChoice[p] : n \in Numbers
      BY DEF Numbers
    <3>2. \A n \in Numbers : <<"session", n>> \in TemporaryNames /\ <<"model", n>> \in TemporaryNames
      BY DEF TemporaryNames, Temporary
    <3> QED
      BY <3>1, <3>2 DEF OwnTemporaries, Names
  <2>2. \A i \in Ids : TeaFile(i) \in Names /\ OtherFile(i) \in Names
    BY FileNames DEF Names
  <2>3. Preference \in Names
    BY FileNames DEF Names
  <2> QED
    BY <2>1, <2>2, <2>3
    DEF Inv, Functional, OwnNames, OpenFiles, Hold, JobsHold, SavesSession, SavesModel
<1>2. directory' \in {"missing", "real", "symlink"}
  BY <1>1 DEF Step, Start, Converse, NewSession, Save, SelectModel, OpenTemporary, WriteTemporary,
     Publish, List, ClosePicker, Load, Crash, disk, Bounded
<1>3. DOMAIN file' \subseteq Names
  <2>1. CASE UNCHANGED file
    BY <1>1, <2>1 DEF Bounded
  <2>2. ASSUME NEW lines, pc[p] = "write", PutThrough(p, lines) PROVE DOMAIN file' \subseteq Names
    BY <1>1, <2>2 DEF PutThrough, With, Bounded, Saving
  <2>3. CASE OpenTemporary(p)
    BY <1>1, <2>3 DEF OpenTemporary, With, Bounded, Saving
  <2>4. CASE WriteTemporary(p) \/ Crash(p)
    BY <2>1, <2>2, <2>4 DEF WriteTemporary, Crash
  <2>5. CASE Publish(p)
    BY <1>1, <2>5 DEF Publish, RenameFile, RemoveFile, Restrict, Bounded, Saving
  <2>6. CASE Start(p) \/ Converse(p) \/ NewSession(p) \/ Save(p)
             \/ (\E model \in Models : SelectModel(p, model))
             \/ List(p) \/ ClosePicker(p) \/ Load(p)
    BY <2>1, <2>6
    DEF Start, Converse, NewSession, Save, SelectModel, List, ClosePicker, Load, disk
  <2> QED
    BY <2>3, <2>4, <2>5, <2>6, Zenon DEF Step
<1>4. pc' \in [Processes -> {"down", "idle", "open", "write", "publish", "picking"}]
  BY <1>1 DEF Step, Start, Converse, NewSession, Save, SelectModel, OpenTemporary, WriteTemporary,
     Publish, List, ClosePicker, Load, Crash, GiveUp, Bounded
<1>5. next' \in [Processes -> Nat]
  <2>1. next \in [Processes -> Nat] /\ FirstId \in [Processes -> Nat] /\ LastId \in [Processes -> Nat]
    BY <1>1, BoundsAssumption DEF Bounded
  <2>2. CASE Save(p)
    <3>1. PICK number \in FirstId[p] .. LastId[p] - 1 :
             \/ next' = [next EXCEPT ![p] = number]
             \/ next' = [next EXCEPT ![p] = number + 1]
      BY <2>2 DEF Save
    <3> QED
      BY <2>1, <3>1
  <2>3. CASE Start(p) \/ NewSession(p)
    <3>1. next' = [next EXCEPT ![p] = @ + 1]
      BY <2>3 DEF Start, NewSession, BeginSession
    <3> QED
      BY <2>1, <3>1
  <2>4. CASE Crash(p)
    BY <2>1, <2>4 DEF Crash
  <2>5. CASE next' = next
    BY <2>1, <2>5
  <2> QED
    BY <2>2, <2>3, <2>4, <2>5
    DEF Step, Converse, SelectModel, OpenTemporary, WriteTemporary, Publish, List, ClosePicker, Load
<1> QED
  BY <1>2, <1>3, <1>4, <1>5 DEF Bounded

\* Every step keeps the invariant.
LEMMA HoldStep == Inv /\ Hold /\ NumbersApart /\ [Next]_vars => Hold'
<1> SUFFICES ASSUME Inv, Hold, NumbersApart, [Next]_vars PROVE Hold'
  OBVIOUS
<1>1. CASE UNCHANGED vars
  <2>1. SessionsKept /\ directory' = directory
    BY <1>1 DEF vars, disk, SessionsKept
  <2>2. FilesHold' /\ \A i \in Ids : Found(i)' = Found(i) /\ (OtherIsRead(i)' <=> OtherIsRead(i))
    BY <2>1, FoundAgain DEF Hold
  <2>3. UNCHANGED <<directory, file, pc, job, record, next, listed>>
    BY <1>1 DEF vars, disk
  <2>4. JobsHold'
    BY <2>3 DEF Hold, JobsHold, Saving, SavesSession, SavesModel, OtherIsRead
  <2>5. RecordsHold' /\ Bounded'
    BY <2>3 DEF Hold, RecordsHold, Bounded
  <2>6. PickersHold'
    BY <2>2, <2>3 DEF Hold, PickersHold
  <2> QED
    BY <2>2, <2>4, <2>5, <2>6 DEF Hold
<1>2. ASSUME NEW p \in Processes, Step(p) PROVE Hold'
  <2>1. FilesHold' /\ Bounded'
    BY <1>2, StepFinds, StepBounded
  <2>2. RecordsHold'
    BY <1>2, StepIsOwn, StepRecord DEF Hold, RecordsHold
  <2>3. PickersHold'
    <3>1. ASSUME NEW q \in Processes
          PROVE  listed'[q] \subseteq Ids /\ \A i \in listed'[q] : Found(i)' # {}
      <4>1. CASE q = p
        BY <1>2, <4>1, StepPicker
      <4>2. CASE q # p
        <5>1. listed'[q] = listed[q] /\ listed[q] \subseteq Ids
              /\ \A i \in listed[q] : Found(i) # {}
          BY <1>2, <4>2, StepIsOwn DEF Hold, PickersHold
        <5> QED
          BY <1>2, <5>1, StepFinds
      <4> QED
        BY <4>1, <4>2
    <3>2. listed' = [q \in Processes |-> listed'[q]]
      BY <1>2, StepIsOwn
    <3> QED
      BY <3>1, <3>2 DEF PickersHold
  <2>4. JobsHold'
    <3>1. ASSUME NEW q \in Processes, Saving(q)' PROVE (SavesSession(q) \/ SavesModel(q))'
      <4>1. CASE q = p
        BY <1>2, <3>1, <4>1, StepJob
      <4>2. CASE q # p
        <5>1. /\ pc'[q] = pc[q] /\ job'[q] = job[q] /\ record'[q] = record[q]
          BY <1>2, <4>2, StepIsOwn
        <5>2. SavesSession(q) \/ SavesModel(q)
          BY <3>1, <5>1 DEF Hold, JobsHold, Saving
        <5>3. CASE SavesModel(q)
          BY <5>1, <5>3 DEF SavesModel
        <5>4. CASE SavesSession(q)
          <6>1. directory' # "missing"
            BY <1>2, <5>4, StepFinds DEF SavesSession
          <6>2. \A i \in Ids : OtherIsRead(i)' <=> OtherIsRead(i)
            BY <1>2, StepFinds
          <6> QED
            BY <5>1, <5>4, <6>1, <6>2 DEF SavesSession
        <5> QED
          BY <5>2, <5>3, <5>4
      <4> QED
        BY <4>1, <4>2
    <3> QED
      BY <3>1 DEF JobsHold
  <2> QED
    BY <2>1, <2>2, <2>3, <2>4 DEF Hold
<1> QED
  BY <1>1, <1>2 DEF Next

\* It holds of the directory a terminal finds.
LEMMA HoldInit == Init => Hold
<1> SUFFICES ASSUME Init PROVE Hold
  OBVIOUS
<1>1. AreMessages(<<>>)
  BY DEF AreMessages, Range
<1>2. JobsHold /\ PickersHold
  BY DEF Init, JobsHold, PickersHold, Saving
<1>3. RecordsHold
  <2>1. RecordHolds(NoRecord)
    BY <1>1 DEF RecordHolds, NoRecord
  <2> QED
    BY <2>1 DEF Init, RecordsHold
<1>4. CASE file = <<>> /\ directory \in {"missing", "real", "symlink"}
  <2>1. DOMAIN file = {}
    BY <1>4
  <2>2. FilesHold
    BY <2>1 DEF FilesHold
  <2>3. Bounded
    BY <1>4, <2>1, BoundsAssumption DEF Bounded, Init
  <2> QED
    BY <1>2, <1>3, <2>2, <2>3 DEF Hold
<1>5. ASSUME directory = "real", NEW i \in Ids, NEW lines \in Imported,
             file = [n \in {<<"pi", i>>} |->
                      <<[type |-> "session", id |-> i, model |-> NoModel]>> \o lines]
      PROVE  Hold
  <2> DEFINE head == [type |-> "session", id |-> i, model |-> NoModel]
             whole == <<head>> \o lines
  <2>1. DOMAIN file = {OtherFile(i)} /\ file[OtherFile(i)] = whole
    BY <1>5 DEF OtherFile
  <2>2. Written(whole, i)
    <3>1. lines \in Seq(Range(lines)) /\ \A l \in Range(lines) : IsEntry(l)
      BY ContentsAssumption
    <3>2. head.type = "session" /\ head.id = i
      OBVIOUS
    <3>3. IsEntry(head)
      BY <3>2 DEF IsEntry
    <3> HIDE DEF head
    <3> DEFINE S == {head} \cup Range(lines)
               one == <<head>>
    <3>4. one \in Seq(S) /\ Len(one) = 1 /\ one[1] = head
      OBVIOUS
    <3>5. lines \in Seq(S)
      BY <3>1
    <3>6. \A l \in S : IsEntry(l)
      BY <3>1, <3>3
    <3> HIDE DEF S, one
    <3>7. /\ one \o lines \in Seq(S) /\ Len(one \o lines) = Len(one) + Len(lines)
          /\ \A k \in 1 .. Len(one) + Len(lines) :
               (one \o lines)[k] = IF k <= Len(one) THEN one[k] ELSE lines[k - Len(one)]
      BY <3>4, <3>5, ConcatProperties
    <3>8. Len(lines) \in Nat
      BY <3>5, LenProperties
    <3>9. (one \o lines)[1] = head /\ Len(one \o lines) # 0
      BY <3>4, <3>7, <3>8
    <3>10. AreEntries(one \o lines)
      BY <3>6, <3>7, SeqOfRange, RangeOfSeq DEF AreEntries
    <3>11. one \o lines # <<>>
      <4>1. Len(<<>>) = 0
        OBVIOUS
      <4> QED
        BY <3>9, <4>1
    <3> QED
      BY <3>2, <3>9, <3>10, <3>11 DEF Written, one
  <2> HIDE DEF whole
  <2>3. FilesHold
    BY <1>5, <2>1, <2>2, FileNames DEF FilesHold
  <2>4. Bounded
    <3>1. OtherFile(i) \in Names
      BY FileNames DEF Names
    <3> QED
      BY <1>5, <2>1, <3>1, BoundsAssumption DEF Bounded, Init
  <2> QED
    BY <1>2, <1>3, <2>3, <2>4 DEF Hold
<1> QED
  BY <1>4, <1>5 DEF Init

\* The invariants, and what the runs check of them.
LEMMA FindableHolds == Inv /\ Hold => Findable
<1> SUFFICES ASSUME Inv, Hold PROVE Findable
  OBVIOUS
<1>1. OneFile
  <2>1. \A n : Cardinality({n}) = 1
    BY FS_Singleton
  <2>2. Cardinality({}) = 0
    BY FS_EmptySet
  <2>3. ASSUME NEW i \in Ids PROVE Cardinality(Found(i)) <= 1
    <3>1. Found(i) = FoundIn(i)
      BY FoundIs DEF Hold
    <3>2. FoundIn(i) = {} \/ FoundIn(i) = {TeaFile(i)} \/ FoundIn(i) = {OtherFile(i)}
      BY DEF FoundIn
    <3>3. Cardinality(Found(i)) = 0 \/ Cardinality(Found(i)) = 1
      BY <2>1, <2>2, <3>1, <3>2
    <3> QED
      BY <3>3
  <2> QED
    BY <2>3 DEF OneFile
<1>2. ListedIsFound
  BY DEF Hold, PickersHold, ListedIsFound
<1>3. fd \in [Processes -> Names \cup {Closed, Unlinked}]
      /\ \A p \in Processes : fd[p] = Closed <=> ~At(p, "write")
  <2>1. ASSUME NEW p \in Processes, pc[p] = "write"
        PROVE  fd[p] \in Names /\ fd[p] # Closed
    <3>1. fd[p] = job[p].temp /\ fd[p] \in DOMAIN file /\ job[p].temp \in OwnTemporaries(p)
      BY <2>1 DEF Inv, OpenFiles, OwnNames, Saving
    <3> QED
      BY <3>1, TemporaryIsNotReadable DEF Hold, Bounded
  <2>2. ASSUME NEW p \in Processes, pc[p] # "write" PROVE fd[p] = Closed
    BY <2>2 DEF Inv, OpenFiles
  <2>3. fd = [p \in Processes |-> fd[p]]
    BY DEF Inv, Functional
  <2> QED
    BY <2>1, <2>2, <2>3 DEF At
<1>4. \A p \in Processes : record[p].id \in Ids \cup {"none"} /\ next[p] \in Nat
                           /\ choices[p] \in Nat /\ listed[p] \subseteq Ids
  BY DEF Inv, Functional, Hold, RecordsHold, PickersHold, Bounded, NoRecord
<1>5. TypeOK
  BY <1>3, <1>4 DEF Hold, Bounded, TypeOK
<1> QED
  BY <1>1, <1>2, <1>5 DEF Findable

\* A session that the picker of a terminal shows is found when it is chosen,
\* and find_path has one answer.
THEOREM SessionsFindable == NumbersApart => (Spec => []Findable)
<1> SUFFICES ASSUME NumbersApart PROVE Spec => []Findable
  OBVIOUS
<1>1. Init => Inv /\ Hold
  BY InvInit, HoldInit
<1>2. Inv /\ Hold /\ [Next]_vars => (Inv /\ Hold)'
  BY InvStep, HoldStep
<1>3. Inv /\ Hold => Findable
  BY FindableHolds
<1> QED
  BY <1>1, <1>2, <1>3, PTL DEF Spec

-----------------------------------------------------------------------------
(* The promise to the user. *)

Stores == [i \in Ids |-> Stored(i)]
Workings == [p \in Processes |-> Conversation(record[p])]

\* The conversation of a session is not nothing.
LEMMA SessionIsSomething ==
    ASSUME NEW r, r.id \in Ids PROVE Conversation(r) # Nothing
BY ContentsAssumption DEF Conversation, Nothing

\* What opening a session gives.
LEMMA FoundIsStored ==
    ASSUME Hold, NEW i \in Ids, NEW n \in Found(i)
    PROVE  Stored(i) = Conversation(DecodeFile(file[n])) /\ Stored(i) # Nothing
<1>1. Found(i) = {n}
  BY FoundIs DEF Hold, FoundIn
<1>2. file[n][1].id = i
  BY DEF Found
<1>3. {file[m] : m \in Found(i)} = {file[n]} /\ Found(i) # {}
  BY <1>1
<1>4. Stored(i) = StoredIn({file[n]})
  BY <1>3, StoredIs
<1>5. {Conversation(r) : r \in {DecodeFile(lines) : lines \in {file[n]}}}
        = {Conversation(DecodeFile(file[n]))}
  OBVIOUS
<1>6. Stored(i) = Conversation(DecodeFile(file[n]))
  BY <1>4, <1>5 DEF StoredIn
<1>7. DecodeFile(file[n]).id = i
  BY <1>2 DEF DecodeFile
<1> QED
  BY <1>6, <1>7, SessionIsSomething

\* How a step changes the session that its terminal shows.
LEMMA StepShows ==
    ASSUME Inv, Hold, NEW p \in Processes, Step(p)
    PROVE  \/ record' = record
           \/ record'[p] = NoRecord
           \/ record'[p].id \in Ids /\ record'[p].id = record[p].id
           \/ record'[p].id \in Ids /\ record'[p].messages = <<>>
           \/ \E i \in Ids : \E n \in Found(i) : record'[p] = DecodeFile(file[n])
<1>1. /\ record = [q \in Processes |-> record[q]]
      /\ pc[p] # "down" => record[p].id \in Ids
      /\ record[p] = [id |-> record[p].id, model |-> record[p].model,
                      thinking |-> record[p].thinking, messages |-> record[p].messages]
  BY DEF Hold, RecordsHold, RecordHolds
<1>2. CASE Start(p) \/ NewSession(p)
  <2>1. \E model : BeginSession(p, model)
    BY <1>2 DEF Start, NewSession
  <2>2. PICK model : BeginSession(p, model)
    BY <2>1
  <2>3. PICK i \in Ids : record'[p] = [id |-> i, model |-> model, thinking |-> Thinking,
                                       messages |-> <<>>]
    BY <1>1, <2>2 DEF BeginSession
  <2> QED
    BY <2>3
<1>3. CASE Converse(p) \/ \E model \in Models : SelectModel(p, model)
  <2>1. record'[p].id = record[p].id
    BY <1>1, <1>3 DEF Converse, SelectModel
  <2> QED
    BY <1>1, <1>3, <2>1 DEF Converse, SelectModel, At
<1>4. CASE Load(p)
  <2>1. PICK i \in listed[p] : \E n \in Found(i) :
           record' = [record EXCEPT ![p] = DecodeFile(file[n])]
    BY <1>4 DEF Load
  <2>2. i \in Ids
    BY DEF Hold, PickersHold
  <2> QED
    BY <1>1, <2>1, <2>2
<1>5. CASE Crash(p)
  BY <1>1, <1>5 DEF Crash
<1>6. CASE Save(p) \/ OpenTemporary(p) \/ WriteTemporary(p) \/ Publish(p)
           \/ List(p) \/ ClosePicker(p)
  BY <1>6 DEF Save, OpenTemporary, WriteTemporary, Publish, List, ClosePicker
<1> QED
  BY <1>2, <1>3, <1>4, <1>5, <1>6, Zenon DEF Step

\* Every step of a terminal is a step of the promise, or changes nothing that
\* it speaks of.
LEMMA StepPromised ==
    Inv /\ Hold /\ NumbersApart /\ [Next]_vars
      => [Durable!Next]_<<Stores, Workings>>
<1> SUFFICES ASSUME Inv, Hold, NumbersApart, [Next]_vars
             PROVE  Durable!Next \/ (Stores' = Stores /\ Workings' = Workings)
  OBVIOUS
<1>1. SessionsKept /\ (directory' # directory => directory' # "missing") => Stores' = Stores
  <2>1. SUFFICES ASSUME SessionsKept, directory' # directory => directory' # "missing"
                 PROVE  Stores' = Stores
    OBVIOUS
  <2>2. \A i \in Ids : Stored(i)' = Stored(i)
    BY <2>1, FoundAgain DEF Hold
  <2> QED
    BY <2>2 DEF Stores
<1>2. record' = record => Workings' = Workings
  BY DEF Workings
<1>3. CASE UNCHANGED vars
  BY <1>1, <1>2, <1>3 DEF vars, disk, SessionsKept
<1>4. ASSUME NEW p \in Processes, Step(p)
      PROVE  Durable!Next \/ (Stores' = Stores /\ Workings' = Workings)
  <2>1. directory' # directory => directory' # "missing"
    BY <1>4 DEF Step, Start, Converse, NewSession, Save, SelectModel, OpenTemporary, WriteTemporary,
         Publish, List, ClosePicker, Load, Crash, disk
  <2>2. CASE SessionsKept
    <3>1. Stores' = Stores
      BY <1>1, <2>1, <2>2
    <3>2. Workings' = [Workings EXCEPT ![p] = Conversation(record'[p])]
      <4>1. \A q \in Processes \ {p} : record'[q] = record[q]
        BY <1>4, StepIsOwn
      <4> QED
        BY <4>1 DEF Workings
    <3>3. \/ record' = record
          \/ record'[p] = NoRecord
          \/ record'[p].id \in Ids /\ record'[p].id = record[p].id
          \/ record'[p].id \in Ids /\ record'[p].messages = <<>>
          \/ \E i \in Ids : \E n \in Found(i) : record'[p] = DecodeFile(file[n])
      BY <1>4, StepShows
    <3>4. CASE record' = record
      BY <1>2, <3>1, <3>4
    <3>5. CASE record'[p] = NoRecord
      <4>1. Workings'[p] = Nothing
        BY <3>5 DEF Workings, Nothing
      <4>2. Durable!Work(p)
        BY <3>2, <4>1 DEF Durable!Work, Workings
      <4> QED
        BY <3>1, <4>2 DEF Durable!Next, Stores
    <3>6. CASE record'[p].id \in Ids /\ (record'[p].id = record[p].id \/ record'[p].messages = <<>>)
      <4>1. /\ Workings'[p].id \in Ids
            /\ Workings[p].id = Workings'[p].id \/ Workings'[p].messages = <<>>
        BY <3>6 DEF Workings, Conversation
      <4>2. Durable!Work(p)
        BY <3>2, <4>1 DEF Durable!Work, Workings
      <4> QED
        BY <3>1, <4>2 DEF Durable!Next, Stores
    <3>7. ASSUME NEW i \in Ids, NEW n \in Found(i), record'[p] = DecodeFile(file[n])
          PROVE  Durable!Next
      <4>1. Stored(i) = Conversation(record'[p]) /\ Stored(i) # Nothing
        BY <3>7, FoundIsStored
      <4>2. Workings' = [Workings EXCEPT ![p] = Stores[i]] /\ Stores[i] # Nothing
        BY <3>2, <4>1 DEF Stores
      <4>3. Durable!Open(p)
        BY <4>2 DEF Durable!Open, Stores, Workings
      <4> QED
        BY <3>1, <4>3 DEF Durable!Next, Stores
    <3> QED
      BY <3>3, <3>4, <3>5, <3>6, <3>7
  <2>3. CASE Publish(p) /\ RenameFile(job[p].temp, job[p].to) /\ SavesSession(p)
    <3>1. PICK i \in Ids : i = record[p].id
      BY <2>3 DEF SavesSession
    <3>2. /\ \A j \in Ids \ {i} : Stored(j)' = Stored(j)
          /\ Stored(i)' = Conversation(record[p])
      BY <2>3, <3>1, PublishStores
    <3>3. record' = record
      BY <2>3 DEF Publish
    <3>4. Workings[p] = Conversation(record[p]) /\ Workings[p].id = i /\ Workings[p] # Nothing
      BY <3>1, SessionIsSomething DEF Workings, Conversation
    <3>5. Stores' = [Stores EXCEPT ![Workings[p].id] = Workings[p]]
      BY <3>2, <3>4 DEF Stores
    <3>6. Durable!Replace(p)
      BY <3>4, <3>5 DEF Durable!Replace, Stores, Workings
    <3> QED
      BY <1>2, <3>3, <3>6 DEF Durable!Next, Workings
  <2> QED
    BY <1>4, <2>2, <2>3, StepKeeps
<1> QED
  BY <1>3, <1>4 DEF Next

\* Whatever fails and whenever a terminal dies, SessionStore implements
\* DurableSessions: the texts, calls and results of a conversation, their
\* details and which calls failed are stored as a whole and come back (Kept);
\* how a call failed, which the requests carry too, does not (ContextKept).
THEOREM SessionsDurable == NumbersApart => (Spec => Promised)
<1> SUFFICES ASSUME NumbersApart PROVE Spec => Promised
  OBVIOUS
<1>1. Init => Inv /\ Hold
  BY InvInit, HoldInit
<1>2. Inv /\ Hold /\ [Next]_vars => (Inv /\ Hold)'
  BY InvStep, HoldStep
<1>3. Init => Durable!Init
  BY DEF Init, Durable!Init, Nothing
<1>4. Inv /\ Hold /\ [Next]_vars => [Durable!Next]_<<Stores, Workings>>
  BY StepPromised
<1>5. Promised <=> Durable!Init /\ [][Durable!Next]_<<Stores, Workings>>
  BY DEF Promised, Durable!Spec, Stores, Workings
<1> QED
  BY <1>1, <1>2, <1>3, <1>4, <1>5, PTL DEF Spec
=============================================================================
