----------------------------- MODULE ExecProofs -----------------------------
(***************************************************************************)
(* Proofs about Exec, for any number of descriptors, size of chunk and of  *)
(* pipe, exit codes, and whatever calls fail: where the program's standard *)
(* descriptors lead, what Output returns, and how the caller is left.      *)
(***************************************************************************)
EXTENDS Exec, SequenceTheorems, TLAPS

\* The places in the code of the two processes.
ParentPC == {"pipe", "fork", "close", "read", "wait", "done"}
Writing == {"running", "write1", "write2"}
Ready == {"exec"} \cup Writing
Alive == {"close", "dup0", "dup1", "dup2"} \cup Ready
ChildPC == {"none", "zombie", "reaped"} \cup Alive

\* What a process can leave: a signal, or a byte.
Statuses == {0, 9, 13} \cup {256 * k : k \in 0..255}

Files == {"terminal", "out", "err", "file", Closed}

Types ==
  /\ cmd \in [op : {"Run", "Output"}, stdin : Fd \cup {NoFile},
              stdout : Fd \cup {NoFile}, stderr : Fd \cup {NoFile}]
  /\ fds0 \in [Fd -> Files]
  /\ parent \in [pc : ParentPC, fds : [Fd -> Object],
                 rd : Fd \cup {NoFile}, wr : Fd \cup {NoFile}]
  /\ child \in [pc : ChildPC, fds : [Fd -> Object], status : Statuses, count : Nat]
  /\ pipe \in Seq(Nat) /\ Len(pipe) <= PipeSize
  /\ data \in Seq(Nat) /\ wrote \in Seq(Nat)
  /\ result \in -1..255
  /\ lost \in BOOLEAN

\* The files of the Cmd are open in the caller.
CmdFiles ==
  /\ Open(fds0) \subseteq 0..3
  /\ cmd.stdin \in Open(fds0) \cup {NoFile}
  /\ cmd.stderr \in Open(fds0) \cup {NoFile}
  /\ parent.wr = NoFile => cmd.stdout \in Open(fds0) \cup {NoFile}

\* The ends of the pipe are two descriptors the caller did not use.
PipeEnds ==
  /\ parent.rd \in Fd /\ parent.wr \in Fd /\ parent.rd # parent.wr
  /\ fds0[parent.rd] = Closed /\ fds0[parent.wr] = Closed
  /\ cmd.stdout = parent.wr

Piped == [[fds0 EXCEPT ![parent.rd] = "r"] EXCEPT ![parent.wr] = "w"]

\* The parent's descriptors at every place of Run and of Output.
ParentFds ==
  /\ cmd.op = "Run" =>
       /\ parent.pc \in {"fork", "wait", "done"}
       /\ parent.fds = fds0 /\ parent.wr = NoFile /\ parent.rd = NoFile
  /\ cmd.op = "Output" =>
       /\ parent.pc = "pipe" => parent.fds = fds0 /\ parent.wr = NoFile /\ parent.rd = NoFile
       /\ parent.pc \in {"fork", "close"} => PipeEnds /\ parent.fds = Piped
       /\ parent.pc = "read" => PipeEnds /\ parent.fds = [fds0 EXCEPT ![parent.rd] = "r"]
       /\ parent.pc \in {"wait", "done"} => parent.fds = fds0
       /\ child.pc # "none" => PipeEnds

\* The child's descriptors once it has closed what it does not need, and after
\* each redirection.
Forked == IF cmd.op = "Run" THEN fds0 ELSE [fds0 EXCEPT ![parent.wr] = "w"]
Redirected0 == Redirect(Forked, cmd.stdin, 0)
Redirected1 == Redirect(Redirected0, cmd.stdout, 1)
Redirected2 == Redirect(Redirected1, cmd.stderr, 2)

ChildFds ==
  /\ child.pc = "none" => child.fds = [fd \in Fd |-> Closed]
  /\ child.pc = "close" => cmd.op = "Output" /\ child.fds = Piped
  /\ child.pc = "dup0" => child.fds = Forked
  /\ child.pc = "dup1" => child.fds = Redirected0
  /\ child.pc = "dup2" => child.fds = Redirected1
  /\ child.pc \in Ready => child.fds = Redirected2
  /\ child.pc \in {"zombie", "reaped"} => child.fds = [fd \in Fd |-> Closed]

\* When the child exists, and what its end says.
Lives ==
  /\ parent.pc \in {"pipe", "fork"} => child.pc = "none"
  /\ parent.pc \in {"close", "read", "wait"} => child.pc \notin {"none", "reaped"}
  /\ parent.pc = "done" /\ result # -1 =>
       child.pc = "reaped" /\ result = ExitCode(child.status)

\* What was read and what is in the pipe is what the program wrote, and when
\* the loop has ended nothing is left to come.
Streams ==
  /\ child.pc = "none" => data = <<>> /\ pipe = <<>> /\ wrote = <<>>
  /\ cmd.op = "Output" /\ child.pc # "none" /\ InOrder /\ ~PipeIsStderr /\ ~lost =>
       /\ data \o pipe = wrote
       /\ parent.pc \in {"wait", "done"} =>
            pipe = <<>> /\ child.pc \in {"zombie", "reaped"}

ExecInv ==
  Types /\ CmdFiles /\ ParentFds /\ ChildFds /\ Lives /\ Streams

-----------------------------------------------------------------------------
\* Descriptors

LEMMA Objects ==
  /\ Object = Files \cup {"r", "w"}
  /\ FileAt \in [0..3 -> Files \ {Closed}]
<1>1. FileAt[0] = "terminal" /\ FileAt[1] = "out" /\ FileAt[2] = "err" /\ FileAt[3] = "file"
  BY DEF FileAt
<1>2. {FileAt[fd] : fd \in 0..3} = {"terminal", "out", "err", "file"}
  BY <1>1
<1>. QED BY <1>1, <1>2 DEF Object, Files, FileAt, Closed

\* The kernel finds a free descriptor below 6 while at most 0 to 4 are open.
LEMMA LowestFree ==
  ASSUME NEW fds \in [Fd -> Object], NEW n \in 3..4, Open(fds) \subseteq 0..n
  PROVE  Lowest(fds) \in 0..(n + 1) /\ Lowest(fds) \in Fd \ Open(fds)
<1>. DEFINE free == Fd \ Open(fds)
            least(fd) == fd \in free /\ \A g \in free : fd <= g
<1>1. n + 1 \in free /\ free \subseteq Nat
  BY ExecAssumption DEF Fd
<1>2. \E fd \in 0..(n + 1) : least(fd)
  <2>. HIDE DEF free
  <2>1. CASE 0 \in free
    BY <1>1, <2>1
  <2>2. CASE 0 \notin free /\ 1 \in free
    BY <1>1, <2>2
  <2>3. CASE 0 \notin free /\ 1 \notin free /\ 2 \in free
    BY <1>1, <2>3
  <2>4. CASE 0 \notin free /\ 1 \notin free /\ 2 \notin free /\ 3 \in free
    BY <1>1, <2>4
  <2>5. CASE 0 \notin free /\ 1 \notin free /\ 2 \notin free /\ 3 \notin free /\ 4 \in free
    BY <1>1, <2>5
  <2>6. CASE 0 \notin free /\ 1 \notin free /\ 2 \notin free /\ 3 \notin free /\ 4 \notin free
    BY <1>1, <2>6
  <2>. QED BY <2>1, <2>2, <2>3, <2>4, <2>5, <2>6
<1>3. Lowest(fds) = CHOOSE fd \in free : \A g \in free : fd <= g
  BY DEF Lowest
<1>4. least(Lowest(fds))
  BY <1>2, <1>3
<1>5. Lowest(fds) <= n + 1 /\ Lowest(fds) \in Nat
  BY <1>1, <1>4
<1>. QED BY <1>4, <1>5

LEMMA RedirectType ==
  ASSUME NEW fds \in [Fd -> Object], NEW file \in Fd \cup {NoFile}, NEW std \in Std
  PROVE  Redirect(fds, file, std) \in [Fd -> Object]
<1>1. std \in Fd
  BY ExecAssumption DEF Fd, Std
<1>. QED BY <1>1 DEF Redirect, Dup2, Fd, NoFile

\* What each descriptor is after a redirection.
LEMMA RedirectAt ==
  ASSUME NEW fds \in [Fd -> Object], NEW file \in Fd \cup {NoFile}, NEW std \in Std,
         file # NoFile => fds[file] # Closed, NEW fd \in Fd
  PROVE  Redirect(fds, file, std)[fd] =
           IF fd = std /\ file # NoFile THEN fds[file] ELSE fds[fd]
<1>1. std \in Fd
  BY ExecAssumption DEF Fd, Std
<1>. QED BY <1>1 DEF Redirect, Dup2

\* The pipe takes two closed descriptors.
LEMMA PipePlaces ==
  ASSUME Types, CmdFiles, parent.fds = fds0
  PROVE  LET r == Lowest(parent.fds)
             fds == [parent.fds EXCEPT ![r] = "r"]
             w == Lowest(fds)
         IN  /\ r \in Fd /\ w \in Fd /\ r # w
             /\ fds0[r] = Closed /\ fds0[w] = Closed
<1>. DEFINE r == Lowest(fds0)  fds == [fds0 EXCEPT ![r] = "r"]  w == Lowest(fds)
<1>1. fds0 \in [Fd -> Object] /\ "r" \in Object /\ "r" # Closed
  BY Objects DEF Types, Closed
<1>2. r \in 0..4 /\ r \in Fd \ Open(fds0)
  BY <1>1, LowestFree DEF CmdFiles
<1>. HIDE DEF r
<1>3. fds \in [Fd -> Object] /\ fds[r] = "r" /\ \A fd \in Fd \ {r} : fds[fd] = fds0[fd]
  BY <1>1, <1>2
<1>. HIDE DEF fds
<1>4. Open(fds) \subseteq 0..4
  BY <1>1, <1>2, <1>3 DEF CmdFiles, Open
<1>5. w \in Fd \ Open(fds)
  BY <1>3, <1>4, LowestFree
<1>. HIDE DEF w
<1>6. r # w /\ fds0[r] = Closed /\ fds0[w] = Closed
  BY <1>1, <1>2, <1>3, <1>5 DEF Open
<1>. QED BY <1>2, <1>5, <1>6 DEF r, fds, w, Types

LEMMA ChainTypes ==
  ASSUME Types, cmd.op = "Output" => PipeEnds
  PROVE  /\ Forked \in [Fd -> Object] /\ Redirected0 \in [Fd -> Object]
         /\ Redirected1 \in [Fd -> Object] /\ Redirected2 \in [Fd -> Object]
         /\ Piped \in [Fd -> Object]
<1>1. fds0 \in [Fd -> Object] /\ "w" \in Object /\ "r" \in Object
  BY Objects DEF Types
<1>2. Forked \in [Fd -> Object] /\ Piped \in [Fd -> Object]
  BY <1>1 DEF Forked, Types, Piped
<1>3. cmd.stdin \in Fd \cup {NoFile} /\ cmd.stdout \in Fd \cup {NoFile}
      /\ cmd.stderr \in Fd \cup {NoFile} /\ 0 \in Std /\ 1 \in Std /\ 2 \in Std
  BY DEF Types, Std
<1>4. Redirected0 \in [Fd -> Object]
  BY <1>2, <1>3, RedirectType DEF Redirected0
<1>5. Redirected1 \in [Fd -> Object]
  BY <1>3, <1>4, RedirectType DEF Redirected1
<1>6. Redirected2 \in [Fd -> Object]
  BY <1>3, <1>5, RedirectType DEF Redirected2
<1>. QED BY <1>2, <1>4, <1>5, <1>6

\* The three redirections, one after the other (exec.go, Run and Output).
LEMMA ChainLeads ==
  ASSUME Types, CmdFiles, InOrder, cmd.op = "Output" => PipeEnds,
         cmd.op = "Run" => parent.wr = NoFile
  PROVE  /\ \A std \in Std : Asked(std) # Closed => Redirected2[std] = Asked(std)
         /\ cmd.op = "Output" =>
              /\ Piped[parent.wr] = "w" /\ Forked[parent.wr] = "w"
              /\ Redirected0[parent.wr] = "w"
              /\ Redirected1[1] = "w" /\ Redirected2[1] = "w"
              /\ ~PipeIsStderr => Redirected2[2] # "w"
<1>. DEFINE in == cmd.stdin  out == cmd.stdout  err == cmd.stderr
<1>1. /\ in \in Fd \cup {NoFile} /\ out \in Fd \cup {NoFile} /\ err \in Fd \cup {NoFile}
      /\ fds0 \in [Fd -> Object] /\ cmd.op \in {"Run", "Output"}
      /\ \A fd \in Fd : fds0[fd] # "w"
      /\ 0 \in Std /\ 1 \in Std /\ 2 \in Std /\ 0 \in Fd /\ 1 \in Fd /\ 2 \in Fd
      /\ NoFile \notin Fd /\ Closed # "w"
  <2>1. /\ in \in Fd \cup {NoFile} /\ out \in Fd \cup {NoFile} /\ err \in Fd \cup {NoFile}
        /\ fds0 \in [Fd -> Files] /\ cmd.op \in {"Run", "Output"}
    BY DEF Types
  <2>2. "w" \notin Files /\ Files \subseteq Object /\ Closed # "w"
    BY Objects DEF Files, Closed
  <2>3. /\ 0 \in Std /\ 1 \in Std /\ 2 \in Std /\ 0 \in Fd /\ 1 \in Fd /\ 2 \in Fd
        /\ NoFile \notin Fd
    BY ExecAssumption DEF Std, Fd, NoFile
  <2>. QED BY <2>1, <2>2, <2>3
<1>2. /\ Forked \in [Fd -> Object] /\ Redirected0 \in [Fd -> Object]
      /\ Redirected1 \in [Fd -> Object] /\ Redirected2 \in [Fd -> Object]
  BY ChainTypes
<1>3. \A fd \in Fd : Forked[fd] = IF cmd.op = "Output" /\ fd = parent.wr THEN "w" ELSE fds0[fd]
  BY <1>1 DEF Forked
<1>4. /\ in # NoFile => Forked[in] # Closed
      /\ out # NoFile => Forked[out] # Closed
      /\ err # NoFile => Forked[err] # Closed
  BY <1>1, <1>3 DEF CmdFiles, Open, PipeEnds
<1>5. \A fd \in Fd : Redirected0[fd] = IF fd = 0 /\ in # NoFile THEN Forked[in] ELSE Forked[fd]
  BY <1>1, <1>2, <1>4, RedirectAt DEF Redirected0
<1>6. out # NoFile => Redirected0[out] # Closed
  BY <1>1, <1>4, <1>5
<1>7. \A fd \in Fd : Redirected1[fd] =
        IF fd = 1 /\ out # NoFile THEN Redirected0[out] ELSE Redirected0[fd]
  BY <1>1, <1>2, <1>6, RedirectAt DEF Redirected1
<1>8. err # NoFile => Redirected1[err] # Closed
  BY <1>1, <1>4, <1>5, <1>6, <1>7
<1>9. \A fd \in Fd : Redirected2[fd] =
        IF fd = 2 /\ err # NoFile THEN Redirected1[err] ELSE Redirected1[fd]
  BY <1>1, <1>2, <1>8, RedirectAt DEF Redirected2
<1>10. /\ in # NoFile => out # 0 /\ err # 0
       /\ out # NoFile => err # 1
       /\ cmd.op = "Output" => out = parent.wr /\ out # NoFile /\ out \in Fd
                               /\ (\A f \in Open(fds0) : f # out)
  <2>1. cmd.op = "Output" => out = parent.wr /\ out \in Fd /\ fds0[out] = Closed
    BY DEF PipeEnds
  <2>2. fds0[out] = Closed => \A f \in Open(fds0) : f # out
    BY DEF Open
  <2>. QED BY <1>1, <2>1, <2>2 DEF InOrder
<1>11. ASSUME cmd.op = "Output"
       PROVE  /\ Piped[parent.wr] = "w" /\ Forked[parent.wr] = "w"
              /\ Redirected0[parent.wr] = "w"
              /\ Redirected1[1] = "w" /\ Redirected2[1] = "w"
              /\ ~PipeIsStderr => Redirected2[2] # "w"
  <2>1. Forked[out] = "w" /\ Redirected0[out] = "w"
    BY <1>1, <1>3, <1>5, <1>10, <1>11
  <2>2. Redirected1[1] = "w" /\ Redirected2[1] = "w"
    BY <1>1, <1>7, <1>9, <1>10, <1>11, <2>1
  <2>3. Piped[parent.wr] = "w"
    BY <1>1, <1>11 DEF Piped, PipeEnds
  <2>4. ASSUME ~PipeIsStderr PROVE Redirected2[2] # "w"
    <3>1. err \in Open(fds0) \cup {NoFile} /\ err # out /\ (err = NoFile => out # 2)
      BY <1>10, <1>11, <2>4 DEF CmdFiles, PipeIsStderr
    <3>2. CASE err = NoFile
      BY <1>1, <1>3, <1>5, <1>7, <1>9, <1>10, <1>11, <3>1, <3>2
    <3>3. CASE err # NoFile
      <4>1. Redirected2[2] = Redirected0[err] /\ err \in Fd
        BY <1>1, <1>7, <1>9, <1>10, <1>11, <3>3
      <4>2. Redirected0[err] = fds0[err]
        BY <1>1, <1>3, <1>5, <1>10, <1>11, <3>1, <3>3, <4>1
      <4>. QED BY <1>1, <4>1, <4>2
    <3>. QED BY <3>2, <3>3
  <2>. QED BY <1>10, <1>11, <2>1, <2>2, <2>3, <2>4
<1>12. ASSUME NEW std \in Std, Asked(std) # Closed PROVE Redirected2[std] = Asked(std)
  <2>1. CASE std = 0
    <3>1. Asked(0) = fds0[IF in = NoFile THEN 0 ELSE in]
      BY DEF Asked
    <3>2. Redirected2[0] = IF in # NoFile THEN Forked[in] ELSE Forked[0]
      BY <1>1, <1>5, <1>7, <1>9
    <3>3. CASE in = NoFile
      BY <1>1, <1>3, <1>12, <2>1, <3>1, <3>2, <3>3 DEF PipeEnds
    <3>4. CASE in # NoFile
      <4>1. in \in Fd /\ (cmd.op = "Output" => in # parent.wr)
        BY <1>1, <1>10, <3>4 DEF CmdFiles
      <4>. QED BY <1>1, <1>3, <2>1, <3>1, <3>2, <3>4, <4>1
    <3>. QED BY <3>3, <3>4
  <2>2. CASE std = 1
    <3>1. CASE cmd.op = "Output"
      BY <1>11, <2>2, <3>1 DEF Asked
    <3>2. CASE cmd.op = "Run"
      <4>1. Asked(1) = fds0[IF out = NoFile THEN 1 ELSE out]
        BY <3>2 DEF Asked
      <4>2. Redirected2[1] = IF out # NoFile THEN Redirected0[out] ELSE Redirected0[1]
        BY <1>1, <1>7, <1>9
      <4>. QED BY <1>1, <1>3, <1>5, <1>10, <2>2, <3>2, <4>1, <4>2
    <3>. QED BY <1>1, <3>1, <3>2
  <2>3. CASE std = 2
    <3>1. Asked(2) = fds0[IF err = NoFile THEN 2 ELSE err]
      BY DEF Asked
    <3>2. CASE err = NoFile
      <4>1. Redirected2[2] = Forked[2]
        BY <1>1, <1>5, <1>7, <1>9, <3>2
      <4>. QED BY <1>1, <1>3, <1>12, <2>3, <3>1, <3>2, <4>1 DEF PipeEnds
    <3>3. CASE err # NoFile
      <4>1. err \in Fd /\ (cmd.op = "Output" => err # parent.wr)
        BY <1>1, <1>10, <3>3 DEF CmdFiles
      <4>2. Redirected2[2] = Redirected1[err]
        BY <1>1, <1>9, <3>3
      <4>3. Redirected1[err] = Redirected0[err]
        BY <1>1, <1>7, <1>10, <4>1
      <4>4. Redirected0[err] = Forked[err]
        BY <1>1, <1>5, <1>10, <4>1
      <4>. QED BY <1>1, <1>3, <2>3, <3>1, <3>3, <4>1, <4>2, <4>3, <4>4
    <3>. QED BY <3>2, <3>3
  <2>. QED BY <2>1, <2>2, <2>3 DEF Std
<1>. QED BY <1>11, <1>12

-----------------------------------------------------------------------------
\* What a step of the child leaves alone

\* As long as the child lives, the write end of its pipe is open.
LEMMA AliveWrites ==
  ASSUME ExecInv, cmd.op = "Output", InOrder, child.pc \in Alive
  PROVE  Writers
<1>1. PipeEnds /\ parent.wr \in Fd /\ 1 \in Fd
  BY ExecAssumption DEF ExecInv, ParentFds, Alive, Ready, Writing, PipeEnds, Fd
<1>2. /\ Piped[parent.wr] = "w" /\ Forked[parent.wr] = "w" /\ Redirected0[parent.wr] = "w"
      /\ Redirected1[1] = "w" /\ Redirected2[1] = "w"
  BY <1>1, ChainLeads DEF ExecInv
<1>3. child.fds[parent.wr] = "w" \/ child.fds[1] = "w"
  BY <1>2 DEF ExecInv, ChildFds, Alive
<1>. QED BY <1>1, <1>3 DEF Writers, Holds

LEMMA ChildKeeps ==
  ASSUME ExecInv, child.pc \in Alive, child'.pc \in Alive \cup {"zombie"},
         UNCHANGED <<cmd, fds0, parent, data, result, lost>>
  PROVE  /\ CmdFiles' /\ ParentFds' /\ Lives'
         /\ UNCHANGED <<pipe, wrote>> => Streams'
         /\ (cmd.op = "Output" => PipeEnds) /\ (cmd.op = "Run" => parent.wr = NoFile)
<1>1. child.pc \notin {"none", "zombie", "reaped"} /\ child'.pc \notin {"none", "reaped"}
  BY DEF Alive, Ready, Writing
<1>2. CmdFiles'
  BY DEF ExecInv, CmdFiles, Open
<1>3. PipeEnds' = PipeEnds /\ Piped' = Piped
  BY DEF PipeEnds, Piped
<1>4. ParentFds'
  BY <1>1, <1>3 DEF ExecInv, ParentFds
<1>5. Lives'
  BY <1>1 DEF ExecInv, Lives
<1>6. ASSUME UNCHANGED <<pipe, wrote>> PROVE Streams'
  BY <1>1, <1>6 DEF ExecInv, Streams, InOrder, PipeIsStderr
<1>7. (cmd.op = "Output" => PipeEnds) /\ (cmd.op = "Run" => parent.wr = NoFile)
  BY <1>1 DEF ExecInv, ParentFds
<1>. QED BY <1>2, <1>4, <1>5, <1>6, <1>7

\* The redirections depend on what no step of the child changes.
LEMMA ChainKeeps ==
  ASSUME UNCHANGED <<cmd, fds0, parent>>
  PROVE  /\ Piped' = Piped /\ Forked' = Forked /\ Redirected0' = Redirected0
         /\ Redirected1' = Redirected1 /\ Redirected2' = Redirected2
<1>1. Piped' = Piped /\ Forked' = Forked
  BY DEF Piped, Forked
<1>. QED BY <1>1 DEF Redirected0, Redirected1, Redirected2, Redirect, Dup2

\* A step of the child to descriptors that are right for its place.
LEMMA ChildMoves ==
  ASSUME ExecInv, child.pc \in Alive, NEW pc \in Alive, NEW fds \in [Fd -> Object],
         NEW count \in Nat,
         child' = [child EXCEPT !.pc = pc, !.fds = fds, !.count = count],
         UNCHANGED <<cmd, fds0, parent, pipe, data, result, wrote, lost>>,
         pc = "close" => cmd.op = "Output" /\ fds = Piped,
         pc = "dup0" => fds = Forked,
         pc = "dup1" => fds = Redirected0,
         pc = "dup2" => fds = Redirected1,
         pc \in Ready => fds = Redirected2
  PROVE  ExecInv'
<1>1. Types'
  BY DEF ExecInv, Types, ChildPC
<1>2. child'.pc = pc /\ child'.fds = fds
  BY DEF ExecInv, Types
<1>3. ChildFds'
  BY <1>2, ChainKeeps DEF ChildFds, Alive, Ready, Writing
<1>4. CmdFiles' /\ ParentFds' /\ Lives' /\ Streams'
  BY <1>2, ChildKeeps
<1>. QED BY <1>1, <1>3, <1>4 DEF ExecInv

\* The end of the child, however it comes.
LEMMA ChildEnds ==
  ASSUME ExecInv, child.pc \in Alive, NEW status \in Statuses, child' = Ended(status),
         UNCHANGED <<cmd, fds0, parent, pipe, data, result, wrote, lost>>
  PROVE  ExecInv'
<1>1. NoChild.fds = [fd \in Fd |-> Closed] /\ NoChild.fds \in [Fd -> Object]
  BY Objects DEF NoChild, Files
<1>2. child'.pc = "zombie" /\ child'.fds = [fd \in Fd |-> Closed]
  BY <1>1 DEF ExecInv, Types, Ended
<1>3. Types'
  BY <1>1 DEF ExecInv, Types, Ended, ChildPC
<1>4. ChildFds'
  BY <1>2 DEF ChildFds, Ready, Writing
<1>5. CmdFiles' /\ ParentFds' /\ Lives' /\ Streams'
  BY <1>2, ChildKeeps
<1>. QED BY <1>3, <1>4, <1>5 DEF ExecInv

LEMMA ChildType ==
  ASSUME ExecInv
  PROVE  /\ child \in [pc : ChildPC, fds : [Fd -> Object], status : Statuses, count : Nat]
         /\ child.fds \in [Fd -> Object] /\ child.count \in Nat
BY DEF ExecInv, Types

LEMMA CloseReadInv ==
  ASSUME ExecInv, CloseRead
  PROVE  ExecInv'
<1>1. /\ child.pc = "close" /\ child' = [child EXCEPT !.pc = "dup0", !.fds = Close(@, parent.rd)]
      /\ UNCHANGED <<cmd, fds0, parent, pipe, data, result, wrote, lost>>
  BY DEF CloseRead
<1>2. cmd.op = "Output" /\ child.fds = Piped /\ PipeEnds
  BY <1>1 DEF ExecInv, ChildFds, ParentFds
<1>3. fds0 \in [Fd -> Object] /\ "w" \in Object
  BY Objects DEF ExecInv, Types
<1>4. Close(Piped, parent.rd) = Forked
  BY <1>2, <1>3 DEF Close, Piped, Forked, PipeEnds
<1>5. Forked \in [Fd -> Object]
  BY <1>2, ChainTypes DEF ExecInv
<1>6. child' = [child EXCEPT !.pc = "dup0", !.fds = Forked, !.count = child.count]
  BY <1>1, <1>2, <1>4, ChildType
<1>7. child.pc \in Alive /\ "dup0" \in Alive /\ "dup0" \notin Ready
  BY <1>1 DEF Alive, Ready, Writing
<1>. QED BY <1>1, <1>5, <1>6, <1>7, ChildType, ChildMoves

LEMMA SysDup2Inv ==
  ASSUME ExecInv, SysDup2
  PROVE  ExecInv'
<1>1. PICK i \in 1..3 :
        LET d == Redirections[i]
        IN  /\ child.pc = d.pc
            /\ child' = [child EXCEPT !.pc = d.to, !.fds = Redirect(@, d.file, d.std)]
            /\ UNCHANGED <<cmd, fds0, parent, pipe, data, result, wrote, lost>>
  BY DEF SysDup2
<1>. DEFINE to == Redirections[i].to
            fds == Redirect(child.fds, Redirections[i].file, Redirections[i].std)
<1>2. /\ child.pc \in {"dup0", "dup1", "dup2"}
      /\ to \in {"dup1", "dup2", "exec"}
      /\ to = "dup1" => fds = Redirected0
      /\ to = "dup2" => fds = Redirected1
      /\ to = "exec" => fds = Redirected2
  BY <1>1 DEF Redirections, ExecInv, ChildFds, Redirected0, Redirected1, Redirected2
<1>3. /\ child' = [child EXCEPT !.pc = to, !.fds = fds, !.count = child.count]
      /\ UNCHANGED <<cmd, fds0, parent, pipe, data, result, wrote, lost>>
  BY <1>1, ChildType
<1>. HIDE DEF to, fds
<1>4. child.pc \in Alive /\ to \in Alive /\ (cmd.op = "Output" => PipeEnds)
  BY <1>2 DEF Alive, Ready, ExecInv, ParentFds
<1>5. fds \in [Fd -> Object]
  BY <1>2, <1>4, ChainTypes DEF ExecInv
<1>6. to \in Ready => to = "exec"
  BY <1>2 DEF Ready, Writing
<1>. QED BY <1>2, <1>3, <1>4, <1>5, <1>6, ChildType, ChildMoves

\* The program goes on, its descriptors as they are.
LEMMA ProgramMoves ==
  ASSUME ExecInv, child.pc \in Ready, NEW pc \in Writing, NEW count \in Nat,
         child' = [child EXCEPT !.pc = pc, !.count = count],
         UNCHANGED <<cmd, fds0, parent, pipe, data, result, wrote, lost>>
  PROVE  ExecInv'
<1>1. child' = [child EXCEPT !.pc = pc, !.fds = child.fds, !.count = count]
  BY ChildType
<1>2. child.fds = Redirected2
  BY DEF ExecInv, ChildFds
<1>. QED BY <1>1, <1>2, ChildType, ChildMoves DEF Alive, Ready, Writing

LEMMA SysExecveInv ==
  ASSUME ExecInv, SysExecve
  PROVE  ExecInv'
<1>1. child.pc = "exec" /\ UNCHANGED <<cmd, fds0, parent, pipe, data, result, wrote, lost>>
  BY DEF SysExecve
<1>2. CASE child' = [child EXCEPT !.pc = "running"]
  <2>1. child' = [child EXCEPT !.pc = "running", !.count = child.count]
    BY <1>2, ChildType
  <2>. QED BY <1>1, <2>1, ChildType, ProgramMoves DEF Ready, Writing
<1>3. CASE child' = Ended(127 * 256)
  <2>1. 127 * 256 \in Statuses
    BY DEF Statuses
  <2>. QED BY <1>1, <1>3, <2>1, ChildEnds DEF Alive, Ready
<1>. QED BY <1>2, <1>3 DEF SysExecve

LEMMA BeginWriteInv ==
  ASSUME ExecInv, NEW fd \in 1..2, BeginWrite(fd)
  PROVE  ExecInv'
<1>. DEFINE pc == IF fd = 1 THEN "write1" ELSE "write2"
<1>1. /\ child.pc = "running" /\ child' = [child EXCEPT !.pc = pc, !.count = child.count + 1]
      /\ UNCHANGED <<cmd, fds0, parent, pipe, data, result, wrote, lost>>
  BY ChildType DEF BeginWrite
<1>2. pc \in Writing /\ child.count + 1 \in Nat /\ child.pc \in Ready
  BY <1>1, ChildType DEF Ready, Writing
<1>. HIDE DEF pc
<1>. QED BY <1>1, <1>2, ProgramMoves

LEMMA ExitInv ==
  ASSUME ExecInv, NEW code \in Codes, Exit(code)
  PROVE  ExecInv'
<1>1. code % 256 \in 0..255
  BY ExecAssumption
<1>2. (code % 256) * 256 \in Statuses
  BY <1>1 DEF Statuses
<1>. QED BY <1>2, ChildEnds DEF Exit, Alive, Ready, Writing

LEMMA KilledInv ==
  ASSUME ExecInv, Killed
  PROVE  ExecInv'
<1>1. 9 \in Statuses /\ child.pc \in Alive
  BY DEF Killed, Statuses, Alive, Ready, Writing
<1>. QED BY <1>1, ChildEnds DEF Killed

\* A byte written to the pipe is the next Output has to read.
LEMMA EndWriteInv ==
  ASSUME ExecInv, NEW fd \in 1..2, EndWrite(fd)
  PROVE  ExecInv'
<1>. DEFINE obj == child.fds[fd]  c == child.count
<1>1. /\ child.pc = IF fd = 1 THEN "write1" ELSE "write2"
      /\ UNCHANGED <<cmd, fds0, parent, data, result, lost>>
  BY DEF EndWrite
<1>2. child.pc \in Ready /\ child.pc \in Alive
  BY <1>1 DEF Alive, Ready, Writing
<1>3. CASE obj = "w" /\ ~Readers
  <2>1. 13 \in Statuses
    BY DEF Statuses
  <2>2. child' = Ended(13) /\ UNCHANGED <<pipe, wrote>>
    BY <1>3 DEF EndWrite
  <2>. QED BY <1>1, <1>2, <2>1, <2>2, ChildEnds
<1>4. CASE ~(obj = "w" /\ ~Readers)
  <2>1. /\ obj = "w" => Len(pipe) < PipeSize
        /\ pipe' = IF obj = "w" THEN Append(pipe, c) ELSE pipe
        /\ wrote' = IF fd = 1 THEN Append(wrote, c) ELSE wrote
        /\ child' = [child EXCEPT !.pc = "running"]
    BY <1>4 DEF EndWrite
  <2>2. child'.pc = "running" /\ child'.fds = child.fds /\ child' \in
          [pc : ChildPC, fds : [Fd -> Object], status : Statuses, count : Nat]
    BY <2>1, ChildType DEF ChildPC, Alive, Ready, Writing
  <2>3. /\ pipe \in Seq(Nat) /\ wrote \in Seq(Nat) /\ data \in Seq(Nat) /\ c \in Nat
        /\ Len(pipe) <= PipeSize /\ PipeSize \in Nat
    BY ChildType, ExecAssumption DEF ExecInv, Types
  <2>4. pipe' \in Seq(Nat) /\ wrote' \in Seq(Nat) /\ Len(pipe') <= PipeSize
    BY <2>1, <2>3
  <2>5. Types'
    BY <1>1, <2>2, <2>4 DEF ExecInv, Types
  <2>6. child.fds = Redirected2
    BY <1>2 DEF ExecInv, ChildFds
  <2>7. ChildFds'
    BY <1>1, <2>2, <2>6, ChainKeeps DEF ChildFds
  <2>8. /\ CmdFiles' /\ ParentFds' /\ Lives'
        /\ (cmd.op = "Output" => PipeEnds) /\ (cmd.op = "Run" => parent.wr = NoFile)
    <3>1. child'.pc \in Alive \cup {"zombie"}
      BY <2>2 DEF Alive, Ready, Writing
    <3>. QED BY <1>1, <1>2, <3>1, ChildKeeps
  <2>9. ASSUME cmd.op = "Output", InOrder, ~PipeIsStderr, ~lost
        PROVE  data \o pipe' = wrote' /\ parent.pc \notin {"wait", "done"}
    <3>1. child.fds[1] = "w" /\ child.fds[2] # "w"
      BY <2>6, <2>8, <2>9, ChainLeads DEF ExecInv
    <3>2. data \o pipe = wrote /\ parent.pc \notin {"wait", "done"}
      BY <1>2, <2>9 DEF ExecInv, Streams, Alive, Ready, Writing
    <3>3. CASE fd = 1
      <4>1. pipe' = Append(pipe, c) /\ wrote' = Append(wrote, c)
        BY <2>1, <3>1, <3>3
      <4>2. data \o Append(pipe, c) = Append(data \o pipe, c)
        BY <2>3, SMTT(20)
      <4>. QED BY <3>2, <4>1, <4>2
    <3>4. CASE fd = 2
      BY <2>1, <3>1, <3>2, <3>4
    <3>. QED BY <3>3, <3>4
  <2>10. Streams'
    BY <1>1, <2>2, <2>9 DEF Streams, InOrder, PipeIsStderr
  <2>. QED BY <2>5, <2>7, <2>8, <2>10 DEF ExecInv
<1>. QED BY <1>3, <1>4

LEMMA ChildInv ==
  ASSUME ExecInv, Child
  PROVE  ExecInv'
BY CloseReadInv, SysDup2Inv, SysExecveInv, BeginWriteInv, EndWriteInv, ExitInv DEF Child

-----------------------------------------------------------------------------
\* Steps of the parent

LEMMA ParentType ==
  ASSUME ExecInv
  PROVE  /\ parent \in [pc : ParentPC, fds : [Fd -> Object],
                        rd : Fd \cup {NoFile}, wr : Fd \cup {NoFile}]
         /\ parent.fds \in [Fd -> Object] /\ fds0 \in [Fd -> Object]
BY Objects DEF ExecInv, Types

\* What a step that makes no pipe leaves alone.
LEMMA ParentMoves ==
  ASSUME ExecInv, NEW pc \in ParentPC, NEW fds \in [Fd -> Object],
         parent' = [parent EXCEPT !.pc = pc, !.fds = fds],
         UNCHANGED <<cmd, fds0>>
  PROVE  /\ parent'.pc = pc /\ parent'.fds = fds
         /\ parent'.rd = parent.rd /\ parent'.wr = parent.wr
         /\ parent' \in [pc : ParentPC, fds : [Fd -> Object],
                         rd : Fd \cup {NoFile}, wr : Fd \cup {NoFile}]
         /\ CmdFiles' /\ PipeEnds' = PipeEnds /\ Piped' = Piped /\ Forked' = Forked
         /\ InOrder' = InOrder /\ PipeIsStderr' = PipeIsStderr
         /\ UNCHANGED child => ChildFds'
<1>1. /\ parent'.pc = pc /\ parent'.fds = fds
      /\ parent'.rd = parent.rd /\ parent'.wr = parent.wr
      /\ parent' \in [pc : ParentPC, fds : [Fd -> Object],
                      rd : Fd \cup {NoFile}, wr : Fd \cup {NoFile}]
  BY ParentType
<1>2. CmdFiles' /\ PipeEnds' = PipeEnds /\ InOrder' = InOrder /\ PipeIsStderr' = PipeIsStderr
  BY <1>1 DEF ExecInv, CmdFiles, Open, PipeEnds, InOrder, PipeIsStderr
<1>3. Piped' = Piped /\ Forked' = Forked
  BY <1>1 DEF Piped, Forked
<1>4. Redirected0' = Redirected0 /\ Redirected1' = Redirected1 /\ Redirected2' = Redirected2
  BY <1>3 DEF Redirected0, Redirected1, Redirected2, Redirect, Dup2
<1>5. UNCHANGED child => ChildFds'
  BY <1>3, <1>4 DEF ExecInv, ChildFds
<1>. QED BY <1>1, <1>2, <1>3, <1>5

\* What happens before there is a child.
LEMMA NoStreams ==
  ASSUME Streams, child.pc = "none", UNCHANGED <<data, pipe, wrote>>,
         child'.pc = "none" \/ cmd'.op = "Run" \/ parent'.pc \notin {"wait", "done"},
         cmd'.op \in {"Run", "Output"}
  PROVE  Streams'
<1>1. data' = <<>> /\ pipe' = <<>> /\ wrote' = <<>> /\ <<>> \o <<>> = <<>>
  BY DEF Streams
<1>. QED BY <1>1 DEF Streams

LEMMA SysPipeInv ==
  ASSUME ExecInv, SysPipe
  PROVE  ExecInv'
<1>. DEFINE r == Lowest(parent.fds)  fds == [parent.fds EXCEPT ![r] = "r"]  w == Lowest(fds)
            fds1 == [fds EXCEPT ![w] = "w"]
<1>1. /\ parent.pc = "pipe"
      /\ parent' = [pc |-> "fork", fds |-> fds1, rd |-> r, wr |-> w]
      /\ cmd' = [cmd EXCEPT !.stdout = w]
      /\ UNCHANGED <<fds0, child, pipe, data, result, wrote, lost>>
  BY DEF SysPipe
<1>2. cmd.op = "Output" /\ parent.fds = fds0 /\ child.pc = "none"
  BY <1>1 DEF ExecInv, ParentFds, Lives, Types
<1>3. r \in Fd /\ w \in Fd /\ r # w /\ fds0[r] = Closed /\ fds0[w] = Closed
  BY <1>2, PipePlaces DEF ExecInv
<1>4. "r" \in Object /\ "w" \in Object
  BY Objects
<1>5. fds1 \in [Fd -> Object] /\ fds1 = [[fds0 EXCEPT ![r] = "r"] EXCEPT ![w] = "w"]
  BY <1>2, <1>4, ParentType
<1>. HIDE DEF fds1, w, r
<1>6. Types'
  BY <1>1, <1>3, <1>5 DEF ExecInv, Types, ParentPC
<1>7. cmd'.op = "Output" /\ cmd'.stdin = cmd.stdin /\ cmd'.stderr = cmd.stderr /\ cmd'.stdout = w
  BY <1>1, <1>2 DEF ExecInv, Types
<1>8. w # NoFile
  BY <1>3 DEF Fd, NoFile
<1>9. CmdFiles'
  BY <1>1, <1>7, <1>8 DEF ExecInv, CmdFiles, Open
<1>10. PipeEnds' /\ parent'.fds = Piped'
  BY <1>1, <1>3, <1>5, <1>7 DEF PipeEnds, Piped
<1>11. ParentFds'
  BY <1>1, <1>7, <1>10 DEF ParentFds
<1>12. ChildFds' /\ Lives'
  BY <1>1, <1>2 DEF ExecInv, ChildFds, Lives, Ready, Writing
<1>13. Streams'
  BY <1>1, <1>2, <1>7, NoStreams DEF ExecInv
<1>. QED BY <1>6, <1>9, <1>11, <1>12, <1>13 DEF ExecInv

LEMMA PipeFailsInv ==
  ASSUME ExecInv, PipeFails
  PROVE  ExecInv'
<1>1. /\ parent.pc = "pipe" /\ parent' = [parent EXCEPT !.pc = "done", !.fds = parent.fds]
      /\ result' = -1 /\ UNCHANGED <<cmd, fds0, child, pipe, data, wrote, lost>>
  BY ParentType DEF PipeFails, Fail
<1>2. "done" \in ParentPC
  BY DEF ParentPC
<1>3. /\ parent'.pc = "done" /\ parent'.fds = parent.fds
      /\ parent' \in [pc : ParentPC, fds : [Fd -> Object],
                      rd : Fd \cup {NoFile}, wr : Fd \cup {NoFile}]
      /\ CmdFiles' /\ ChildFds'
  BY <1>1, <1>2, ParentType, ParentMoves
<1>4. Types'
  BY <1>1, <1>3 DEF ExecInv, Types
<1>5. cmd.op = "Output" /\ parent.fds = fds0 /\ child.pc = "none"
  BY <1>1 DEF ExecInv, ParentFds, Lives, Types
<1>6. ParentFds' /\ Lives'
  BY <1>1, <1>3, <1>5 DEF ParentFds, Lives
<1>7. Streams'
  BY <1>1, <1>5, NoStreams DEF ExecInv
<1>. QED BY <1>3, <1>4, <1>6, <1>7 DEF ExecInv

LEMMA SysForkInv ==
  ASSUME ExecInv, SysFork
  PROVE  ExecInv'
<1>. DEFINE pc == IF cmd.op = "Run" THEN "wait" ELSE "close"
            cpc == IF cmd.op = "Run" THEN "dup0" ELSE "close"
<1>1. /\ parent.pc = "fork" /\ parent' = [parent EXCEPT !.pc = pc, !.fds = parent.fds]
      /\ child' = [child EXCEPT !.pc = cpc, !.fds = parent.fds]
      /\ UNCHANGED <<cmd, fds0, pipe, data, result, wrote, lost>>
  BY ParentType DEF SysFork, Goto
<1>2. pc \in ParentPC /\ cmd.op \in {"Run", "Output"} /\ cpc \in ChildPC
  BY DEF ParentPC, ExecInv, Types, ChildPC, Alive
<1>3. /\ parent'.pc = pc /\ parent'.fds = parent.fds
      /\ parent'.wr = parent.wr /\ parent'.rd = parent.rd
      /\ parent' \in [pc : ParentPC, fds : [Fd -> Object],
                      rd : Fd \cup {NoFile}, wr : Fd \cup {NoFile}]
      /\ CmdFiles' /\ PipeEnds' = PipeEnds /\ Piped' = Piped /\ Forked' = Forked
  BY <1>1, <1>2, ParentType, ParentMoves
<1>4. child'.pc = cpc /\ child'.fds = parent.fds /\ child.pc = "none"
  BY <1>1, ChildType DEF ExecInv, Lives
<1>5. Types'
  BY <1>1, <1>2, <1>3, ParentType DEF ExecInv, Types
<1>6. ParentFds'
  BY <1>1, <1>2, <1>3 DEF ExecInv, ParentFds
<1>7. ChildFds'
  <2>1. cmd.op = "Run" => parent.fds = Forked
    BY <1>1 DEF ExecInv, ParentFds, Forked
  <2>2. cmd.op = "Output" => parent.fds = Piped
    BY <1>1 DEF ExecInv, ParentFds
  <2>. QED BY <1>1, <1>2, <1>3, <1>4, <2>1, <2>2 DEF ChildFds, Ready, Writing
<1>8. Lives'
  BY <1>3, <1>4 DEF Lives
<1>9. Streams'
  BY <1>1, <1>2, <1>3, <1>4, NoStreams DEF ExecInv
<1>. QED BY <1>3, <1>5, <1>6, <1>7, <1>8, <1>9 DEF ExecInv

\* Closing what pipe gave brings back the descriptors there were.
LEMMA ClosesPipe ==
  ASSUME ExecInv, PipeEnds
  PROVE  /\ Close(Piped, parent.wr) = [fds0 EXCEPT ![parent.rd] = "r"]
         /\ Close([fds0 EXCEPT ![parent.rd] = "r"], parent.rd) = fds0
         /\ ClosePipe(Piped) = fds0
<1>1. /\ fds0 \in [Fd -> Object] /\ parent.rd \in Fd /\ parent.wr \in Fd
      /\ parent.rd # parent.wr /\ fds0[parent.rd] = Closed /\ fds0[parent.wr] = Closed
  BY ParentType DEF PipeEnds
<1>2. Close(Piped, parent.wr) = [fds0 EXCEPT ![parent.rd] = "r"]
  BY <1>1 DEF Close, Piped
<1>3. Close([fds0 EXCEPT ![parent.rd] = "r"], parent.rd) = fds0
  BY <1>1 DEF Close
<1>4. ClosePipe(Piped) = fds0
  BY <1>1 DEF ClosePipe, Close, Piped
<1>. QED BY <1>2, <1>3, <1>4

LEMMA ForkFailsInv ==
  ASSUME ExecInv, ForkFails
  PROVE  ExecInv'
<1>. DEFINE fds == IF cmd.op = "Run" THEN parent.fds ELSE ClosePipe(parent.fds)
<1>1. /\ parent.pc = "fork" /\ parent' = [parent EXCEPT !.pc = "done", !.fds = fds]
      /\ result' = -1 /\ UNCHANGED <<cmd, fds0, child, pipe, data, wrote, lost>>
  BY ParentType DEF ForkFails
<1>2. "done" \in ParentPC /\ cmd.op \in {"Run", "Output"} /\ child.pc = "none"
  BY <1>1 DEF ParentPC, ExecInv, Types, Lives
<1>3. fds = fds0
  BY <1>1, <1>2, ClosesPipe DEF ExecInv, ParentFds
<1>. HIDE DEF fds
<1>4. /\ parent'.pc = "done" /\ parent'.fds = fds0
      /\ parent'.wr = parent.wr /\ parent'.rd = parent.rd
      /\ parent' \in [pc : ParentPC, fds : [Fd -> Object],
                      rd : Fd \cup {NoFile}, wr : Fd \cup {NoFile}]
      /\ CmdFiles' /\ ChildFds'
  BY <1>1, <1>2, <1>3, ParentType, ParentMoves
<1>5. Types'
  BY <1>1, <1>4 DEF ExecInv, Types
<1>6. ParentFds'
  BY <1>1, <1>2, <1>4 DEF ExecInv, ParentFds
<1>7. Lives'
  BY <1>1, <1>4 DEF Lives
<1>8. Streams'
  BY <1>1, <1>2, NoStreams DEF ExecInv
<1>. QED BY <1>4, <1>5, <1>6, <1>7, <1>8 DEF ExecInv

LEMMA CloseWriteInv ==
  ASSUME ExecInv, CloseWrite
  PROVE  ExecInv'
<1>. DEFINE fds == Close(parent.fds, parent.wr)
<1>1. /\ parent.pc = "close" /\ parent' = [parent EXCEPT !.pc = "read", !.fds = fds]
      /\ UNCHANGED <<cmd, fds0, child, pipe, data, result, wrote, lost>>
  BY DEF CloseWrite
<1>2. "read" \in ParentPC /\ cmd.op = "Output" /\ PipeEnds /\ parent.fds = Piped
  BY <1>1 DEF ParentPC, ExecInv, Types, ParentFds
<1>3. fds = [fds0 EXCEPT ![parent.rd] = "r"] /\ fds \in [Fd -> Object]
  BY <1>2, ClosesPipe, ParentType, Objects
<1>. HIDE DEF fds
<1>4. /\ parent'.pc = "read" /\ parent'.fds = fds
      /\ parent'.wr = parent.wr /\ parent'.rd = parent.rd
      /\ parent' \in [pc : ParentPC, fds : [Fd -> Object],
                      rd : Fd \cup {NoFile}, wr : Fd \cup {NoFile}]
      /\ CmdFiles' /\ ChildFds' /\ PipeEnds' = PipeEnds
      /\ InOrder' = InOrder /\ PipeIsStderr' = PipeIsStderr
  BY <1>1, <1>2, <1>3, ParentMoves
<1>5. Types'
  BY <1>1, <1>4 DEF ExecInv, Types
<1>6. ParentFds'
  BY <1>1, <1>2, <1>3, <1>4 DEF ParentFds
<1>7. Lives'
  BY <1>1, <1>4 DEF ExecInv, Lives
<1>8. Streams'
  BY <1>1, <1>4 DEF ExecInv, Streams
<1>. QED BY <1>4, <1>5, <1>6, <1>7, <1>8 DEF ExecInv

\* A read takes from the front what it appends.
LEMMA ReadInv ==
  ASSUME ExecInv, Read
  PROVE  ExecInv'
<1>. DEFINE n == IF Len(pipe) < Chunk THEN Len(pipe) ELSE Chunk
<1>1. /\ parent.pc = "read"
      /\ data' = data \o SubSeq(pipe, 1, n) /\ pipe' = SubSeq(pipe, n + 1, Len(pipe))
      /\ UNCHANGED <<cmd, fds0, parent, child, result, wrote, lost>>
  BY DEF Read
<1>2. /\ data \in Seq(Nat) /\ pipe \in Seq(Nat) /\ wrote \in Seq(Nat)
      /\ Len(pipe) <= PipeSize /\ PipeSize \in Nat /\ n \in 0..Len(pipe)
  BY ExecAssumption DEF ExecInv, Types
<1>. HIDE DEF n
<1>3. /\ data' \in Seq(Nat) /\ pipe' \in Seq(Nat)
      /\ Len(pipe') = Len(pipe) - n
  <2>1. SubSeq(pipe, 1, n) \in Seq(Nat)
    BY <1>2
  <2>2. SubSeq(pipe, n + 1, Len(pipe)) \in Seq(Nat)
        /\ Len(SubSeq(pipe, n + 1, Len(pipe))) = Len(pipe) - n
    BY <1>2
  <2>. QED BY <1>1, <1>2, <2>1, <2>2, SMTT(20)
<1>4. data' \o pipe' = data \o pipe
  <2>. DEFINE t == SubSeq(pipe, 1, n)  u == SubSeq(pipe, n + 1, Len(pipe))
  <2>1. t \in Seq(Nat) /\ u \in Seq(Nat)
    BY <1>2
  <2>2. t \o u = SubSeq(pipe, 1, Len(pipe))
    <3>1. 1 \in 1..Len(pipe) + 1 /\ n \in 1 - 1..Len(pipe) /\ Len(pipe) \in n..Len(pipe)
      BY <1>2
    <3>. QED BY <1>2, <3>1, ConcatAdjacentSubSeq
  <2>3. SubSeq(pipe, 1, Len(pipe)) = pipe
    BY <1>2, SubSeqFull
  <2>4. data' = data \o t /\ pipe' = u
    BY <1>1
  <2>. HIDE DEF t, u
  <2>5. (data \o t) \o u = data \o (t \o u)
    <3>1. data \in Seq(Nat)
      BY <1>2
    <3>. QED BY <2>1, <3>1, ConcatAssociative, SMTT(20)
  <2>. QED BY <2>2, <2>3, <2>4, <2>5
<1>5. Types'
  BY <1>1, <1>2, <1>3, SMTT(20) DEF ExecInv, Types
<1>6. CmdFiles' /\ ParentFds' /\ ChildFds' /\ Lives'
  <2>1. CmdFiles' /\ Lives'
    BY <1>1 DEF ExecInv, CmdFiles, Open, Lives
  <2>2. ParentFds'
    BY <1>1 DEF ExecInv, ParentFds, PipeEnds, Piped
  <2>3. ChildFds'
    BY <1>1, ChainKeeps DEF ExecInv, ChildFds
  <2>. QED BY <2>1, <2>2, <2>3
<1>7. child.pc # "none"
  BY <1>1 DEF ExecInv, Lives
<1>8. Streams'
  BY <1>1, <1>4, <1>7 DEF ExecInv, Streams, InOrder, PipeIsStderr
<1>. QED BY <1>5, <1>6, <1>8 DEF ExecInv

\* The loop ends with nothing left to come, or with a failure.
LEMMA LeaveLoopInv ==
  ASSUME ExecInv, ReadEOF \/ ReadFails
  PROVE  ExecInv'
<1>. DEFINE fds == Close(parent.fds, parent.rd)
<1>1. /\ parent.pc = "read" /\ parent' = [parent EXCEPT !.pc = "wait", !.fds = fds]
      /\ lost' \in BOOLEAN /\ (lost => lost') /\ (~lost' => pipe = <<>> /\ ~Writers)
      /\ UNCHANGED <<cmd, fds0, child, pipe, data, result, wrote>>
  BY DEF ReadEOF, ReadFails, LeaveLoop, ExecInv, Types
<1>2. "wait" \in ParentPC /\ cmd.op = "Output" /\ PipeEnds
      /\ parent.fds = [fds0 EXCEPT ![parent.rd] = "r"] /\ child.pc \notin {"none", "reaped"}
  BY <1>1 DEF ParentPC, ExecInv, Types, ParentFds, Lives
<1>3. fds = fds0
  BY <1>2, ClosesPipe
<1>. HIDE DEF fds
<1>4. /\ parent'.pc = "wait" /\ parent'.fds = fds0
      /\ parent'.wr = parent.wr /\ parent'.rd = parent.rd
      /\ parent' \in [pc : ParentPC, fds : [Fd -> Object],
                      rd : Fd \cup {NoFile}, wr : Fd \cup {NoFile}]
      /\ CmdFiles' /\ ChildFds' /\ PipeEnds' = PipeEnds
      /\ InOrder' = InOrder /\ PipeIsStderr' = PipeIsStderr
  BY <1>1, <1>2, <1>3, ParentType, ParentMoves
<1>5. Types'
  BY <1>1, <1>4 DEF ExecInv, Types
<1>6. ParentFds'
  BY <1>1, <1>2, <1>4 DEF ParentFds
<1>7. Lives'
  BY <1>1, <1>4 DEF ExecInv, Lives
<1>8. InOrder /\ ~lost' => pipe = <<>> /\ child.pc = "zombie"
  BY <1>1, <1>2, AliveWrites, ChildType DEF ChildPC
<1>9. Streams'
  BY <1>1, <1>2, <1>4, <1>8 DEF ExecInv, Streams
<1>. QED BY <1>4, <1>5, <1>6, <1>7, <1>9 DEF ExecInv

\* The status of the child is what Run and Output return.
LEMMA ExitCodes ==
  ASSUME NEW status \in Statuses
  PROVE  ExitCode(status) \in 0..255 /\ (ExitCode(status) = 0 => status \in 0..127)
<1>1. CASE status \in {0, 9, 13}
  BY <1>1 DEF ExitCode
<1>2. CASE \E k \in 0..255 : status = 256 * k
  <2>1. PICK k \in 0..255 : status = 256 * k
    BY <1>2
  <2>2. status \div 256 = k /\ k % 256 = k
    BY <2>1
  <2>. QED BY <2>1, <2>2 DEF ExitCode
<1>. QED BY <1>1, <1>2 DEF Statuses

LEMMA SysWait4Inv ==
  ASSUME ExecInv, SysWait4
  PROVE  ExecInv'
<1>1. /\ parent.pc = "wait" /\ child.pc = "zombie"
      /\ parent' = [parent EXCEPT !.pc = "done", !.fds = parent.fds]
      /\ child' = [child EXCEPT !.pc = "reaped"]
      /\ result' = ExitCode(child.status)
      /\ UNCHANGED <<cmd, fds0, pipe, data, wrote, lost>>
  BY ParentType DEF SysWait4, Goto
<1>2. "done" \in ParentPC /\ "reaped" \in ChildPC
  BY DEF ParentPC, ChildPC
<1>3. /\ child'.pc = "reaped" /\ child'.fds = child.fds /\ child'.status = child.status
      /\ child' \in [pc : ChildPC, fds : [Fd -> Object], status : Statuses, count : Nat]
      /\ child.status \in Statuses
  BY <1>1, <1>2, ChildType
<1>4. /\ parent'.pc = "done" /\ parent'.fds = parent.fds
      /\ parent'.wr = parent.wr /\ parent'.rd = parent.rd
      /\ parent' \in [pc : ParentPC, fds : [Fd -> Object],
                      rd : Fd \cup {NoFile}, wr : Fd \cup {NoFile}]
      /\ CmdFiles' /\ PipeEnds' = PipeEnds
      /\ InOrder' = InOrder /\ PipeIsStderr' = PipeIsStderr
  BY <1>1, <1>2, ParentType, ParentMoves
<1>5. result' \in -1..255
  BY <1>1, <1>3, ExitCodes
<1>6. Types'
  BY <1>1, <1>3, <1>4, <1>5 DEF ExecInv, Types
<1>7. ParentFds'
  BY <1>1, <1>3, <1>4 DEF ExecInv, ParentFds
<1>8. ChildFds'
  BY <1>1, <1>3 DEF ExecInv, ChildFds, Ready, Writing
<1>9. Lives'
  BY <1>1, <1>3, <1>4 DEF Lives
<1>10. Streams'
  BY <1>1, <1>3, <1>4 DEF ExecInv, Streams
<1>. QED BY <1>4, <1>6, <1>7, <1>8, <1>9, <1>10 DEF ExecInv

LEMMA WaitFailsInv ==
  ASSUME ExecInv, WaitFails
  PROVE  ExecInv'
<1>1. /\ parent.pc = "wait" /\ parent' = [parent EXCEPT !.pc = "done", !.fds = parent.fds]
      /\ result' = -1 /\ UNCHANGED <<cmd, fds0, child, pipe, data, wrote, lost>>
  BY ParentType DEF WaitFails, Fail
<1>2. "done" \in ParentPC
  BY DEF ParentPC
<1>3. /\ parent'.pc = "done" /\ parent'.fds = parent.fds
      /\ parent'.wr = parent.wr /\ parent'.rd = parent.rd
      /\ parent' \in [pc : ParentPC, fds : [Fd -> Object],
                      rd : Fd \cup {NoFile}, wr : Fd \cup {NoFile}]
      /\ CmdFiles' /\ ChildFds' /\ PipeEnds' = PipeEnds
      /\ InOrder' = InOrder /\ PipeIsStderr' = PipeIsStderr
  BY <1>1, <1>2, ParentType, ParentMoves
<1>4. Types'
  BY <1>1, <1>3 DEF ExecInv, Types
<1>5. ParentFds'
  BY <1>1, <1>3 DEF ExecInv, ParentFds
<1>6. Lives'
  BY <1>1, <1>3 DEF Lives
<1>7. Streams'
  BY <1>1, <1>3 DEF ExecInv, Streams
<1>. QED BY <1>3, <1>4, <1>5, <1>6, <1>7 DEF ExecInv

-----------------------------------------------------------------------------
\* The theorems

\* A Cmd is asked for with whatever of 0 to 3 open, and no child yet.
LEMMA ExecInit ==
  ASSUME Init
  PROVE  ExecInv
<1>1. PICK open \in SUBSET (0..3) :
        /\ fds0 = [fd \in Fd |-> IF fd \in open THEN FileAt[fd] ELSE Closed]
        /\ cmd \in [op : {"Run", "Output"}, stdin : open \cup {NoFile},
                    stdout : open \cup {NoFile}, stderr : open \cup {NoFile}]
  BY DEF Init
<1>2. /\ parent = [pc |-> IF cmd.op = "Run" THEN "fork" ELSE "pipe", fds |-> fds0,
                   rd |-> NoFile, wr |-> NoFile]
      /\ child = NoChild /\ pipe = <<>> /\ data = <<>> /\ wrote = <<>>
      /\ result = 0 /\ lost = FALSE
  BY DEF Init
<1>3. open \subseteq Fd
  BY ExecAssumption DEF Fd
<1>4. fds0 \in [Fd -> Files] /\ Open(fds0) = open
  BY <1>1, <1>3, Objects DEF Open, Files
<1>5. fds0 \in [Fd -> Object] /\ Closed \in Object
  BY <1>4, Objects DEF Files
<1>6. /\ child.pc = "none" /\ child.fds = [fd \in Fd |-> Closed]
      /\ child \in [pc : ChildPC, fds : [Fd -> Object], status : Statuses, count : Nat]
  BY <1>2, <1>5 DEF NoChild, ChildPC, Statuses
<1>7. /\ parent.pc = IF cmd.op = "Run" THEN "fork" ELSE "pipe"
      /\ parent.fds = fds0 /\ parent.rd = NoFile /\ parent.wr = NoFile
      /\ parent \in [pc : ParentPC, fds : [Fd -> Object],
                     rd : Fd \cup {NoFile}, wr : Fd \cup {NoFile}]
  BY <1>2, <1>5 DEF ParentPC
<1>8. Types
  <2>1. cmd \in [op : {"Run", "Output"}, stdin : Fd \cup {NoFile},
                 stdout : Fd \cup {NoFile}, stderr : Fd \cup {NoFile}]
    BY <1>1, <1>3
  <2>2. pipe \in Seq(Nat) /\ Len(pipe) <= PipeSize /\ data \in Seq(Nat) /\ wrote \in Seq(Nat)
    BY <1>2, ExecAssumption
  <2>3. result \in -1..255
    BY <1>2
  <2>4. lost \in BOOLEAN
    BY <1>2
  <2>. QED BY <1>4, <1>6, <1>7, <2>1, <2>2, <2>3, <2>4 DEF Types
<1>9. CmdFiles
  BY <1>1, <1>4 DEF CmdFiles
<1>10. ParentFds /\ ChildFds /\ Lives
  BY <1>6, <1>7, <1>8 DEF Types, ParentFds, ChildFds, Lives, Ready, Writing
<1>11. Streams
  BY <1>2, <1>6 DEF Streams
<1>. QED BY <1>8, <1>9, <1>10, <1>11 DEF ExecInv

LEMMA ExecNext ==
  ASSUME ExecInv, [Next]_vars
  PROVE  ExecInv'
<1>1. CASE Parent
  BY <1>1, SysPipeInv, SysForkInv, CloseWriteInv, ReadInv, LeaveLoopInv, SysWait4Inv
  DEF Parent
<1>2. CASE CallFails
  BY <1>2, PipeFailsInv, ForkFailsInv, LeaveLoopInv, WaitFailsInv DEF CallFails
<1>3. CASE Child \/ Killed
  BY <1>3, ChildInv, KilledInv
<1>4. CASE UNCHANGED vars
  <2>1. UNCHANGED <<cmd, fds0, parent, child, pipe, data, result, wrote, lost>>
    BY <1>4 DEF vars
  <2>2. Types'
    BY <2>1 DEF ExecInv, Types
  <2>3. CmdFiles' /\ Lives'
    BY <2>1 DEF ExecInv, CmdFiles, Open, Lives
  <2>4. ParentFds' /\ ChildFds'
    BY <2>1, ChainKeeps DEF ExecInv, ParentFds, ChildFds, PipeEnds, Piped
  <2>5. Streams'
    BY <2>1 DEF ExecInv, Streams, InOrder, PipeIsStderr
  <2>. QED BY <2>2, <2>3, <2>4, <2>5 DEF ExecInv
<1>. QED BY <1>1, <1>2, <1>3, <1>4 DEF Next

\* The descriptors of both processes at every place of Run and Output, and what
\* was read of what was written, whatever fails (exec.go).
THEOREM ExecInvariant == Spec => []ExecInv
<1>1. ExecInv /\ [Next]_vars => ExecInv'
  BY ExecNext
<1>. QED BY <1>1, ExecInit, PTL DEF Spec

\* The state is one of Run's or Output's: no descriptor outside the table, no
\* more in the pipe than it holds, no code above a byte.
THEOREM ExecTypeCorrect == Spec => []TypeOK
<1>1. ASSUME ExecInv PROVE TypeOK
  BY <1>1, ParentType, ChildType DEF ExecInv, Types, TypeOK
<1>. QED BY <1>1, ExecInvariant, PTL

\* The program starts with the files asked for, wherever the pipe lay.
THEOREM RedirectsAsAsked == Spec => []RedirectedAsAsked
<1>1. ASSUME ExecInv PROVE RedirectedAsAsked
  <2> SUFFICES ASSUME child.pc = "running", InOrder
               PROVE  \A std \in Std : Asked(std) # Closed => child.fds[std] = Asked(std)
    BY DEF RedirectedAsAsked
  <2>1. child.fds = Redirected2
    BY <1>1 DEF ExecInv, ChildFds, Ready, Writing
  <2>2. (cmd.op = "Output" => PipeEnds) /\ (cmd.op = "Run" => parent.wr = NoFile)
    BY <1>1 DEF ExecInv, ParentFds
  <2>. QED BY <1>1, <2>1, <2>2, ChainLeads DEF ExecInv
<1>. QED BY <1>1, ExecInvariant, PTL

\* Output returns what the program wrote, unless a read failed.
THEOREM OutputReturnsAll == Spec => []OutputComplete
<1>1. ASSUME ExecInv PROVE OutputComplete
  <2> SUFFICES ASSUME parent.pc = "done", cmd.op = "Output",
                      child.pc \in {"reaped", "zombie"}, InOrder, ~PipeIsStderr, ~lost
               PROVE  data = wrote
    BY DEF OutputComplete
  <2>1. data \o pipe = wrote /\ pipe = <<>> /\ data \in Seq(Nat)
    BY <1>1 DEF ExecInv, Streams, Types
  <2>. QED BY <2>1
<1>. QED BY <1>1, ExecInvariant, PTL

\* The caller has the descriptors it had, on every way out.
THEOREM RestoresDescriptors == Spec => []DescriptorsRestored
<1>1. ExecInv => DescriptorsRestored
  BY DEF ExecInv, ParentFds, DescriptorsRestored, Types
<1>. QED BY <1>1, ExecInvariant, PTL

\* A nil error is the end of a program that did not report a failure.
THEOREM NilOnlyOnSuccess == Spec => []NilMeansSuccess
<1>1. ASSUME ExecInv PROVE NilMeansSuccess
  <2> SUFFICES ASSUME parent.pc = "done", result = 0
               PROVE  child.pc = "reaped" /\ child.status \in 0..127
    BY DEF NilMeansSuccess
  <2>1. child.pc = "reaped" /\ ExitCode(child.status) = 0
    BY <1>1 DEF ExecInv, Lives
  <2>. QED BY <1>1, <2>1, ChildType, ExitCodes
<1>. QED BY <1>1, ExecInvariant, PTL
=============================================================================
