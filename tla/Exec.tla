-------------------------------- MODULE Exec --------------------------------
(***************************************************************************)
(* Running a program from a program: Cmd.Run and Cmd.Output of             *)
(* std/os/exec/exec.go, as two processes and what the kernel keeps for     *)
(* them.  Every action is one system call, or one step of the program the  *)
(* child becomes: fork copies the descriptors, the child redirects 0, 1    *)
(* and 2 one after the other and executes the program; for Output the two  *)
(* share a pipe, whose end of file shows when no descriptor of its write   *)
(* end is left in either process.                                          *)
(***************************************************************************)
EXTENDS Integers, Sequences

CONSTANTS
  MaxFd,      \* descriptors are 0..MaxFd
  Chunk,      \* bytes a read asks for (4096 in the code)
  PipeSize,   \* bytes a pipe holds
  Codes,      \* what programs pass to exit
  SysFails,   \* whether pipe, fork, read and wait may fail
  MaxWrites   \* bound: bytes the program writes

ASSUME ExecAssumption ==
  /\ MaxFd \in Nat /\ MaxFd >= 5
  /\ Chunk \in Nat \ {0} /\ PipeSize \in Nat \ {0}
  /\ Codes \subseteq Nat
  /\ SysFails \in BOOLEAN
  /\ MaxWrites \in Nat

Fd == 0..MaxFd
NoFile == -1
Std == 0..2

\* What a descriptor can refer to; r and w are the ends of the pipe.
Closed == "closed"
FileAt == [fd \in 0..3 |->
             CASE fd = 0 -> "terminal" [] fd = 1 -> "out" [] fd = 2 -> "err" [] fd = 3 -> "file"]
Object == {FileAt[fd] : fd \in 0..3} \cup {"r", "w", Closed}

VARIABLES
  cmd,     \* what is asked for: Run or Output, and the files of the Cmd
  fds0,    \* the parent's descriptors when it was asked
  parent,  \* the parent: place in the code, descriptors
  child,   \* the child: place in the code, descriptors, status when it ended
  pipe,    \* bytes in the pipe
  data,    \* what Output has read
  result,  \* the error returned: -1 for an errno, 0 for nil, else the code
  wrote,   \* bytes the program wrote to its standard output
  lost     \* a read failed, which Output does not notice

vars == <<cmd, fds0, parent, child, pipe, data, result, wrote, lost>>

-----------------------------------------------------------------------------
\* Descriptors

Open(fds) == { fd \in Fd : fds[fd] # Closed }
Lowest(fds) == CHOOSE fd \in Fd \ Open(fds) : \A g \in Fd \ Open(fds) : fd <= g

\* dup2 of a closed descriptor fails and changes nothing.
Dup2(fds, old, new) ==
  IF fds[old] = Closed THEN fds ELSE [fds EXCEPT ![new] = fds[old]]

\* The redirection of descriptor std to a file of the Cmd, if there is one.
Redirect(fds, file, std) == IF file = NoFile THEN fds ELSE Dup2(fds, file, std)

Close(fds, fd) == [fds EXCEPT ![fd] = Closed]

Holds(fds, end) == \E fd \in Fd : fds[fd] = end
End(fds, end) == CHOOSE fd \in Fd : fds[fd] = end

Writers == Holds(parent.fds, "w") \/ Holds(child.fds, "w")
Readers == Holds(parent.fds, "r") \/ Holds(child.fds, "r")

-----------------------------------------------------------------------------
NoChild == [pc |-> "none", fds |-> [fd \in Fd |-> Closed], status |-> 0, count |-> 0]

\* Any of the four files may be closed; the Cmd names open ones.
Init ==
  /\ \E open \in SUBSET (0..3) :
       /\ fds0 = [fd \in Fd |-> IF fd \in open THEN FileAt[fd] ELSE Closed]
       /\ cmd \in [op : {"Run", "Output"}, stdin : open \cup {NoFile},
                   stdout : open \cup {NoFile}, stderr : open \cup {NoFile}]
  /\ parent = [pc |-> IF cmd.op = "Run" THEN "fork" ELSE "pipe", fds |-> fds0,
               rd |-> NoFile, wr |-> NoFile]
  /\ child = NoChild
  /\ pipe = <<>> /\ data = <<>> /\ wrote = <<>>
  /\ result = 0
  /\ lost = FALSE

Goto(pc) == parent' = [parent EXCEPT !.pc = pc]

\* The errno of a failed call is returned.
Fail ==
  /\ parent' = [parent EXCEPT !.pc = "done"]
  /\ result' = -1

SysPipe ==
  /\ parent.pc = "pipe"
  /\ LET r == Lowest(parent.fds)
         fds == [parent.fds EXCEPT ![r] = "r"]
         w == Lowest(fds)
     IN  /\ parent' = [pc |-> "fork", fds |-> [fds EXCEPT ![w] = "w"], rd |-> r, wr |-> w]
         /\ cmd' = [cmd EXCEPT !.stdout = w]
  /\ UNCHANGED <<fds0, child, pipe, data, result, wrote, lost>>

PipeFails ==
  /\ SysFails /\ parent.pc = "pipe"
  /\ Fail
  /\ UNCHANGED <<cmd, fds0, child, pipe, data, wrote, lost>>

SysFork ==
  /\ parent.pc = "fork"
  /\ child' = [child EXCEPT !.pc = IF cmd.op = "Run" THEN "dup0" ELSE "close",
                            !.fds = parent.fds]
  /\ Goto(IF cmd.op = "Run" THEN "wait" ELSE "close")
  /\ UNCHANGED <<cmd, fds0, pipe, data, result, wrote, lost>>

\* Mistake: the write end stays open.
MutClosePipe(fds) == Close(fds, parent.rd)

\* Both ends closed.
ClosePipe(fds) == Close(Close(fds, parent.rd), parent.wr)

ForkFails ==
  /\ SysFails /\ parent.pc = "fork"
  /\ parent' = [parent EXCEPT !.pc = "done",
                  !.fds = IF cmd.op = "Run" THEN @ ELSE ClosePipe(@)]
  /\ result' = -1
  /\ UNCHANGED <<cmd, fds0, child, pipe, data, wrote, lost>>

CloseWrite ==
  /\ parent.pc = "close"
  /\ parent' = [parent EXCEPT !.pc = "read", !.fds = Close(@, parent.wr)]
  /\ UNCHANGED <<cmd, fds0, child, pipe, data, result, wrote, lost>>

\* Mistake: what a short read left in the pipe is not read.
MutRead ==
  /\ parent.pc = "read"
  /\ pipe # <<>>
  /\ LET n == IF Len(pipe) < Chunk THEN Len(pipe) ELSE Chunk
     IN  data' = data \o SubSeq(pipe, 1, n)
  /\ pipe' = <<>>
  /\ UNCHANGED <<cmd, fds0, parent, child, result, wrote, lost>>

\* One round of the loop: what the pipe holds, a chunk at most.
Read ==
  /\ parent.pc = "read"
  /\ pipe # <<>>
  /\ LET n == IF Len(pipe) < Chunk THEN Len(pipe) ELSE Chunk
     IN  /\ data' = data \o SubSeq(pipe, 1, n)
         /\ pipe' = SubSeq(pipe, n + 1, Len(pipe))
  /\ UNCHANGED <<cmd, fds0, parent, child, result, wrote, lost>>

LeaveLoop == parent' = [parent EXCEPT !.pc = "wait", !.fds = Close(@, parent.rd)]

\* A read at the end of file yields nothing, and the loop ends.
ReadEOF ==
  /\ parent.pc = "read"
  /\ pipe = <<>> /\ ~Writers
  /\ LeaveLoop
  /\ UNCHANGED <<cmd, fds0, child, pipe, data, result, wrote, lost>>

\* So does one that fails: its error is not looked at.
ReadFails ==
  /\ SysFails /\ parent.pc = "read"
  /\ LeaveLoop
  /\ lost' = TRUE
  /\ UNCHANGED <<cmd, fds0, child, pipe, data, result, wrote>>

\* Mistake: the low byte of the status is taken for the exit code.
MutExitCode(status) == status % 256

\* Mistake: the status is taken as it is.
MutWholeStatus(status) == status

ExitCode(status) == (status \div 256) % 256

SysWait4 ==
  /\ parent.pc = "wait"
  /\ child.pc = "zombie"
  /\ child' = [child EXCEPT !.pc = "reaped"]
  /\ result' = ExitCode(child.status)
  /\ Goto("done")
  /\ UNCHANGED <<cmd, fds0, pipe, data, wrote, lost>>

WaitFails ==
  /\ SysFails /\ parent.pc = "wait"
  /\ Fail
  /\ UNCHANGED <<cmd, fds0, child, pipe, data, wrote, lost>>

Parent == SysPipe \/ SysFork \/ CloseWrite \/ Read \/ ReadEOF \/ SysWait4

CallFails == PipeFails \/ ForkFails \/ ReadFails \/ WaitFails

-----------------------------------------------------------------------------
\* Mistake: the child keeps the read end.
MutCloseRead ==
  /\ child.pc = "close"
  /\ child' = [child EXCEPT !.pc = "dup0"]
  /\ UNCHANGED <<cmd, fds0, parent, pipe, data, result, wrote, lost>>

CloseRead ==
  /\ child.pc = "close"
  /\ child' = [child EXCEPT !.pc = "dup0", !.fds = Close(@, parent.rd)]
  /\ UNCHANGED <<cmd, fds0, parent, pipe, data, result, wrote, lost>>

\* Mistake: standard error is redirected before standard output.
MutRedirections ==
  << [pc |-> "dup0", to |-> "dup1", file |-> cmd.stdin, std |-> 0],
     [pc |-> "dup1", to |-> "dup2", file |-> cmd.stderr, std |-> 2],
     [pc |-> "dup2", to |-> "exec", file |-> cmd.stdout, std |-> 1] >>

Redirections ==
  << [pc |-> "dup0", to |-> "dup1", file |-> cmd.stdin, std |-> 0],
     [pc |-> "dup1", to |-> "dup2", file |-> cmd.stdout, std |-> 1],
     [pc |-> "dup2", to |-> "exec", file |-> cmd.stderr, std |-> 2] >>

\* if c.Stdin != nil { dup2(c.Stdin, 0) }, and so on.
SysDup2 ==
  \E i \in 1..3 :
    LET d == Redirections[i]
    IN  /\ child.pc = d.pc
        /\ child' = [child EXCEPT !.pc = d.to, !.fds = Redirect(@, d.file, d.std)]
        /\ UNCHANGED <<cmd, fds0, parent, pipe, data, result, wrote, lost>>

\* A process ends: its descriptors are closed.
Ended(status) == [child EXCEPT !.pc = "zombie", !.status = status, !.fds = NoChild.fds]

\* The program replaces the child, or there is none and the child exits.
SysExecve ==
  /\ child.pc = "exec"
  /\ \/ child' = [child EXCEPT !.pc = "running"]
     \/ child' = Ended(127 * 256)
  /\ UNCHANGED <<cmd, fds0, parent, pipe, data, result, wrote, lost>>

\* The program begins to write a byte to descriptor 1 or 2.
BeginWrite(fd) ==
  /\ child.pc = "running"
  /\ child.count < MaxWrites
  /\ child' = [child EXCEPT !.pc = IF fd = 1 THEN "write1" ELSE "write2", !.count = @ + 1]
  /\ UNCHANGED <<cmd, fds0, parent, pipe, data, result, wrote, lost>>

\* A write to the pipe waits for room; without a reader it kills the program.
EndWrite(fd) ==
  LET obj == child.fds[fd]
  IN  /\ child.pc = IF fd = 1 THEN "write1" ELSE "write2"
      /\ IF obj = "w" /\ ~Readers
         THEN child' = Ended(13) /\ UNCHANGED <<pipe, wrote>>
         ELSE /\ obj = "w" => Len(pipe) < PipeSize
              /\ pipe' = IF obj = "w" THEN Append(pipe, child.count) ELSE pipe
              /\ wrote' = IF fd = 1 THEN Append(wrote, child.count) ELSE wrote
              /\ child' = [child EXCEPT !.pc = "running"]
      /\ UNCHANGED <<cmd, fds0, parent, data, result, lost>>

Exit(code) ==
  /\ child.pc = "running"
  /\ child' = Ended((code % 256) * 256)
  /\ UNCHANGED <<cmd, fds0, parent, pipe, data, result, wrote, lost>>

Child ==
  \/ CloseRead \/ SysDup2 \/ SysExecve
  \/ \E fd \in 1..2 : BeginWrite(fd) \/ EndWrite(fd)
  \/ \E code \in Codes : Exit(code)

\* A signal from outside ends the program.
Killed ==
  /\ child.pc \in {"running", "write1", "write2"}
  /\ child' = Ended(9)
  /\ UNCHANGED <<cmd, fds0, parent, pipe, data, result, wrote, lost>>

Next == Parent \/ CallFails \/ Child \/ Killed

\* Both processes are scheduled; a program writes so much and exits.  Nothing
\* is counted on to fail or to be killed.
Spec == Init /\ [][Next]_vars /\ WF_vars(Parent) /\ WF_vars(Child)

-----------------------------------------------------------------------------
TypeOK ==
  /\ cmd \in [op : {"Run", "Output"}, stdin : Fd \cup {NoFile},
              stdout : Fd \cup {NoFile}, stderr : Fd \cup {NoFile}]
  /\ fds0 \in [Fd -> Object]
  /\ parent.fds \in [Fd -> Object]
  /\ child.fds \in [Fd -> Object]
  /\ Len(pipe) <= PipeSize
  /\ result \in -1..255
  /\ lost \in BOOLEAN

\* No file of the Cmd is a descriptor that is redirected before it is used.
InOrder ==
  /\ cmd.stdin # NoFile => cmd.stdout # 0 /\ cmd.stderr # 0
  /\ cmd.stdout # NoFile => cmd.stderr # 1

\* What descriptor std of the program should be: the file asked for, the pipe,
\* or what the parent has there.
Asked(std) ==
  LET file == CASE std = 0 -> cmd.stdin [] std = 1 -> cmd.stdout [] std = 2 -> cmd.stderr
  IN  IF cmd.op = "Output" /\ std = 1 THEN "w"
      ELSE fds0[IF file = NoFile THEN std ELSE file]

\* The program starts with the files the Cmd names at 0, 1 and 2, wherever the
\* pipe came to lie among the parent's descriptors.
RedirectedAsAsked ==
  child.pc = "running" /\ InOrder =>
    \A std \in Std : Asked(std) # Closed => child.fds[std] = Asked(std)

\* The write end of the pipe is the standard error of the program: the parent
\* had none, and the end, which the child does not close, got its number.
PipeIsStderr == parent.wr = 2 /\ cmd.stderr = NoFile

\* Output returns every byte the program wrote to its standard output, in
\* order, and nothing else, however the program ended, unless a read failed.
OutputComplete ==
  parent.pc = "done" /\ cmd.op = "Output" /\ child.pc \in {"reaped", "zombie"} =>
    (InOrder /\ ~PipeIsStderr /\ ~lost => data = wrote)

\* Run and Output leave the descriptors of the caller as they were, on every
\* way out.
DescriptorsRestored == parent.pc = "done" => parent.fds = fds0

\* An error of the program is never taken for a success: nil is returned only
\* when the program ended with code 0 or was killed.
NilMeansSuccess ==
  parent.pc = "done" /\ result = 0 =>
    child.pc = "reaped" /\ child.status \in 0..127

\* Run and Output return, also when the pipe fills up, when a read fails while
\* the program still writes, and when the program is killed.
Returns == <>(parent.pc = "done")
=============================================================================
