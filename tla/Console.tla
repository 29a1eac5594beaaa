------------------------------- MODULE Console -------------------------------
(***************************************************************************)
(* The command interpreter of "Linked List Lab/console.c": files of        *)
(* commands that may name further files, read through buffers that a read  *)
(* fills up to any point, and the ways to stop: the end of the input, the  *)
(* quit command, too many errors.                                          *)
(***************************************************************************)
EXTENDS Naturals, Sequences, FiniteSets, SequencesExt

CONSTANTS
    MainCommands,  \* what the lines of the first file may be
    SubCommands,   \* what those of the file it names may be
    MaxMain, MaxSub, \* bounds: the lines of these files
    ErrLimit       \* err_limit, unless a command lowers it

\* "timed x" is x behind the command time; "bad" is any command that fails or
\* does not exist, "ok" any that succeeds and leaves the interpreter alone.
Kinds == {"ok", "bad", "timed bad", "quit", "timed quit", "source", "limit"}

ASSUME ConsoleAssumption ==
    /\ MainCommands \subseteq Kinds
    /\ SubCommands \subseteq Kinds \ {"source"}
    /\ {MaxMain, MaxSub} \subseteq Nat
    /\ ErrLimit \in Nat \ {0}

VARIABLES
    script,     \* for both files, the lines and whether the last is terminated
    buf_stack,  \* the open files, the latest first
    linebuf,    \* the line that readline has read so far
    quit_flag, err_cnt, err_limit,
    freed,      \* cmd_list and param_list have been freed
    pc,
    exit,       \* how main has ended
    executed,   \* history: the lines that were interpreted
    helped      \* history: what the quit helpers have returned

files == <<script, buf_stack, linebuf>>
flags == <<quit_flag, err_cnt, err_limit, freed>>
vars  == <<files, flags, pc, exit, executed, helped>>

Newline == 0
NoLine  == 0

Files(commands, length) ==
    [lines : UNION {[1 .. n -> commands] : n \in 0 .. length}, terminated : BOOLEAN]

\* The text of a file: the number of a line stands for its characters.
Text(f) ==
    LET n == Len(script[f].lines)
    IN  [i \in 1 .. (IF script[f].terminated \/ n = 0 THEN 2 * n ELSE 2 * n - 1) |->
            IF i % 2 = 1 THEN (i + 1) \div 2 ELSE Newline]

Opened(f) == [file |-> f, buf |-> << >>, unread |-> Text(f)]

\* init_cmd, and the push_file of run_console.
Init ==
    /\ script \in [main : Files(MainCommands, MaxMain), sub : Files(SubCommands, MaxSub)]
    /\ buf_stack = <<Opened("main")>>
    /\ linebuf = [file |-> "main", number |-> NoLine]
    /\ quit_flag = FALSE /\ err_cnt = 0 /\ err_limit = ErrLimit
    /\ freed = FALSE
    /\ pc = "select" /\ exit = "no"
    /\ executed = << >> /\ helped = << >>

read_ready == buf_stack # << >> /\ Contains(Head(buf_stack).buf, Newline)

cmd_done == buf_stack = << >> \/ quit_flag

\* cmd_select takes complete lines out of the buffer first, even after a quit,
\* and waits for the file to be readable only if there is none.
CmdSelect ==
    /\ pc = "select"
    /\ pc' = IF read_ready \/ ~cmd_done THEN "readline" ELSE "leave"
    /\ UNCHANGED <<files, flags, exit, executed, helped>>

-----------------------------------------------------------------------------
(* readline, which reads on until it has a line.                             *)

Top == Head(buf_stack)

Read ==
    /\ pc = "readline" /\ Top.buf = << >>
    /\ \E n \in 1 .. Len(Top.unread) :
         buf_stack' = [buf_stack EXCEPT ![1].buf = SubSeq(Top.unread, 1, n),
                                        ![1].unread = SubSeq(@, n + 1, Len(@))]
    /\ UNCHANGED <<script, linebuf, flags, pc, exit, executed, helped>>

TakeCharacters ==
    /\ pc = "readline" /\ Top.buf # << >>
    /\ buf_stack' = [buf_stack EXCEPT ![1].buf = Tail(@)]
    /\ IF Head(Top.buf) = Newline
       THEN pc' = "interpret" /\ UNCHANGED linebuf
       ELSE linebuf' = [file |-> Top.file, number |-> Head(Top.buf)] /\ UNCHANGED pc
    /\ UNCHANGED <<script, flags, exit, executed, helped>>

\* Faulty: the file is not taken off the stack.
KeepFile == UNCHANGED buf_stack

pop_file == buf_stack' = Tail(buf_stack)

\* What was read of a last line without newline is a line, too.
EndOfFile ==
    /\ pc = "readline" /\ Top.buf = << >> /\ Top.unread = << >>
    /\ pop_file
    /\ pc' = IF linebuf.number = NoLine THEN "select" ELSE "interpret"
    /\ UNCHANGED <<script, linebuf, flags, exit, executed, helped>>

-----------------------------------------------------------------------------
(* Commands.                                                                 *)

\* n calls of record_error.
RecordErrors(n) ==
    /\ err_cnt' = err_cnt + n
    /\ quit_flag' = (quit_flag \/ err_cnt + n >= err_limit)

\* do_quit_cmd.
DoQuit ==
    /\ freed' = TRUE
    /\ buf_stack' = << >>
    /\ \E ok \in BOOLEAN : helped' = Append(helped, ok)
    /\ quit_flag' = TRUE

\* interpret_cmda counts a command that failed; do_time_cmd calls it for the
\* timed command and is then itself counted by it.
Errors(command) == IF command \in {"timed bad", "timed quit"} THEN 2 ELSE 1

Quit(command) ==
    /\ command \in {"quit", "timed quit"}
    /\ DoQuit
    /\ err_cnt' = IF Last(helped') THEN err_cnt ELSE err_cnt + Errors(command)
    /\ UNCHANGED err_limit

Fail(command) ==
    /\ command \in {"bad", "timed bad"}
    /\ RecordErrors(Errors(command))
    /\ UNCHANGED <<buf_stack, err_limit, freed, helped>>

\* Faulty: the new file is read when the others have been.
SourceLast(command) ==
    /\ command = "source"
    /\ buf_stack' = Append(buf_stack, Opened("sub"))
    /\ UNCHANGED <<flags, helped>>

\* do_source_cmd and push_file.
Source(command) ==
    /\ command = "source"
    /\ buf_stack' = <<Opened("sub")>> \o buf_stack
    /\ UNCHANGED <<flags, helped>>

\* "option error 1"; an error count that is at the new limit already does not stop.
Option(command) ==
    /\ command = "limit"
    /\ err_limit' = 1
    /\ UNCHANGED <<buf_stack, quit_flag, err_cnt, freed, helped>>

Succeed(command) ==
    /\ command = "ok"
    /\ UNCHANGED <<buf_stack, flags, helped>>

CommandAt(l) == script[l.file].lines[l.number]

Execute ==
    /\ \/ Quit(CommandAt(linebuf))
       \/ Fail(CommandAt(linebuf))
       \/ Source(CommandAt(linebuf))
       \/ Option(CommandAt(linebuf))
       \/ Succeed(CommandAt(linebuf))
    /\ executed' = Append(executed, linebuf)

\* Faulty: a line is executed even when the interpreter has been stopped.
InterpretAlways ==
    /\ pc = "interpret"
    /\ Execute
    /\ linebuf' = [linebuf EXCEPT !.number = NoLine]
    /\ pc' = "select"
    /\ UNCHANGED <<script, exit>>

\* interpret_cmd.
Interpret ==
    /\ pc = "interpret"
    /\ IF quit_flag THEN UNCHANGED <<buf_stack, flags, executed, helped>> ELSE Execute
    /\ linebuf' = [linebuf EXCEPT !.number = NoLine]
    /\ pc' = "select"
    /\ UNCHANGED <<script, exit>>

\* Faulty: finish_cmd quits without asking whether that was done.
LeaveTwice ==
    /\ pc = "leave"
    /\ pc' = "exit"
    /\ IF err_cnt > 0
       THEN exit' = "failure" /\ UNCHANGED <<buf_stack, flags, helped>>
       ELSE /\ DoQuit
            /\ exit' = IF Last(helped') THEN "success" ELSE "failure"
            /\ UNCHANGED <<err_cnt, err_limit>>
    /\ UNCHANGED <<script, linebuf, executed>>

\* Faulty: after a quit the errors are not looked at.
LeaveUncounted ==
    /\ pc = "leave"
    /\ pc' = "exit"
    /\ IF quit_flag
       THEN exit' = "success" /\ UNCHANGED <<buf_stack, flags, helped>>
       ELSE /\ DoQuit
            /\ exit' = IF Last(helped') THEN "success" ELSE "failure"
            /\ UNCHANGED <<err_cnt, err_limit>>
    /\ UNCHANGED <<script, linebuf, executed>>

\* The end of run_console and main: finish_cmd is called if there was no error,
\* and runs the quit helpers unless the quit command has done so.
Leave ==
    /\ pc = "leave"
    /\ pc' = "exit"
    /\ IF err_cnt > 0 \/ quit_flag
       THEN /\ exit' = IF err_cnt > 0 THEN "failure" ELSE "success"
            /\ UNCHANGED <<buf_stack, flags, helped>>
       ELSE /\ DoQuit
            /\ exit' = IF Last(helped') THEN "success" ELSE "failure"
            /\ UNCHANGED <<err_cnt, err_limit>>
    /\ UNCHANGED <<script, linebuf, executed>>

Next == CmdSelect \/ Read \/ TakeCharacters \/ EndOfFile \/ Interpret \/ Leave

Ended == pc = "exit" /\ UNCHANGED vars

Spec == Init /\ [][Next \/ Ended]_vars

\* The interpreter runs, and its input is there when it asks for it.
FairSpec == Spec /\ WF_vars(Next)

-----------------------------------------------------------------------------
(* Properties.                                                               *)

\* The variables have their types: at most two files are open, and an error over
\* the limit is at most the second one that a timed command is counted for.
TypeOK ==
    /\ Len(buf_stack) <= 2
    /\ {quit_flag, freed} \subseteq BOOLEAN
    /\ err_cnt \in 0 .. ErrLimit + 1
    /\ err_limit \in {1, ErrLimit}
    /\ pc \in {"select", "readline", "interpret", "leave", "exit"}
    /\ exit \in {"no", "success", "failure"}

\* The lines in the order in which they are to be executed: after a line that
\* names a file come the lines of that file.
Expansion ==
    LET Lines(f) == [i \in DOMAIN script[f].lines |-> [file |-> f, number |-> i]]
        Expand(l) == <<l>> \o (IF CommandAt(l) = "source" THEN Lines("sub") ELSE << >>)
    IN  FlattenSeq([i \in DOMAIN Lines("main") |-> Expand(Lines("main")[i])])

Quits  == {i \in DOMAIN executed : CommandAt(executed[i]) \in {"quit", "timed quit"}}
Failed == {i \in DOMAIN executed : CommandAt(executed[i]) \in {"bad", "timed bad"}}
Lowers == {i \in DOMAIN executed : CommandAt(executed[i]) = "limit"}

\* However the reads cut the files, each line is executed once and in its place,
\* and none is left out unless the interpreter was told to stop.
ExecutedInOrder ==
    /\ TypeOK
    /\ IsPrefix(executed, Expansion)
    /\ exit # "no" /\ Quits = {} /\ ~(quit_flag /\ err_cnt > 0) => executed = Expansion

\* Nothing is executed after a quit, or once as many commands have failed as
\* the limit allows, or after the first failure under a lowered limit of one,
\* although the lines in the buffer are still taken.
StopsInTime ==
    /\ Quits \subseteq {Len(executed)}
    /\ Cardinality(Failed) <= ErrLimit
    /\ Cardinality(Failed) = ErrLimit => Len(executed) \in Failed
    /\ \A i \in Lowers, j \in Failed : i < j => j = Len(executed)

\* The lists of commands and parameters, freed by do_quit_cmd without being set
\* to NULL, are neither searched nor freed again; the helpers run once at most.
ListsUsedAlive ==
    /\ pc = "interpret" /\ ~quit_flag => ~freed
    /\ Len(helped) <= 1
    /\ freed = (helped # << >>)

\* main returns 0 exactly if every command succeeded and the quit helpers ran
\* and found nothing; then all files are closed.
ExitStatus ==
    /\ exit = "success" => /\ Failed = {} /\ helped = <<TRUE>>
                           /\ buf_stack = << >>
    /\ exit = "failure" => Failed # {} \/ helped = <<FALSE>>

\* Every script, read to its end or not, comes to an end.
InputEnds == <>(exit # "no")
=============================================================================
