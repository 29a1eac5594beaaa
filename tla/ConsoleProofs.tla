---------------------------- MODULE ConsoleProofs ----------------------------
(***************************************************************************)
(* Proofs about the command interpreter of console.c (Console), for files  *)
(* of any length with any commands, any error limit and any cut of the     *)
(* input by the reads.                                                     *)
(***************************************************************************)
EXTENDS Console, WindowProofs, FiniteSetTheorems, TLAPS

-----------------------------------------------------------------------------
(***************************************************************************)
(* How the interpreter stops. The invariant ties the flags, the stack of   *)
(* files and the counters to the place that the control has reached.       *)
(***************************************************************************)
FileNames == {"main", "sub"}
LineRefs  == [file : FileNames, number : Nat]
OpenFiles == [file : FileNames, buf : Seq(Nat), unread : Seq(Nat)]
Scripts   == [main : Files(MainCommands, MaxMain), sub : Files(SubCommands, MaxSub)]

Typed ==
    /\ script \in Scripts
    /\ buf_stack \in Seq(OpenFiles)
    /\ linebuf \in LineRefs /\ executed \in Seq(LineRefs)
    /\ quit_flag \in BOOLEAN
    /\ err_cnt \in Nat /\ err_cnt <= ErrLimit + 1
    /\ err_limit \in {1, ErrLimit}
    /\ freed \in BOOLEAN
    /\ pc \in {"select", "readline", "interpret", "leave", "exit"}
    /\ exit \in {"no", "success", "failure"}

\* A file is open where a line is read, none is when the run is over.
PlaceOK ==
    /\ pc = "readline" => buf_stack # << >>
    /\ pc = "leave" => buf_stack = << >> \/ quit_flag
    /\ exit = "no" <=> pc # "exit"

\* What do_quit_cmd leaves, which runs once.
QuitOK ==
    /\ helped \in {<< >>, <<TRUE>>, <<FALSE>>}
    /\ freed <=> helped # << >>
    /\ freed => quit_flag /\ buf_stack = << >>

\* The errors counted, against the commands that failed.
CountOK ==
    /\ ~quit_flag => err_cnt < ErrLimit /\ Quits = {}
    /\ Quits \subseteq {Len(executed)}
    /\ IsFiniteSet(Failed)
    /\ Cardinality(Failed) <= err_cnt /\ Cardinality(Failed) <= ErrLimit
    /\ Cardinality(Failed) = ErrLimit => Len(executed) \in Failed
    /\ Failed \subseteq DOMAIN executed

\* What the exit status will be made from.
StatusOK ==
    /\ pc # "exit" => /\ err_cnt > 0 => Failed # {} \/ helped = <<FALSE>>
                      /\ Failed # {} \/ helped = <<FALSE>> => err_cnt > 0
                      /\ quit_flag => err_cnt > 0 \/ helped = <<TRUE>>
    /\ pc = "exit" => ExitStatus

StopInv == Typed /\ PlaceOK /\ QuitOK /\ CountOK /\ StatusOK

-----------------------------------------------------------------------------
(* The files, and the histories as sets of indices.                          *)

LEMMA LinesOfAFile ==
    ASSUME NEW C \in SUBSET Kinds, NEW max \in Nat, NEW file \in Files(C, max)
    PROVE  file.lines \in Seq(C) /\ file.terminated \in BOOLEAN
<1>1. PICK n \in 0 .. max : file.lines \in [1 .. n -> C]
  BY DEF Files
<1>2. n \in Nat
  OBVIOUS
<1>3. QED
  BY <1>1, <1>2, SeqDef DEF Files

LEMMA ScriptLines ==
    ASSUME NEW sc \in Scripts
    PROVE  /\ sc["sub"].lines \in Seq(SubCommands)
           /\ \A f \in FileNames : /\ sc[f].lines \in Seq(Kinds)
                                   /\ Len(sc[f].lines) \in Nat
                                   /\ sc[f].terminated \in BOOLEAN
<1>1. /\ MainCommands \in SUBSET Kinds /\ SubCommands \in SUBSET Kinds
      /\ MaxMain \in Nat /\ MaxSub \in Nat
  BY ConsoleAssumption
<1>2. sc.main \in Files(MainCommands, MaxMain) /\ sc.sub \in Files(SubCommands, MaxSub)
  BY DEF Scripts
<1>3. /\ sc.main.lines \in Seq(MainCommands) /\ sc.main.terminated \in BOOLEAN
      /\ sc.sub.lines \in Seq(SubCommands) /\ sc.sub.terminated \in BOOLEAN
  BY <1>1, <1>2, LinesOfAFile
<1>4. sc.main.lines \in Seq(Kinds) /\ sc.sub.lines \in Seq(Kinds)
  BY <1>1, <1>3, SeqMonotonic
<1>5. sc["main"] = sc.main /\ sc["sub"] = sc.sub
  OBVIOUS
<1>6. \A f \in FileNames : f = "main" \/ f = "sub"
  BY DEF FileNames
<1>7. QED
  BY <1>3, <1>4, <1>5, <1>6, LenProperties

\* The characters of a file as they are in the script: two for each line, but
\* the newline that may lack.
Chars(file) ==
    LET n == Len(file.lines)
    IN  [i \in 1 .. (IF file.terminated \/ n = 0 THEN 2 * n ELSE 2 * n - 1) |->
            IF i % 2 = 1 THEN (i + 1) \div 2 ELSE Newline]

LEMMA TextFacts ==
    ASSUME NEW sc \in Scripts, NEW f \in FileNames
    PROVE  /\ Chars(sc[f]) \in Seq(Nat)
           /\ LET n == Len(sc[f].lines)
                  t == Len(Chars(sc[f]))
              IN  /\ n \in Nat /\ t \in Nat
                  /\ t = 2 * n \/ t = 2 * n - 1
                  /\ \A i \in 1 .. t :
                       Chars(sc[f])[i] = IF i % 2 = 1 THEN (i + 1) \div 2 ELSE Newline
<1> DEFINE n == Len(sc[f].lines)
           t == IF sc[f].terminated \/ n = 0 THEN 2 * n ELSE 2 * n - 1
           g == [i \in 1 .. t |-> IF i % 2 = 1 THEN (i + 1) \div 2 ELSE Newline]
<1>1. n \in Nat
  BY ScriptLines
<1>2. g = Chars(sc[f]) /\ n = Len(sc[f].lines)
  BY DEF Chars
<1> HIDE DEF n
<1>3. t \in Nat /\ (t = 2 * n \/ t = 2 * n - 1)
  BY <1>1
<1> HIDE DEF t
<1>4. g \in [1 .. t -> Nat]
  <2>1. \A i \in 1 .. t : (IF i % 2 = 1 THEN (i + 1) \div 2 ELSE Newline) \in Nat
    BY <1>3 DEF Newline
  <2>2. QED
    BY <2>1
<1>5. \A i \in 1 .. t : g[i] = IF i % 2 = 1 THEN (i + 1) \div 2 ELSE Newline
  OBVIOUS
<1> HIDE DEF g
<1>6. g \in Seq(Nat)
  BY <1>3, <1>4, SeqDef
<1>7. DOMAIN g = 1 .. t /\ DOMAIN g = 1 .. Len(g) /\ Len(g) \in Nat
  BY <1>4, <1>6, LenProperties
<1>8. Len(g) = t
  BY <1>3, <1>7
<1>9. QED
  BY <1>1, <1>2, <1>3, <1>5, <1>6, <1>8

LEMMA OpenedFile ==
    ASSUME script \in Scripts, NEW f \in FileNames
    PROVE  /\ Opened(f) \in OpenFiles /\ Opened(f).file = f
           /\ Opened(f).buf = << >> /\ Opened(f).unread = Chars(script[f])
<1>1. Text(f) = Chars(script[f])
  BY DEF Text, Chars
<1>2. Text(f) \in Seq(Nat) /\ << >> \in Seq(Nat)
  BY <1>1, TextFacts, EmptySeq
<1>3. QED
  BY <1>1, <1>2 DEF Opened, OpenFiles

\* A history that is not longer and refers to the same script.
LEMMA SameHistory ==
    ASSUME UNCHANGED <<script, executed>>
    PROVE  UNCHANGED <<Quits, Failed>>
BY DEF Quits, Failed, CommandAt

\* One more line in the history, of which the command says where it counts.
LEMMA LongerHistory ==
    ASSUME Typed, UNCHANGED script, executed' = Append(executed, linebuf)
    PROVE  /\ executed' \in Seq(LineRefs)
           /\ Len(executed') = Len(executed) + 1
           /\ Failed' = IF CommandAt(linebuf) \in {"bad", "timed bad"}
                        THEN Failed \cup {Len(executed')} ELSE Failed
           /\ Quits' = IF CommandAt(linebuf) \in {"quit", "timed quit"}
                       THEN Quits \cup {Len(executed')} ELSE Quits
           /\ Len(executed') \notin Failed
<1> DEFINE n == Len(executed)
<1>1. executed \in Seq(LineRefs) /\ linebuf \in LineRefs
  BY DEF Typed
<1>2. /\ executed' \in Seq(LineRefs) /\ Len(executed') = n + 1 /\ n \in Nat
      /\ \A i \in 1 .. n : executed'[i] = executed[i]
      /\ executed'[n + 1] = linebuf
  BY <1>1, AppendProperties, LenProperties
<1>3. DOMAIN executed = 1 .. n /\ DOMAIN executed' = 1 .. n + 1
  BY <1>1, <1>2, LenProperties
<1> DEFINE Cmd(l) == script[l.file].lines[l.number]
<1>4. /\ Failed' = {i \in DOMAIN executed' : Cmd(executed'[i]) \in {"bad", "timed bad"}}
      /\ Quits' = {i \in DOMAIN executed' : Cmd(executed'[i]) \in {"quit", "timed quit"}}
  BY DEF Failed, Quits, CommandAt
<1>5. /\ Failed = {i \in DOMAIN executed : Cmd(executed[i]) \in {"bad", "timed bad"}}
      /\ Quits = {i \in DOMAIN executed : Cmd(executed[i]) \in {"quit", "timed quit"}}
      /\ CommandAt(linebuf) = Cmd(linebuf)
  BY DEF Quits, Failed, CommandAt
<1>6. /\ \A i \in 1 .. n : Cmd(executed'[i]) = Cmd(executed[i])
      /\ Cmd(executed'[n + 1]) = Cmd(linebuf)
  BY <1>2
<1> HIDE DEF Cmd
<1>7. n = Len(executed)
  OBVIOUS
<1> HIDE DEF n
<1>8. 1 .. n + 1 = (1 .. n) \cup {n + 1} /\ n + 1 \notin 1 .. n
  BY <1>2
<1>9. Failed' = IF CommandAt(linebuf) \in {"bad", "timed bad"}
                THEN Failed \cup {n + 1} ELSE Failed
  BY <1>3, <1>4, <1>5, <1>6, <1>8
<1>10. Quits' = IF CommandAt(linebuf) \in {"quit", "timed quit"}
                THEN Quits \cup {n + 1} ELSE Quits
  BY <1>3, <1>4, <1>5, <1>6, <1>8
<1>11. n + 1 \notin Failed
  BY <1>3, <1>5, <1>8
<1>12. QED
  BY <1>2, <1>7, <1>9, <1>10, <1>11

-----------------------------------------------------------------------------
(* The invariant holds at first and every action keeps it.                   *)

LEMMA Limits == ErrLimit \in Nat /\ ErrLimit >= 1
BY ConsoleAssumption

LEMMA StopInit ==
    ASSUME Init
    PROVE  StopInv
<1>1. /\ script \in [main : Files(MainCommands, MaxMain), sub : Files(SubCommands, MaxSub)]
      /\ buf_stack = <<Opened("main")>> /\ executed = << >>
      /\ linebuf = [file |-> "main", number |-> NoLine]
      /\ quit_flag = FALSE /\ err_cnt = 0 /\ err_limit = ErrLimit /\ freed = FALSE
      /\ pc = "select" /\ exit = "no" /\ helped = << >>
  BY DEF Init
<1>2. script \in Scripts
  BY <1>1 DEF Scripts
<1>3. Opened("main") \in OpenFiles
  BY <1>2, OpenedFile DEF FileNames
<1>4. Typed
  <2>1. buf_stack \in Seq(OpenFiles)
    BY <1>1, <1>3
  <2>2. linebuf \in LineRefs
    BY <1>1 DEF LineRefs, FileNames, NoLine
  <2>3. executed \in Seq(LineRefs)
    BY <1>1, EmptySeq
  <2>4. err_cnt \in Nat /\ err_cnt <= ErrLimit + 1
    BY <1>1, Limits
  <2>5. QED
    BY <1>1, <1>2, <2>1, <2>2, <2>3, <2>4 DEF Typed
<1>5. PlaceOK
  BY <1>1 DEF PlaceOK
<1>6. QuitOK
  BY <1>1 DEF QuitOK
<1>7. Quits = {} /\ Failed = {}
  BY <1>1 DEF Quits, Failed
<1>8. CountOK
  BY <1>1, <1>7, Limits, FS_EmptySet DEF CountOK
<1>9. StatusOK
  BY <1>1, <1>7, Limits DEF StatusOK
<1>10. QED
  BY <1>4, <1>5, <1>6, <1>8, <1>9 DEF StopInv

LEMMA StopCmdSelect ==
    ASSUME StopInv, CmdSelect
    PROVE  StopInv'
<1>1. /\ pc = "select"
      /\ pc' = IF read_ready \/ ~cmd_done THEN "readline" ELSE "leave"
      /\ UNCHANGED <<script, buf_stack, linebuf, quit_flag, err_cnt, err_limit, freed,
                     exit, executed, helped>>
  BY DEF CmdSelect, files, flags
<1>2. UNCHANGED <<Quits, Failed>>
  BY <1>1, SameHistory
<1>3. Typed'
  BY <1>1 DEF StopInv, Typed
<1>4. PlaceOK'
  BY <1>1 DEF StopInv, PlaceOK, read_ready, cmd_done
<1>5. QuitOK'
  BY <1>1 DEF StopInv, QuitOK
<1>6. CountOK'
  BY <1>1, <1>2 DEF StopInv, CountOK
<1>7. StatusOK'
  BY <1>1, <1>2 DEF StopInv, StatusOK
<1>8. QED
  BY <1>3, <1>4, <1>5, <1>6, <1>7 DEF StopInv

\* What the three actions of readline have in common: they change the files
\* that are open, the line being read and the place only.
LEMMA StopReadline ==
    ASSUME StopInv, pc = "readline",
           UNCHANGED <<script, flags, exit, executed, helped>>,
           buf_stack' \in Seq(OpenFiles), linebuf' \in LineRefs,
           pc' \in {"select", "readline", "interpret"},
           pc' = "readline" => buf_stack' # << >>
    PROVE  StopInv'
<1>1. UNCHANGED <<script, quit_flag, err_cnt, err_limit, freed, exit, executed, helped>>
  BY DEF flags
<1>2. UNCHANGED <<Quits, Failed>>
  BY <1>1, SameHistory
<1>3. Typed'
  BY <1>1 DEF StopInv, Typed
<1>4. PlaceOK'
  BY <1>1 DEF StopInv, PlaceOK
<1>5. QuitOK'
  BY <1>1 DEF StopInv, QuitOK, PlaceOK
<1>6. CountOK'
  BY <1>1, <1>2 DEF StopInv, CountOK
<1>7. StatusOK'
  BY <1>1, <1>2 DEF StopInv, StatusOK
<1>8. QED
  BY <1>3, <1>4, <1>5, <1>6, <1>7 DEF StopInv

LEMMA TopFile ==
    ASSUME StopInv, pc = "readline"
    PROVE  /\ Top \in OpenFiles /\ Top = buf_stack[1]
           /\ Len(buf_stack) \in Nat /\ 1 \in 1 .. Len(buf_stack)
           /\ Tail(buf_stack) \in Seq(OpenFiles)
           /\ Top.buf \in Seq(Nat) /\ Top.unread \in Seq(Nat) /\ Top.file \in FileNames
<1>1. buf_stack \in Seq(OpenFiles) /\ buf_stack # << >>
  BY DEF StopInv, Typed, PlaceOK
<1>2. Head(buf_stack) \in OpenFiles /\ Tail(buf_stack) \in Seq(OpenFiles)
  BY <1>1, HeadTailProperties
<1>3. Len(buf_stack) \in Nat /\ Len(buf_stack) # 0
  BY <1>1, EmptySeq
<1>4. Head(buf_stack) = buf_stack[1]
  BY <1>1
<1>5. QED
  BY <1>2, <1>3, <1>4 DEF Top, OpenFiles

LEMMA StopRead ==
    ASSUME StopInv, Read
    PROVE  StopInv'
<1>1. PICK n \in 1 .. Len(Top.unread) :
        buf_stack' = [buf_stack EXCEPT ![1].buf = SubSeq(Top.unread, 1, n),
                                       ![1].unread = SubSeq(@, n + 1, Len(@))]
  BY DEF Read
<1>2. pc = "readline" /\ UNCHANGED <<script, linebuf, flags, pc, exit, executed, helped>>
  BY DEF Read
<1>3. /\ Top \in OpenFiles /\ Top = buf_stack[1]
      /\ Len(buf_stack) \in Nat /\ 1 \in 1 .. Len(buf_stack)
      /\ Top.unread \in Seq(Nat) /\ Top.file \in FileNames
  BY <1>2, TopFile
<1> DEFINE a == SubSeq(Top.unread, 1, n)
           b == SubSeq(Top.unread, n + 1, Len(Top.unread))
           e == [Top EXCEPT !.buf = a, !.unread = b]
<1>4. a \in Seq(Nat) /\ b \in Seq(Nat)
  <2>1. Len(Top.unread) \in Nat /\ n \in Int
    BY <1>3, LenProperties
  <2>2. \A i \in 1 .. Len(Top.unread) : Top.unread[i] \in Nat
    BY <1>3, ElementOfSeq
  <2>3. /\ \A i \in 1 .. n : Top.unread[i] \in Nat
        /\ \A i \in n + 1 .. Len(Top.unread) : Top.unread[i] \in Nat
    BY <2>1, <2>2
  <2>4. QED
    BY <2>1, <2>3, SubSeqProperties
<1>5. buf_stack \in Seq(OpenFiles)
  BY DEF StopInv, Typed
<1>6. buf_stack' = [buf_stack EXCEPT ![1] = e]
  BY <1>1, <1>3, <1>5
<1>7. e \in OpenFiles
  BY <1>3, <1>4 DEF OpenFiles
<1> HIDE DEF e
<1>8. buf_stack' \in Seq(OpenFiles) /\ Len(buf_stack') = Len(buf_stack)
  BY <1>3, <1>5, <1>6, <1>7, ExceptSeq
<1>9. buf_stack' # << >>
  BY <1>3, <1>8
<1>10. linebuf' \in LineRefs
  BY <1>2 DEF StopInv, Typed
<1>11. QED
  BY <1>2, <1>8, <1>9, <1>10, StopReadline

LEMMA StopTakeCharacters ==
    ASSUME StopInv, TakeCharacters
    PROVE  StopInv'
<1>1. /\ pc = "readline" /\ Top.buf # << >>
      /\ buf_stack' = [buf_stack EXCEPT ![1].buf = Tail(@)]
      /\ \/ pc' = "interpret" /\ UNCHANGED linebuf
         \/ linebuf' = [file |-> Top.file, number |-> Head(Top.buf)] /\ UNCHANGED pc
      /\ UNCHANGED <<script, flags, exit, executed, helped>>
  BY DEF TakeCharacters
<1>2. /\ Top \in OpenFiles /\ Top = buf_stack[1]
      /\ Len(buf_stack) \in Nat /\ 1 \in 1 .. Len(buf_stack)
      /\ Top.buf \in Seq(Nat) /\ Top.file \in FileNames
  BY <1>1, TopFile
<1>3. Head(Top.buf) \in Nat /\ Tail(Top.buf) \in Seq(Nat)
  BY <1>1, <1>2, HeadTailProperties
<1> DEFINE e == [Top EXCEPT !.buf = Tail(Top.buf)]
<1>4. buf_stack \in Seq(OpenFiles)
  BY DEF StopInv, Typed
<1>5. buf_stack' = [buf_stack EXCEPT ![1] = e]
  BY <1>1, <1>2, <1>4
<1>6. e \in OpenFiles
  BY <1>2, <1>3 DEF OpenFiles
<1> HIDE DEF e
<1>7. buf_stack' \in Seq(OpenFiles) /\ Len(buf_stack') = Len(buf_stack)
  BY <1>2, <1>4, <1>5, <1>6, ExceptSeq
<1>8. buf_stack' # << >>
  BY <1>2, <1>7
<1>9. linebuf' \in LineRefs
  BY <1>1, <1>2, <1>3 DEF StopInv, Typed, LineRefs
<1>10. QED
  BY <1>1, <1>7, <1>8, <1>9, StopReadline

LEMMA StopEndOfFile ==
    ASSUME StopInv, EndOfFile
    PROVE  StopInv'
<1>1. /\ pc = "readline" /\ buf_stack' = Tail(buf_stack)
      /\ pc' \in {"select", "interpret"}
      /\ UNCHANGED <<script, linebuf, flags, exit, executed, helped>>
  BY DEF EndOfFile, pop_file
<1>2. buf_stack' \in Seq(OpenFiles)
  BY <1>1, TopFile
<1>3. linebuf' \in LineRefs
  BY <1>1 DEF StopInv, Typed
<1>4. QED
  BY <1>1, <1>2, <1>3, StopReadline

LEMMA BelowLimit ==
    \A c, e, m \in Nat : c <= e /\ e < m => c <= m /\ c # m /\ c + 1 <= m
OBVIOUS

LEMMA LongerInterval ==
    \A n \in Nat : 1 .. n \subseteq 1 .. n + 1 /\ n + 1 \in 1 .. n + 1
OBVIOUS

\* A command that is not counted as failed and does not quit.
LEMMA StopHarmless ==
    ASSUME StopInv, pc = "interpret", ~quit_flag,
           CommandAt(linebuf) \notin {"bad", "timed bad", "quit", "timed quit"},
           executed' = Append(executed, linebuf),
           linebuf' = [linebuf EXCEPT !.number = NoLine], pc' = "select",
           UNCHANGED <<script, exit, quit_flag, err_cnt, freed, helped>>,
           buf_stack' \in Seq(OpenFiles), err_limit' \in {1, ErrLimit}
    PROVE  StopInv'
<1>1. /\ executed' \in Seq(LineRefs)
      /\ Failed' = Failed /\ Quits' = Quits
      /\ Len(executed') = Len(executed) + 1
      /\ executed \in Seq(LineRefs)
  BY LongerHistory DEF StopInv, Typed
<1>2. /\ Len(executed) \in Nat
      /\ DOMAIN executed = 1 .. Len(executed) /\ DOMAIN executed' = 1 .. Len(executed')
  BY <1>1, LenProperties
<1>3. linebuf' \in LineRefs
  BY DEF StopInv, Typed, LineRefs, NoLine
<1>4. Typed'
  BY <1>1, <1>3 DEF StopInv, Typed
<1>5. PlaceOK'
  BY DEF StopInv, PlaceOK
<1>6. QuitOK'
  BY DEF StopInv, QuitOK
<1>7. CountOK'
  <2>1. /\ ~quit_flag' /\ err_cnt' = err_cnt /\ err_cnt < ErrLimit /\ Quits = {}
        /\ IsFiniteSet(Failed) /\ Cardinality(Failed) <= err_cnt
        /\ Failed \subseteq DOMAIN executed
    BY DEF StopInv, CountOK
  <2>2. Cardinality(Failed) \in Nat /\ err_cnt \in Nat
    BY <2>1, FS_CardinalityType DEF StopInv, Typed
  <2>3. Cardinality(Failed) <= ErrLimit /\ Cardinality(Failed) # ErrLimit
    BY <2>1, <2>2, Limits, BelowLimit
  <2>4. DOMAIN executed \subseteq DOMAIN executed'
    BY <1>1, <1>2, LongerInterval, Zenon
  <2>5. QED
    BY <1>1, <2>1, <2>3, <2>4 DEF CountOK
<1>8. StatusOK'
  BY <1>1 DEF StopInv, StatusOK
<1>9. QED
  BY <1>4, <1>5, <1>6, <1>7, <1>8 DEF StopInv

LEMMA StopFail ==
    ASSUME StopInv, Interpret, ~quit_flag, Fail(CommandAt(linebuf))
    PROVE  StopInv'
<1> DEFINE n == Errors(CommandAt(linebuf))
<1>1. /\ pc = "interpret" /\ pc' = "select"
      /\ executed' = Append(executed, linebuf)
      /\ linebuf' = [linebuf EXCEPT !.number = NoLine]
      /\ UNCHANGED <<script, exit>>
  BY DEF Interpret, Execute
<1>2. /\ CommandAt(linebuf) \in {"bad", "timed bad"}
      /\ err_cnt' = err_cnt + n
      /\ quit_flag' = (quit_flag \/ err_cnt + n >= err_limit)
      /\ UNCHANGED <<buf_stack, err_limit, freed, helped>>
  BY DEF Fail, RecordErrors
<1>3. n \in {1, 2}
  BY DEF Errors
<1> HIDE DEF n
<1>4. /\ executed' \in Seq(LineRefs) /\ executed \in Seq(LineRefs)
      /\ Failed' = Failed \cup {Len(executed')} /\ Len(executed') \notin Failed
      /\ Quits' = Quits
      /\ Len(executed') = Len(executed) + 1
  <2>1. CommandAt(linebuf) \notin {"quit", "timed quit"}
    BY <1>2
  <2>2. QED
    BY <1>1, <1>2, <2>1, LongerHistory DEF StopInv, Typed
<1>5. /\ Len(executed) \in Nat
      /\ DOMAIN executed = 1 .. Len(executed) /\ DOMAIN executed' = 1 .. Len(executed')
  BY <1>4, LenProperties
<1>6. /\ err_cnt \in Nat /\ err_cnt < ErrLimit /\ Quits = {}
      /\ IsFiniteSet(Failed) /\ Cardinality(Failed) <= err_cnt
      /\ Failed \subseteq DOMAIN executed /\ err_limit \in {1, ErrLimit}
  BY DEF StopInv, CountOK, Typed
<1>7. Cardinality(Failed) \in Nat
  BY <1>6, FS_CardinalityType
<1>8. IsFiniteSet(Failed') /\ Cardinality(Failed') = Cardinality(Failed) + 1
  BY <1>4, <1>6, FS_AddElement
<1>9. /\ err_cnt' \in Nat /\ err_cnt' <= ErrLimit + 1 /\ err_cnt' > 0
      /\ Cardinality(Failed') <= err_cnt' /\ Cardinality(Failed') <= ErrLimit
      /\ quit_flag' \in BOOLEAN
      /\ ~quit_flag' => err_cnt' < ErrLimit
  <2>1. err_cnt' = err_cnt + 1 \/ err_cnt' = err_cnt + 2
    BY <1>2, <1>3
  <2>2. /\ err_cnt' \in Nat /\ err_cnt' <= ErrLimit + 1 /\ err_cnt' > 0
        /\ err_cnt + 1 <= err_cnt'
    BY <1>6, <2>1, Limits
  <2>3. Cardinality(Failed) + 1 <= ErrLimit
    BY <1>6, <1>7, Limits, BelowLimit
  <2>4. \A c, e, f \in Nat : c <= e /\ e + 1 <= f => c + 1 <= f
    OBVIOUS
  <2>5. Cardinality(Failed) + 1 <= err_cnt'
    BY <1>6, <1>7, <2>2, <2>4
  <2>6. quit_flag' = (quit_flag \/ err_cnt' >= err_limit)
    BY <1>2
  <2>7. ~quit_flag' => err_cnt' < ErrLimit
    <3>1. SUFFICES ASSUME ~quit_flag'
                   PROVE  err_cnt' < ErrLimit
      OBVIOUS
    <3>2. ~(err_cnt' >= err_limit)
      BY <2>6, <3>1, Zenon
    <3>3. err_cnt' \in Nat /\ err_limit \in {1, ErrLimit} /\ ErrLimit \in Nat /\ ErrLimit >= 1
      BY <1>6, <2>2, Limits
    <3>4. QED
      BY <3>2, <3>3
  <2>8. QED
    BY <1>8, <2>2, <2>3, <2>5, <2>6, <2>7
<1>10. linebuf' \in LineRefs
  BY <1>1 DEF StopInv, Typed, LineRefs, NoLine
<1>11. Typed'
  BY <1>1, <1>2, <1>4, <1>9, <1>10 DEF StopInv, Typed
<1>12. PlaceOK'
  BY <1>1, <1>2 DEF StopInv, PlaceOK
<1>13. QuitOK'
  BY <1>2 DEF StopInv, QuitOK
<1>14. CountOK'
  <2>1. Failed' \subseteq DOMAIN executed'
    BY <1>4, <1>5, <1>6
  <2>2. QED
    BY <1>4, <1>6, <1>8, <1>9, <2>1 DEF CountOK
<1>15. StatusOK'
  BY <1>1, <1>4, <1>9 DEF StopInv, StatusOK
<1>16. QED
  BY <1>11, <1>12, <1>13, <1>14, <1>15 DEF StopInv

LEMMA StopQuit ==
    ASSUME StopInv, Interpret, ~quit_flag, Quit(CommandAt(linebuf))
    PROVE  StopInv'
<1>1. /\ pc = "interpret" /\ pc' = "select"
      /\ executed' = Append(executed, linebuf)
      /\ linebuf' = [linebuf EXCEPT !.number = NoLine]
      /\ UNCHANGED <<script, exit>>
  BY DEF Interpret, Execute
<1>2. PICK ok \in BOOLEAN : helped' = Append(helped, ok)
  BY DEF Quit, DoQuit
<1>3. /\ CommandAt(linebuf) \in {"quit", "timed quit"}
      /\ freed' = TRUE /\ buf_stack' = << >> /\ quit_flag' = TRUE
      /\ err_cnt' = IF Last(helped') THEN err_cnt ELSE err_cnt + Errors(CommandAt(linebuf))
      /\ UNCHANGED err_limit
  BY DEF Quit, DoQuit
<1>4. helped = << >>
  BY DEF StopInv, QuitOK
<1>5. helped' = <<ok>> /\ Last(helped') = ok
  BY <1>2, <1>4 DEF Last
<1>6. Errors(CommandAt(linebuf)) \in {1, 2}
  BY DEF Errors
<1>7. err_cnt' \in {err_cnt, err_cnt + 1, err_cnt + 2} /\ (err_cnt' # err_cnt => ~ok)
  <2>1. CASE ok
    BY <1>3, <1>5, <2>1
  <2>2. CASE ~ok
    BY <1>3, <1>5, <1>6, <2>2
  <2>3. QED
    BY <2>1, <2>2
<1>8. ~ok => err_cnt' \in {err_cnt + 1, err_cnt + 2}
  <2>1. SUFFICES ASSUME ~ok
                 PROVE  err_cnt' \in {err_cnt + 1, err_cnt + 2}
    OBVIOUS
  <2>2. err_cnt' = err_cnt + Errors(CommandAt(linebuf))
    BY <1>3, <1>5, <2>1, Zenon
  <2>3. QED
    BY <1>6, <2>2
<1>9. (ok => helped' = <<TRUE>>) /\ (~ok => helped' = <<FALSE>>)
  <2>1. ASSUME ok PROVE helped' = <<TRUE>>
    <3>1. ok = TRUE
      BY <1>2, <2>1
    <3>2. QED
      BY <1>5, <3>1, Zenon
  <2>2. ASSUME ~ok PROVE helped' = <<FALSE>>
    <3>1. ok = FALSE
      BY <1>2, <2>2
    <3>2. QED
      BY <1>5, <3>1, Zenon
  <2>3. QED
    BY <2>1, <2>2
<1>10. /\ executed' \in Seq(LineRefs) /\ executed \in Seq(LineRefs)
       /\ Failed' = Failed /\ Quits' = Quits \cup {Len(executed')}
       /\ Len(executed') = Len(executed) + 1
  <2>1. CommandAt(linebuf) \notin {"bad", "timed bad"}
    BY <1>3
  <2>2. QED
    BY <1>1, <1>3, <2>1, LongerHistory DEF StopInv, Typed
<1>11. /\ Len(executed) \in Nat
       /\ DOMAIN executed = 1 .. Len(executed) /\ DOMAIN executed' = 1 .. Len(executed')
  BY <1>10, LenProperties
<1>12. /\ err_cnt \in Nat /\ err_cnt < ErrLimit /\ Quits = {}
       /\ IsFiniteSet(Failed) /\ Cardinality(Failed) <= err_cnt
       /\ Failed \subseteq DOMAIN executed
  BY DEF StopInv, CountOK, Typed
<1>13. Cardinality(Failed) \in Nat
  BY <1>12, FS_CardinalityType
<1>14. /\ err_cnt' \in Nat /\ err_cnt' <= ErrLimit + 1
       /\ Cardinality(Failed) <= err_cnt' /\ Cardinality(Failed) < ErrLimit
       /\ err_cnt > 0 => err_cnt' > 0
       /\ ~ok => err_cnt' > 0
  BY <1>7, <1>8, <1>12, <1>13, Limits
<1>15. linebuf' \in LineRefs
  BY <1>1 DEF StopInv, Typed, LineRefs, NoLine
<1>16. Typed'
  <2>1. buf_stack' \in Seq(OpenFiles)
    BY <1>3, EmptySeq
  <2>2. QED
    BY <1>1, <1>3, <1>10, <1>14, <1>15, <2>1 DEF StopInv, Typed
<1>17. PlaceOK'
  BY <1>1, <1>3 DEF StopInv, PlaceOK
<1>18. QuitOK'
  <2>1. helped' # << >>
    BY <1>5
  <2>2. QED
    BY <1>3, <1>9, <2>1 DEF QuitOK
<1>19. CountOK'
  <2>1. Failed' \subseteq DOMAIN executed'
    BY <1>10, <1>11, <1>12
  <2>2. Cardinality(Failed) <= ErrLimit /\ Cardinality(Failed) # ErrLimit
    BY <1>13, <1>14, Limits
  <2>3. QED
    BY <1>3, <1>10, <1>12, <1>14, <2>1, <2>2 DEF CountOK
<1>20. StatusOK'
  <2>1. Failed # {} => err_cnt > 0
    BY <1>1 DEF StopInv, StatusOK
  <2>2. err_cnt > 0 => Failed # {}
    BY <1>1, <1>4 DEF StopInv, StatusOK
  <2>3. err_cnt' > 0 => Failed' # {} \/ helped' = <<FALSE>>
    BY <1>7, <1>9, <1>10, <2>2
  <2>4. Failed' # {} \/ helped' = <<FALSE>> => err_cnt' > 0
    <3>1. <<TRUE>> # <<FALSE>>
      OBVIOUS
    <3>2. QED
      BY <1>9, <1>10, <1>14, <2>1, <3>1
  <2>5. err_cnt' > 0 \/ helped' = <<TRUE>>
    BY <1>9, <1>14
  <2>6. QED
    BY <1>1, <2>3, <2>4, <2>5 DEF StatusOK
<1>21. QED
  BY <1>16, <1>17, <1>18, <1>19, <1>20 DEF StopInv

LEMMA StopInterpret ==
    ASSUME StopInv, Interpret
    PROVE  StopInv'
<1>1. /\ pc = "interpret" /\ pc' = "select"
      /\ linebuf' = [linebuf EXCEPT !.number = NoLine]
      /\ UNCHANGED <<script, exit>>
  BY DEF Interpret
<1>2. buf_stack \in Seq(OpenFiles) /\ err_limit \in {1, ErrLimit}
  BY DEF StopInv, Typed
<1>3. CASE quit_flag
  <2>1. UNCHANGED <<buf_stack, quit_flag, err_cnt, err_limit, freed, executed, helped>>
    BY <1>3 DEF Interpret, flags
  <2>2. UNCHANGED <<Quits, Failed>>
    BY <1>1, <2>1, SameHistory
  <2>3. linebuf' \in LineRefs
    BY <1>1 DEF StopInv, Typed, LineRefs, NoLine
  <2>4. Typed'
    BY <1>1, <2>1, <2>3 DEF StopInv, Typed
  <2>5. PlaceOK'
    BY <1>1, <2>1 DEF StopInv, PlaceOK
  <2>6. QuitOK'
    BY <2>1 DEF StopInv, QuitOK
  <2>7. CountOK'
    BY <2>1, <2>2 DEF StopInv, CountOK
  <2>8. StatusOK'
    BY <1>1, <2>1, <2>2 DEF StopInv, StatusOK
  <2>9. QED
    BY <2>4, <2>5, <2>6, <2>7, <2>8 DEF StopInv
<1>4. CASE ~quit_flag
  <2>1. Execute
    BY <1>4 DEF Interpret
  <2>2. executed' = Append(executed, linebuf)
    BY <2>1 DEF Execute
  <2>3. CASE Quit(CommandAt(linebuf))
    BY <1>4, <2>3, StopQuit
  <2>4. CASE Fail(CommandAt(linebuf))
    BY <1>4, <2>4, StopFail
  <2>5. CASE Source(CommandAt(linebuf))
    <3>1. /\ CommandAt(linebuf) = "source"
          /\ buf_stack' = <<Opened("sub")>> \o buf_stack
          /\ UNCHANGED <<quit_flag, err_cnt, err_limit, freed, helped>>
      BY <2>5 DEF Source, flags
    <3>2. Opened("sub") \in OpenFiles
      BY OpenedFile DEF StopInv, Typed, FileNames
    <3>3. <<Opened("sub")>> \in Seq(OpenFiles)
      BY <3>2
    <3>4. buf_stack' \in Seq(OpenFiles)
      BY <1>2, <3>1, <3>3, ConcatProperties
    <3>5. QED
      BY <1>1, <1>2, <1>4, <2>2, <3>1, <3>4, StopHarmless
  <2>6. CASE Option(CommandAt(linebuf))
    <3>1. /\ CommandAt(linebuf) = "limit" /\ err_limit' = 1
          /\ UNCHANGED <<buf_stack, quit_flag, err_cnt, freed, helped>>
      BY <2>6 DEF Option
    <3>2. QED
      BY <1>1, <1>2, <1>4, <2>2, <3>1, StopHarmless
  <2>7. CASE Succeed(CommandAt(linebuf))
    <3>1. /\ CommandAt(linebuf) = "ok"
          /\ UNCHANGED <<buf_stack, quit_flag, err_cnt, err_limit, freed, helped>>
      BY <2>7 DEF Succeed, flags
    <3>2. QED
      BY <1>1, <1>2, <1>4, <2>2, <3>1, StopHarmless
  <2>8. QED
    BY <2>1, <2>3, <2>4, <2>5, <2>6, <2>7 DEF Execute
<1>5. QED
  BY <1>3, <1>4

\* What Leave finds when it does not quit itself, and when it does.
LEMMA StopLeave ==
    ASSUME StopInv, Leave
    PROVE  StopInv'
<1>1. /\ pc = "leave" /\ pc' = "exit"
      /\ UNCHANGED <<script, linebuf, executed>>
  BY DEF Leave
<1>2. UNCHANGED <<Quits, Failed>>
  BY <1>1, SameHistory
<1>3. /\ err_cnt > 0 => Failed # {} \/ helped = <<FALSE>>
      /\ Failed # {} \/ helped = <<FALSE>> => err_cnt > 0
      /\ quit_flag => err_cnt > 0 \/ helped = <<TRUE>>
  BY <1>1 DEF StopInv, StatusOK
<1>4. CASE err_cnt > 0 \/ quit_flag
  <2>1. /\ exit' = IF err_cnt > 0 THEN "failure" ELSE "success"
        /\ UNCHANGED <<buf_stack, quit_flag, err_cnt, err_limit, freed, helped>>
    BY <1>4 DEF Leave, flags
  <2>2. Typed'
    BY <1>1, <2>1 DEF StopInv, Typed
  <2>3. PlaceOK'
    BY <1>1, <2>1 DEF StopInv, PlaceOK
  <2>4. QuitOK'
    BY <2>1 DEF StopInv, QuitOK
  <2>5. CountOK'
    BY <1>1, <1>2, <2>1 DEF StopInv, CountOK
  <2>6. ExitStatus'
    <3>1. CASE err_cnt > 0
      <4>1. exit' = "failure"
        BY <2>1, <3>1
      <4>2. Failed' # {} \/ helped' = <<FALSE>>
        BY <1>2, <1>3, <2>1, <3>1
      <4>3. QED
        BY <4>1, <4>2 DEF ExitStatus
    <3>2. CASE ~(err_cnt > 0)
      <4>1. exit' = "success"
        BY <2>1, <3>2
      <4>2. Failed' = {} /\ helped' = <<TRUE>>
        BY <1>2, <1>3, <1>4, <2>1, <3>2
      <4>3. helped # << >>
        BY <2>1, <4>2
      <4>4. buf_stack' = << >>
        BY <2>1, <4>3 DEF StopInv, QuitOK
      <4>5. QED
        BY <4>1, <4>2, <4>4 DEF ExitStatus
    <3>3. QED
      BY <3>1, <3>2
  <2>7. StatusOK'
    BY <1>1, <2>6 DEF StatusOK
  <2>8. QED
    BY <2>2, <2>3, <2>4, <2>5, <2>7 DEF StopInv
<1>5. CASE ~(err_cnt > 0 \/ quit_flag)
  <2>1. /\ freed' = TRUE /\ buf_stack' = << >> /\ quit_flag' = TRUE
        /\ exit' = IF Last(helped') THEN "success" ELSE "failure"
        /\ UNCHANGED <<err_cnt, err_limit>>
    BY <1>5 DEF Leave, DoQuit
  <2>2. PICK ok \in BOOLEAN : helped' = Append(helped, ok)
    BY <1>5 DEF Leave, DoQuit
  <2>3. helped = << >>
    BY <1>5 DEF StopInv, QuitOK
  <2>4. helped' = <<ok>> /\ Last(helped') = ok
    BY <2>2, <2>3 DEF Last
  <2>5. (ok => helped' = <<TRUE>>) /\ (~ok => helped' = <<FALSE>>)
    <3>1. ASSUME ok PROVE helped' = <<TRUE>>
      <4>1. ok = TRUE
        BY <2>2, <3>1
      <4>2. QED
        BY <2>4, <4>1, Zenon
    <3>2. ASSUME ~ok PROVE helped' = <<FALSE>>
      <4>1. ok = FALSE
        BY <2>2, <3>2
      <4>2. QED
        BY <2>4, <4>1, Zenon
    <3>3. QED
      BY <3>1, <3>2
  <2>6. helped' # << >>
    BY <2>4
  <2>7. exit' = IF ok THEN "success" ELSE "failure"
    BY <2>1, <2>4, Zenon
  <2>8. Typed'
    <3>1. buf_stack' \in Seq(OpenFiles) /\ exit' \in {"success", "failure"}
      BY <2>1, <2>7, EmptySeq
    <3>2. QED
      BY <1>1, <2>1, <3>1 DEF StopInv, Typed
  <2>9. PlaceOK'
    BY <1>1, <2>1 DEF StopInv, PlaceOK
  <2>10. QuitOK'
    BY <2>1, <2>5, <2>6 DEF QuitOK
  <2>11. CountOK'
    BY <1>1, <1>2, <2>1, <1>5 DEF StopInv, CountOK
  <2>12. ExitStatus'
    BY <1>2, <1>3, <1>5, <2>1, <2>5, <2>7 DEF ExitStatus
  <2>13. StatusOK'
    BY <1>1, <2>12 DEF StatusOK
  <2>14. QED
    BY <2>8, <2>9, <2>10, <2>11, <2>13 DEF StopInv
<1>6. QED
  BY <1>4, <1>5

\* Every state that the interpreter reaches satisfies the invariant: the flags,
\* the open files and the counts agree with the place of the control.
THEOREM StopInvariance == Spec => []StopInv
<1>1. Init => StopInv
  BY StopInit
<1>2. StopInv /\ [Next \/ Ended]_vars => StopInv'
  <2>1. SUFFICES ASSUME StopInv, [Next \/ Ended]_vars
                 PROVE  StopInv'
    OBVIOUS
  <2>2. CASE CmdSelect
    BY <2>1, <2>2, StopCmdSelect
  <2>3. CASE Read
    BY <2>1, <2>3, StopRead
  <2>4. CASE TakeCharacters
    BY <2>1, <2>4, StopTakeCharacters
  <2>5. CASE EndOfFile
    BY <2>1, <2>5, StopEndOfFile
  <2>6. CASE Interpret
    BY <2>1, <2>6, StopInterpret
  <2>7. CASE Leave
    BY <2>1, <2>7, StopLeave
  <2>8. CASE UNCHANGED vars
    <3>1. UNCHANGED <<script, buf_stack, linebuf, quit_flag, err_cnt, err_limit, freed,
                      pc, exit, executed, helped>>
      BY <2>8 DEF vars, files, flags
    <3>2. UNCHANGED <<Quits, Failed>>
      BY <3>1, SameHistory
    <3>3. Typed' /\ PlaceOK' /\ QuitOK'
      BY <2>1, <3>1 DEF StopInv, Typed, PlaceOK, QuitOK
    <3>4. CountOK'
      BY <2>1, <3>1, <3>2 DEF StopInv, CountOK
    <3>5. StatusOK'
      BY <2>1, <3>1, <3>2 DEF StopInv, StatusOK, ExitStatus
    <3>6. QED
      BY <3>3, <3>4, <3>5 DEF StopInv
  <2>9. QED
    BY <2>1, <2>2, <2>3, <2>4, <2>5, <2>6, <2>7, <2>8 DEF Next, Ended
<1>3. QED
  BY <1>1, <1>2, PTL DEF Spec

\* What a lowered limit leaves: no failure after it but the last line.
LowersOK ==
    /\ Lowers # {} => err_limit = 1
    /\ ~quit_flag => \A i \in Lowers, j \in Failed : ~(i < j)
    /\ \A i \in Lowers, j \in Failed : i < j => j = Len(executed)

LEMMA SameLowers == UNCHANGED <<script, executed>> => UNCHANGED Lowers
  BY DEF Lowers, CommandAt

LEMMA LongerLowers ==
    ASSUME Typed, UNCHANGED script, executed' = Append(executed, linebuf)
    PROVE  Lowers' = IF CommandAt(linebuf) = "limit" THEN Lowers \cup {Len(executed')}
                     ELSE Lowers
<1> DEFINE n == Len(executed)
           Cmd(l) == script[l.file].lines[l.number]
<1>1. executed \in Seq(LineRefs) /\ linebuf \in LineRefs
  BY DEF Typed
<1>2. /\ executed' \in Seq(LineRefs) /\ Len(executed') = n + 1 /\ n \in Nat
      /\ \A i \in 1 .. n : executed'[i] = executed[i]
      /\ executed'[n + 1] = linebuf
  BY <1>1, AppendProperties, LenProperties
<1>3. DOMAIN executed = 1 .. n /\ DOMAIN executed' = 1 .. n + 1
  BY <1>1, <1>2, LenProperties
<1>4. /\ Lowers' = {i \in DOMAIN executed' : Cmd(executed'[i]) = "limit"}
      /\ Lowers = {i \in DOMAIN executed : Cmd(executed[i]) = "limit"}
      /\ CommandAt(linebuf) = Cmd(linebuf)
  BY DEF Lowers, CommandAt
<1>5. /\ \A i \in 1 .. n : Cmd(executed'[i]) = Cmd(executed[i])
      /\ Cmd(executed'[n + 1]) = Cmd(linebuf)
  BY <1>2
<1> HIDE DEF Cmd, n
<1>6. 1 .. n + 1 = (1 .. n) \cup {n + 1} /\ n + 1 \notin 1 .. n
  BY <1>2
<1>7. QED
  BY <1>2, <1>3, <1>4, <1>5, <1>6

LEMMA LowersExecute ==
    ASSUME StopInv, LowersOK, UNCHANGED script, ~quit_flag, Execute
    PROVE  LowersOK'
<1>1. executed' = Append(executed, linebuf) /\ Typed
  BY DEF Execute, StopInv
<1>2. /\ Lowers' = IF CommandAt(linebuf) = "limit" THEN Lowers \cup {Len(executed')}
                   ELSE Lowers
      /\ Failed' = IF CommandAt(linebuf) \in {"bad", "timed bad"}
                   THEN Failed \cup {Len(executed')} ELSE Failed
      /\ Len(executed') = Len(executed) + 1
  BY <1>1, LongerLowers, LongerHistory
<1>3. /\ Len(executed) \in Nat /\ Failed \subseteq 1 .. Len(executed)
      /\ Lowers \subseteq 1 .. Len(executed)
  <2>1. executed \in Seq(LineRefs)
    BY <1>1 DEF Typed
  <2>2. Len(executed) \in Nat /\ DOMAIN executed = 1 .. Len(executed)
    BY <2>1, LenProperties
  <2>3. QED
    BY <2>2 DEF Failed, Lowers
<1>4. \A i \in Lowers, j \in Failed : ~(i < j)
  BY DEF LowersOK
<1>5. CASE Fail(CommandAt(linebuf))
  <2>1. /\ CommandAt(linebuf) \in {"bad", "timed bad"}
        /\ err_limit' = err_limit
        /\ quit_flag' = (quit_flag \/ err_cnt + Errors(CommandAt(linebuf)) >= err_limit)
    BY <1>5 DEF Fail, RecordErrors
  <2>2. Lowers' = Lowers /\ Failed' = Failed \cup {Len(executed')}
    BY <1>2, <2>1
  <2>3. Lowers # {} => quit_flag'
    <3>1. Errors(CommandAt(linebuf)) \in {1, 2} /\ err_cnt \in Nat
      BY <1>1 DEF Errors, Typed
    <3>2. err_cnt + Errors(CommandAt(linebuf)) >= 1
      BY <3>1
    <3> DEFINE n == Errors(CommandAt(linebuf))
    <3> HIDE DEF n
    <3>3. SUFFICES ASSUME Lowers # {} PROVE quit_flag'
      OBVIOUS
    <3>4. err_limit = 1
      BY <3>3 DEF LowersOK
    <3>5. err_cnt + n >= err_limit
      BY <3>2, <3>4 DEF n
    <3>6. quit_flag' = (quit_flag \/ err_cnt + n >= err_limit)
      BY <2>1 DEF n
    <3>7. QED
      BY <3>5, <3>6, Zenon
  <2>4. \A i \in Lowers', j \in Failed' : i < j => j = Len(executed')
    BY <1>4, <2>2
  <2>5. ~quit_flag' => \A i \in Lowers', j \in Failed' : ~(i < j)
    BY <2>2, <2>3
  <2>6. Lowers' # {} => err_limit' = 1
    BY <2>1, <2>2 DEF LowersOK
  <2>7. QED
    BY <2>4, <2>5, <2>6 DEF LowersOK
<1>6. CASE ~Fail(CommandAt(linebuf))
  <2>1. /\ CommandAt(linebuf) \notin {"bad", "timed bad"}
        /\ CommandAt(linebuf) = "limit" => err_limit' = 1
        /\ err_limit' \in {1, err_limit}
    BY <1>6 DEF Execute, Quit, DoQuit, Source, Option, Succeed, flags
  <2>2. Failed' = Failed
    BY <1>2, <2>1
  <2>3. ASSUME NEW i \in Lowers', NEW j \in Failed' PROVE ~(i < j)
    <3>1. CASE i \in Lowers
      BY <1>4, <2>2, <3>1
    <3>2. CASE i = Len(executed')
      <4>1. PICK m \in Nat : m = Len(executed)
        BY <1>3
      <4>2. j \in 1 .. m
        BY <1>3, <2>2, <4>1
      <4>3. i = m + 1
        BY <1>2, <3>2, <4>1
      <4>4. QED
        BY <4>2, <4>3
    <3>3. QED
      BY <1>2, <3>1, <3>2
  <2>4. Lowers' # {} => err_limit' = 1
    BY <1>2, <2>1 DEF LowersOK
  <2>5. QED
    BY <2>3, <2>4 DEF LowersOK
<1>7. QED
  BY <1>5, <1>6

LEMMA LowersStep == StopInv /\ LowersOK /\ [Next \/ Ended]_vars => LowersOK'
<1> SUFFICES ASSUME StopInv, LowersOK, [Next \/ Ended]_vars
             PROVE  LowersOK'
  OBVIOUS
<1>1. CASE Interpret /\ ~quit_flag
  BY <1>1, LowersExecute DEF Interpret
<1>2. CASE ~(Interpret /\ ~quit_flag)
  <2>1. UNCHANGED <<script, executed, err_limit>> /\ (quit_flag => quit_flag')
    BY <1>2 DEF Next, Ended, CmdSelect, Read, TakeCharacters, EndOfFile, Interpret, Leave,
                DoQuit, vars, files, flags
  <2>2. UNCHANGED <<Lowers, Failed>>
    BY <2>1, SameLowers, SameHistory
  <2>3. QED
    BY <2>1, <2>2 DEF LowersOK
<1>3. QED
  BY <1>1, <1>2

LEMMA LowersInitially == Init => LowersOK
  BY DEF Init, LowersOK, Lowers, Failed

\* Nothing is executed after a quit, nor after the command whose failure made
\* the failures as many as the limit, nor after a failure under a lowered limit,
\* however far the buffer had been filled.
THEOREM StopCorrect == Spec => []StopsInTime
<1>1. Spec => []LowersOK
  BY LowersInitially, LowersStep, StopInvariance, PTL DEF Spec
<1>2. StopInv /\ LowersOK => StopsInTime
  BY DEF StopInv, CountOK, LowersOK, StopsInTime
<1>3. QED
  BY <1>1, <1>2, StopInvariance, PTL

\* The lists that do_quit_cmd frees are not searched afterwards and not freed
\* again, and the quit helpers run once.
THEOREM ListsCorrect == Spec => []ListsUsedAlive
<1>1. StopInv => ListsUsedAlive
  <2>1. SUFFICES ASSUME StopInv PROVE ListsUsedAlive
    OBVIOUS
  <2>2. helped \in {<< >>, <<TRUE>>, <<FALSE>>}
    BY <2>1 DEF StopInv, QuitOK
  <2>3. Len(helped) <= 1
    <3>1. Len(<<TRUE>>) = 1 /\ Len(<<FALSE>>) = 1
      OBVIOUS
    <3>2. Len(<< >>) = 0
      BY EmptySeq
    <3>3. Len(helped) = 0 \/ Len(helped) = 1
      BY <2>2, <3>1, <3>2, Zenon
    <3>4. QED
      BY <3>3
  <2>4. freed = (helped # << >>)
    BY <2>1 DEF StopInv, QuitOK, Typed
  <2>5. ~quit_flag => ~freed
    BY <2>1 DEF StopInv, QuitOK
  <2>6. QED
    BY <2>3, <2>4, <2>5 DEF ListsUsedAlive
<1>2. QED
  BY <1>1, StopInvariance, PTL

\* main returns 0 only if no command failed and the quit helpers found nothing,
\* and something else only if one of them did.
THEOREM StatusCorrect == Spec => []ExitStatus
<1>1. StopInv => ExitStatus
  BY DEF StopInv, StatusOK, PlaceOK, ExitStatus
<1>2. QED
  BY <1>1, StopInvariance, PTL

-----------------------------------------------------------------------------
(***************************************************************************)
(* The order in which the lines are executed. Its invariant relates what   *)
(* was executed to the characters that are left of each open file. Its     *)
(* parts have the script and the parts of the state as arguments, so that  *)
(* they can be compared between the two states of a step.                  *)
(***************************************************************************)
Count(sc, f) == Len(sc[f].lines)
Ref(f, i)    == [file |-> f, number |-> i]

Sourced(sc, m) == m \in 1 .. Count(sc, "main") /\ sc["main"].lines[m] = "source"

\* The first j lines of the second file; the lines that the m-th line of the
\* first file makes; all lines up to those.
SubLines(j) == [i \in 1 .. j |-> Ref("sub", i)]
Row(sc, m)  == <<Ref("main", m)>> \o (IF Sourced(sc, m) THEN SubLines(Count(sc, "sub")) ELSE << >>)
Rows(sc)    == [m \in 1 .. Count(sc, "main") |-> Row(sc, m)]
Flat(rows)  ==
    LET flatten[i \in 1 .. Len(rows)] == IF i = 1 THEN rows[i] ELSE flatten[i - 1] \o rows[i]
    IN  flatten
Done(sc, m) == IF m = 0 THEN << >> ELSE Flat(Rows(sc))[m]

\* The lines up to the j-th of the second file, named by the m-th of the first.
Upto(sc, m, j) == (Done(sc, m - 1) \o <<Ref("main", m)>>) \o SubLines(j)

\* p characters of the file have been consumed.
At(sc, e, p) ==
    /\ p \in 0 .. Len(Chars(sc[e.file]))
    /\ e.buf \o e.unread = SubSeq(Chars(sc[e.file]), p + 1, Len(Chars(sc[e.file])))

\* The stack s when m lines of the first file have been consumed and no other
\* file is open.
Rest(sc, s, m) ==
    \/ s = << >> /\ m = Count(sc, "main")
    \/ s # << >> /\ Tail(s) = << >> /\ Head(s).file = "main" /\ At(sc, Head(s), 2 * m)

\* k lines of the file f have been executed, h is the history and r the stack
\* below the file; m is the line of the first file that named it.
Context(sc, f, r, h, m, k) ==
    \/ f = "main" /\ r = << >> /\ h = Done(sc, k)
    \/ f = "sub" /\ Sourced(sc, m) /\ Rest(sc, r, m) /\ h = Upto(sc, m, k)

\* No line is being read; one is; one was and has not been executed.
Between(sc, s, h) ==
    \/ s = << >> /\ h = Done(sc, Count(sc, "main"))
    \/ /\ s # << >>
       /\ \E m \in 0 .. Count(sc, "main"), k \in 0 .. Count(sc, Head(s).file) :
            At(sc, Head(s), 2 * k) /\ Context(sc, Head(s).file, Tail(s), h, m, k)

InLine(sc, s, l, h) ==
    /\ s # << >> /\ l.file = Head(s).file
    /\ l.number \in 1 .. Count(sc, l.file)
    /\ At(sc, Head(s), 2 * l.number - 1)
    /\ \E m \in 0 .. Count(sc, "main") :
         Context(sc, l.file, Tail(s), h, m, l.number - 1)

LineRead(sc, s, l, h) ==
    /\ l.number \in 1 .. Count(sc, l.file)
    /\ \E m \in 0 .. Count(sc, "main") :
         \/ /\ s # << >> /\ l.file = Head(s).file
            /\ At(sc, Head(s), 2 * l.number)
            /\ Context(sc, l.file, Tail(s), h, m, l.number - 1)
         \/ /\ l.number = Count(sc, l.file)
            /\ Context(sc, l.file, s, h, m, l.number - 1)

\* As long as the interpreter has not been told to stop, it is in its place.
OnCourse ==
    pc # "exit" /\ ~quit_flag =>
        /\ pc = "interpret" => LineRead(script, buf_stack, linebuf, executed)
        /\ pc = "readline" /\ linebuf.number # NoLine =>
             InLine(script, buf_stack, linebuf, executed)
        /\ pc = "readline" /\ linebuf.number = NoLine =>
             Between(script, buf_stack, executed)
        /\ pc \in {"select", "leave"} =>
             linebuf.number = NoLine /\ Between(script, buf_stack, executed)

\* What it has executed is a beginning in any case, and it is all if nothing
\* has stopped it.
EndOK ==
    /\ IsPrefix(executed, Expansion)
    /\ pc # "exit" /\ quit_flag => err_cnt > 0 \/ Quits # {}
    /\ pc = "exit" /\ Quits = {} /\ ~(quit_flag /\ err_cnt > 0) => executed = Expansion

OrderInv == Len(buf_stack) <= 2 /\ OnCourse /\ EndOK

-----------------------------------------------------------------------------
(* The sequence in which the lines are to be executed.                       *)

FlatAt(f, rows, i) == IF i = 1 THEN rows[i] ELSE f[i - 1] \o rows[i]
IsFlat(f, rows) == f = [i \in 1 .. Len(rows) |-> FlatAt(f, rows, i)]

\* f is right up to the k-th row.
FlatTo(f, rows, k) ==
    /\ f = [i \in 1 .. Len(rows) |-> f[i]]
    /\ \A i \in 1 .. Len(rows) : i <= k => f[i] = FlatAt(f, rows, i)

LEMMA FlatExtends ==
    ASSUME NEW rows, Len(rows) \in Nat, NEW k \in Nat, NEW f, FlatTo(f, rows, k)
    PROVE  \E g : FlatTo(g, rows, k + 1)
<1> DEFINE g == [i \in 1 .. Len(rows) |-> FlatAt(f, rows, i)]
<1>1. \A i \in 1 .. Len(rows) : i <= k => g[i] = f[i]
  BY DEF FlatTo
<1>2. ASSUME NEW i \in 1 .. Len(rows), i <= k + 1
      PROVE  FlatAt(g, rows, i) = FlatAt(f, rows, i)
  <2>1. CASE i = 1
    BY <2>1 DEF FlatAt
  <2>2. CASE i # 1
    <3>1. i - 1 \in 1 .. Len(rows) /\ i - 1 <= k
      BY <1>2, <2>2
    <3>2. g[i - 1] = f[i - 1]
      BY <1>1, <3>1
    <3> HIDE DEF g
    <3>3. QED
      BY <3>2 DEF FlatAt
  <2>3. QED
    BY <2>1, <2>2
<1>3. g = [i \in 1 .. Len(rows) |-> g[i]] /\ \A i \in 1 .. Len(rows) : g[i] = FlatAt(f, rows, i)
  OBVIOUS
<1> HIDE DEF g
<1>4. FlatTo(g, rows, k + 1)
  BY <1>2, <1>3 DEF FlatTo
<1>5. QED
  BY <1>4

LEMMA FlatExists ==
    ASSUME NEW rows, Len(rows) \in Nat
    PROVE  \E f : IsFlat(f, rows)
<1> DEFINE S == {k \in Nat : \E f : FlatTo(f, rows, k)}
<1>1. 0 \in S
  <2> DEFINE f == [i \in 1 .. Len(rows) |-> << >>]
  <2>1. f = [i \in 1 .. Len(rows) |-> f[i]]
    OBVIOUS
  <2> HIDE DEF f
  <2>2. FlatTo(f, rows, 0)
    BY <2>1 DEF FlatTo
  <2>3. QED
    BY <2>2
<1>2. \A k \in S : k + 1 \in S
  BY FlatExtends
<1>3. S = Nat
  <2>1. S \in SUBSET Nat
    OBVIOUS
  <2> HIDE DEF S
  <2>2. QED
    BY <1>1, <1>2, <2>1, SetInduction
<1>4. PICK f : FlatTo(f, rows, Len(rows))
  BY <1>3
<1>5. \A i \in 1 .. Len(rows) : f[i] = FlatAt(f, rows, i)
  BY <1>4 DEF FlatTo
<1>6. f = [i \in 1 .. Len(rows) |-> FlatAt(f, rows, i)]
  BY <1>4, <1>5 DEF FlatTo
<1>7. QED
  BY <1>6 DEF IsFlat

LEMMA FlatFacts ==
    ASSUME NEW rows, Len(rows) \in Nat
    PROVE  \A i \in 1 .. Len(rows) : Flat(rows)[i] = FlatAt(Flat(rows), rows, i)
<1> DEFINE f == CHOOSE g : IsFlat(g, rows)
<1>1. Flat(rows) = f
  BY Zenon DEF Flat, IsFlat, FlatAt
<1>2. IsFlat(f, rows)
  BY FlatExists, Zenon
<1> HIDE DEF f
<1>3. \A i \in 1 .. Len(rows) : f[i] = FlatAt(f, rows, i)
  BY <1>2 DEF IsFlat
<1>4. QED
  BY <1>1, <1>3

LEMMA FlattenIsFlat ==
    ASSUME NEW rows, Len(rows) \in Nat
    PROVE  FlattenSeq(rows) = IF Len(rows) = 0 THEN rows ELSE Flat(rows)[Len(rows)]
BY Zenon DEF FlattenSeq, Flat

LEMMA SubLinesFacts ==
    ASSUME NEW j \in Nat
    PROVE  /\ SubLines(j) \in Seq(LineRefs) /\ Len(SubLines(j)) = j
           /\ \A i \in 1 .. j : SubLines(j)[i] = Ref("sub", i)
<1>1. \A i \in 1 .. j : Ref("sub", i) \in LineRefs
  BY DEF Ref, LineRefs, FileNames
<1>2. SubLines(j) \in [1 .. j -> LineRefs] /\ \A i \in 1 .. j : SubLines(j)[i] = Ref("sub", i)
  BY <1>1 DEF SubLines
<1>3. SubLines(j) \in Seq(LineRefs)
  BY <1>2, SeqDef
<1>4. DOMAIN SubLines(j) = 1 .. j /\ DOMAIN SubLines(j) = 1 .. Len(SubLines(j))
      /\ Len(SubLines(j)) \in Nat
  BY <1>2, <1>3, LenProperties
<1>5. QED
  BY <1>2, <1>3, <1>4

LEMMA NextSubLine ==
    ASSUME NEW j \in Nat
    PROVE  SubLines(j + 1) = Append(SubLines(j), Ref("sub", j + 1))
<1> DEFINE s == SubLines(j)
           t == SubLines(j + 1)
           e == Ref("sub", j + 1)
<1>1. /\ s \in Seq(LineRefs) /\ Len(s) = j /\ \A i \in 1 .. j : s[i] = Ref("sub", i)
      /\ t \in Seq(LineRefs) /\ Len(t) = j + 1 /\ \A i \in 1 .. j + 1 : t[i] = Ref("sub", i)
  BY SubLinesFacts
<1>2. e \in LineRefs
  BY DEF Ref, LineRefs, FileNames
<1>3. /\ Append(s, e) \in Seq(LineRefs) /\ Len(Append(s, e)) = j + 1
      /\ \A i \in 1 .. j : Append(s, e)[i] = s[i]
      /\ Append(s, e)[j + 1] = e
  BY <1>1, <1>2, AppendProperties
<1>4. \A i \in 1 .. j + 1 : t[i] = Append(s, e)[i]
  <2>1. \A i \in 1 .. j + 1 : i \in 1 .. j \/ i = j + 1
    OBVIOUS
  <2> HIDE DEF s, t
  <2>2. QED
    BY <1>1, <1>3, <2>1
<1> HIDE DEF s, t, e
<1>5. t = Append(s, e)
  BY <1>1, <1>3, <1>4, SeqEqual
<1>6. QED
  BY <1>5 DEF s, t, e

LEMMA Counts ==
    ASSUME NEW sc \in Scripts
    PROVE  Count(sc, "main") \in Nat /\ Count(sc, "sub") \in Nat
BY ScriptLines DEF Count, FileNames

LEMMA RowFacts ==
    ASSUME NEW sc \in Scripts, NEW m \in Nat
    PROVE  /\ Row(sc, m) \in Seq(LineRefs) /\ Ref("main", m) \in LineRefs
           /\ <<Ref("main", m)>> \in Seq(LineRefs)
           /\ Sourced(sc, m) => Row(sc, m) = <<Ref("main", m)>> \o SubLines(Count(sc, "sub"))
           /\ ~Sourced(sc, m) => Row(sc, m) = <<Ref("main", m)>>
<1>1. Ref("main", m) \in LineRefs
  BY DEF Ref, LineRefs, FileNames
<1>2. <<Ref("main", m)>> \in Seq(LineRefs) /\ << >> \in Seq(LineRefs)
  BY <1>1, EmptySeq
<1>3. SubLines(Count(sc, "sub")) \in Seq(LineRefs)
  BY Counts, SubLinesFacts
<1>4. CASE Sourced(sc, m)
  <2>1. Row(sc, m) = <<Ref("main", m)>> \o SubLines(Count(sc, "sub"))
    BY <1>4 DEF Row
  <2>2. QED
    BY <1>1, <1>2, <1>3, <1>4, <2>1, ConcatProperties
<1>5. CASE ~Sourced(sc, m)
  <2>1. Row(sc, m) = <<Ref("main", m)>> \o << >>
    BY <1>5 DEF Row
  <2>2. Row(sc, m) = <<Ref("main", m)>>
    BY <1>2, <2>1, ConcatEmptySeq
  <2>3. QED
    BY <1>1, <1>2, <1>5, <2>2
<1>6. QED
  BY <1>4, <1>5

LEMMA RowsFacts ==
    ASSUME NEW sc \in Scripts
    PROVE  /\ Len(Rows(sc)) = Count(sc, "main")
           /\ \A m \in 1 .. Count(sc, "main") : Rows(sc)[m] = Row(sc, m)
<1> DEFINE n == Count(sc, "main")
           g == Rows(sc)
<1>1. n \in Nat
  BY Counts
<1>2. /\ g = [m \in 1 .. n |-> Row(sc, m)]
      /\ \A m \in 1 .. n : Row(sc, m) \in Seq(LineRefs)
  <2>1. \A m \in 1 .. n : m \in Nat
    BY <1>1
  <2>2. QED
    BY <2>1, RowFacts DEF Rows
<1> HIDE DEF n, g
<1>3. g \in [1 .. n -> Seq(LineRefs)] /\ \A m \in 1 .. n : g[m] = Row(sc, m)
  BY <1>2
<1>4. g \in Seq(Seq(LineRefs))
  BY <1>1, <1>3, SeqDef
<1>5. DOMAIN g = 1 .. n /\ DOMAIN g = 1 .. Len(g) /\ Len(g) \in Nat
  BY <1>3, <1>4, LenProperties
<1>6. Len(g) = n
  BY <1>1, <1>5
<1>7. QED
  BY <1>3, <1>6 DEF n, g

LEMMA DoneFacts ==
    ASSUME NEW sc \in Scripts
    PROVE  /\ Done(sc, 0) = << >>
           /\ \A m \in 0 .. Count(sc, "main") : Done(sc, m) \in Seq(LineRefs)
           /\ \A m \in 1 .. Count(sc, "main") : Done(sc, m) = Done(sc, m - 1) \o Row(sc, m)
<1> DEFINE n == Count(sc, "main")
           f == Flat(Rows(sc))
<1>1. n \in Nat
  BY Counts
<1>2. \A m \in 1 .. n : f[m] = IF m = 1 THEN Row(sc, m) ELSE f[m - 1] \o Row(sc, m)
  <2>1. \A i \in 1 .. n : f[i] = FlatAt(f, Rows(sc), i)
    BY <1>1, RowsFacts, FlatFacts
  <2>2. QED
    BY <2>1, RowsFacts DEF FlatAt
<1>3. \A m : Done(sc, m) = IF m = 0 THEN << >> ELSE f[m]
  BY DEF Done
<1> HIDE DEF n, f
<1>4. << >> \in Seq(LineRefs) /\ \A m \in 1 .. n : Row(sc, m) \in Seq(LineRefs)
  <2>1. \A m \in 1 .. n : m \in Nat
    BY <1>1
  <2>2. QED
    BY <2>1, RowFacts, EmptySeq
<1>5. ASSUME NEW m \in 1 .. n
      PROVE  Done(sc, m) = Done(sc, m - 1) \o Row(sc, m)
  <2>1. Done(sc, m) = f[m] /\ m \in Nat
    BY <1>1, <1>3
  <2>2. CASE m = 1
    <3>1. Done(sc, m - 1) = << >>
      BY <1>3, <2>2
    <3>2. << >> \o Row(sc, m) = Row(sc, m)
      BY <1>4, ConcatEmptySeq
    <3>3. QED
      BY <1>2, <2>1, <2>2, <3>1, <3>2, Zenon
  <2>3. CASE m # 1
    <3>1. Done(sc, m - 1) = f[m - 1]
      BY <1>3, <2>1, <2>3
    <3>2. QED
      BY <1>2, <2>1, <2>3, <3>1, Zenon
  <2>4. QED
    BY <2>2, <2>3
<1> DEFINE S == {k \in Nat : k <= n => Done(sc, k) \in Seq(LineRefs)}
<1>6. 0 \in S
  BY <1>3, <1>4
<1>7. ASSUME NEW k \in S
      PROVE  k + 1 \in S
  <2>1. k \in Nat /\ (k <= n => Done(sc, k) \in Seq(LineRefs))
    OBVIOUS
  <2>2. CASE k + 1 <= n
    <3>1. k + 1 \in 1 .. n /\ k <= n /\ (k + 1) - 1 = k
      BY <1>1, <2>1, <2>2
    <3>2. Done(sc, k + 1) = Done(sc, k) \o Row(sc, k + 1)
      BY <1>5, <3>1
    <3>3. Done(sc, k + 1) \in Seq(LineRefs)
      BY <1>4, <2>1, <3>1, <3>2, ConcatProperties
    <3>4. QED
      BY <2>1, <3>3
  <2>3. CASE ~(k + 1 <= n)
    BY <2>1, <2>3
  <2>4. QED
    BY <2>2, <2>3
<1>8. S = Nat
  <2>1. S \in SUBSET Nat
    OBVIOUS
  <2>2. \A k \in S : k + 1 \in S
    BY <1>7
  <2> HIDE DEF S
  <2>3. QED
    BY <1>6, <2>1, <2>2, SetInduction
<1>9. ASSUME NEW m \in 0 .. n
      PROVE  Done(sc, m) \in Seq(LineRefs)
  <2>1. m \in S /\ m <= n
    BY <1>1, <1>8
  <2>2. QED
    BY <2>1
<1>10. QED
  BY <1>3, <1>5, <1>9 DEF n

\* s is the beginning of t.
Begins(s, t) == \E u \in Seq(LineRefs) : t = s \o u

LEMMA BeginsConcat ==
    ASSUME NEW s \in Seq(LineRefs), NEW t \in Seq(LineRefs), NEW u \in Seq(LineRefs),
           Begins(s, t)
    PROVE  Begins(s, t \o u)
<1>1. PICK v \in Seq(LineRefs) : t = s \o v
  BY DEF Begins
<1>2. (s \o v) \o u = s \o (v \o u) /\ v \o u \in Seq(LineRefs)
  BY ConcatAssociative, ConcatProperties
<1>3. t \o u = s \o (v \o u)
  BY <1>1, <1>2, Zenon
<1>4. QED
  BY <1>2, <1>3 DEF Begins

LEMMA BeginsTransitive ==
    ASSUME NEW s \in Seq(LineRefs), NEW t \in Seq(LineRefs), NEW u,
           Begins(s, t), Begins(t, u)
    PROVE  Begins(s, u)
<1>1. PICK v \in Seq(LineRefs) : u = t \o v
  BY DEF Begins
<1>2. Begins(s, t \o v)
  BY <1>1, BeginsConcat
<1>3. QED
  BY <1>1, <1>2

LEMMA BeginsIsPrefix ==
    ASSUME NEW s \in Seq(LineRefs), NEW t \in Seq(LineRefs), Begins(s, t)
    PROVE  IsPrefix(s, t)
<1>1. PICK u \in Seq(LineRefs) : t = s \o u
  BY DEF Begins
<1>2. /\ Len(s) \in Nat /\ Len(u) \in Nat /\ Len(s \o u) = Len(s) + Len(u)
      /\ \A i \in 1 .. Len(s) + Len(u) : (s \o u)[i] = IF i <= Len(s) THEN s[i] ELSE u[i - Len(s)]
  BY ConcatProperties, LenProperties
<1>3. Len(s) <= Len(t)
  BY <1>1, <1>2
<1>4. SubSeq(s, 1, Len(s)) = s
  BY SubSeqFull
<1>5. SubSeq(s \o u, 1, Len(s)) = s
  <2>1. CASE Len(s) = 0
    <3>1. s = << >>
      BY <2>1, EmptySeq
    <3>2. SubSeq(s \o u, 1, Len(s)) = << >>
      <4>1. 1 \in Int /\ 0 \in Int /\ 0 < 1
        OBVIOUS
      <4>2. SubSeq(s \o u, 1, 0) = << >>
        BY <4>1, SubSeqEmpty
      <4>3. QED
        BY <2>1, <4>2
    <3>3. QED
      BY <3>1, <3>2
  <2>2. CASE Len(s) # 0
    <3>1. 1 \in 1 .. Len(s) /\ Len(s) \in 1 .. Len(s)
      BY <1>2, <2>2
    <3>2. SubSeq(s \o u, 1, Len(s)) = SubSeq(s, 1, Len(s))
      BY <3>1, SubSeqOfConcat1
    <3>3. QED
      BY <1>4, <3>2
  <2>3. QED
    BY <2>1, <2>2
<1>6. QED
  BY <1>1, <1>3, <1>4, <1>5 DEF IsPrefix

\* What was executed when m lines of the first file were done begins the whole.
LEMMA DoneBegins ==
    ASSUME NEW sc \in Scripts
    PROVE  \A m \in 0 .. Count(sc, "main") : Begins(Done(sc, m), Done(sc, Count(sc, "main")))
<1> DEFINE n == Count(sc, "main")
           D(m) == Done(sc, m)
<1>1. n \in Nat
  BY Counts
<1>2. /\ \A m \in 0 .. n : D(m) \in Seq(LineRefs)
      /\ \A m \in 1 .. n : D(m) = D(m - 1) \o Row(sc, m) /\ Row(sc, m) \in Seq(LineRefs)
  <2>1. \A m \in 1 .. n : m \in Nat
    BY <1>1
  <2>2. QED
    BY <2>1, DoneFacts, RowFacts
<1> HIDE DEF n, D
<1> DEFINE S == {d \in Nat : \A m \in 0 .. n : m + d <= n => Begins(D(m), D(m + d))}
<1>3. 0 \in S
  <2>1. ASSUME NEW m \in 0 .. n
        PROVE  Begins(D(m), D(m + 0))
    <3>1. m + 0 = m
      BY <1>1
    <3>2. D(m) \o << >> = D(m) /\ << >> \in Seq(LineRefs)
      BY <1>2, ConcatEmptySeq, EmptySeq
    <3>3. QED
      BY <3>1, <3>2 DEF Begins
  <2>2. QED
    BY <2>1
<1>4. ASSUME NEW d \in S
      PROVE  d + 1 \in S
  <2>1. ASSUME NEW m \in 0 .. n, m + (d + 1) <= n
        PROVE  Begins(D(m), D(m + (d + 1)))
    <3>1. d \in Nat /\ m + d \in 0 .. n /\ m + d <= n /\ m + (d + 1) \in 1 .. n
          /\ (m + (d + 1)) - 1 = m + d
      BY <1>1, <2>1
    <3>2. Begins(D(m), D(m + d))
      BY <3>1
    <3>3. D(m + (d + 1)) = D(m + d) \o Row(sc, m + (d + 1)) /\ Row(sc, m + (d + 1)) \in Seq(LineRefs)
      BY <1>2, <3>1
    <3>4. D(m) \in Seq(LineRefs) /\ D(m + d) \in Seq(LineRefs)
      BY <1>2, <3>1
    <3>5. Begins(D(m), D(m + d) \o Row(sc, m + (d + 1)))
      BY <3>2, <3>3, <3>4, BeginsConcat
    <3>6. QED
      BY <3>3, <3>5
  <2>2. QED
    BY <2>1
<1>5. S = Nat
  <2>1. S \in SUBSET Nat
    OBVIOUS
  <2>2. \A d \in S : d + 1 \in S
    BY <1>4
  <2> HIDE DEF S
  <2>3. QED
    BY <1>3, <2>1, <2>2, SetInduction
<1>6. ASSUME NEW m \in 0 .. n
      PROVE  Begins(D(m), D(n))
  <2>1. n - m \in Nat /\ m + (n - m) = n
    BY <1>1
  <2>2. n - m \in S
    BY <1>5, <2>1, Zenon
  <2>3. m + (n - m) <= n
    BY <1>1, <2>1
  <2>4. Begins(D(m), D(m + (n - m)))
    BY <2>2, <2>3
  <2>5. QED
    BY <2>1, <2>4
<1>7. QED
  BY <1>6 DEF n, D

LEMMA ConcatAppend ==
    ASSUME NEW s \in Seq(LineRefs), NEW t \in Seq(LineRefs), NEW e \in LineRefs
    PROVE  /\ Append(s \o t, e) = s \o Append(t, e)
           /\ Append(t, e) = t \o <<e>> /\ <<e>> \in Seq(LineRefs)
<1>1. <<e>> \in Seq(LineRefs) /\ s \o t \in Seq(LineRefs)
  BY ConcatProperties
<1>2. Append(t, e) = t \o <<e>> /\ Append(s \o t, e) = (s \o t) \o <<e>>
  BY <1>1, AppendIsConcat
<1>3. (s \o t) \o <<e>> = s \o (t \o <<e>>)
  BY <1>1, ConcatAssociative
<1>4. QED
  BY <1>1, <1>2, <1>3, Zenon

LEMMA ConcatTwice ==
    \A b, x, y \in Seq(LineRefs) : (b \o x) \o y = b \o (x \o y)
<1>1. ASSUME NEW b \in Seq(LineRefs), NEW x \in Seq(LineRefs), NEW y \in Seq(LineRefs)
      PROVE  (b \o x) \o y = b \o (x \o y)
  BY ConcatAssociative
<1>2. QED
  BY <1>1, Zenon

\* How the history grows, line by line.
LEMMA UptoFacts ==
    ASSUME NEW sc \in Scripts, NEW m \in Nat, Sourced(sc, m)
    PROVE  /\ Append(Done(sc, m - 1), Ref("main", m)) = Upto(sc, m, 0)
           /\ Upto(sc, m, Count(sc, "sub")) = Done(sc, m)
           /\ \A j \in 0 .. Count(sc, "sub") :
                /\ Upto(sc, m, j) \in Seq(LineRefs)
                /\ Append(Upto(sc, m, j), Ref("sub", j + 1)) = Upto(sc, m, j + 1)
                /\ Begins(Upto(sc, m, j), Done(sc, m))
<1> DEFINE n == Count(sc, "sub")
           d == Done(sc, m - 1)
           l == <<Ref("main", m)>>
           S(j) == SubLines(j)
<1>1. n \in Nat /\ m \in 1 .. Count(sc, "main") /\ m - 1 \in 0 .. Count(sc, "main")
  BY Counts DEF Sourced
<1>2. /\ d \in Seq(LineRefs) /\ l \in Seq(LineRefs) /\ Ref("main", m) \in LineRefs
      /\ d \o l \in Seq(LineRefs)
  <2>1. d \in Seq(LineRefs) /\ l \in Seq(LineRefs) /\ Ref("main", m) \in LineRefs
    BY <1>1, DoneFacts, RowFacts
  <2>2. QED
    BY <2>1, ConcatProperties
<1>3. \A j \in Nat : /\ S(j) \in Seq(LineRefs) /\ Len(S(j)) = j
                     /\ S(j + 1) = Append(S(j), Ref("sub", j + 1))
                     /\ Ref("sub", j + 1) \in LineRefs
                     /\ S(j + 1) = S(j) \o <<Ref("sub", j + 1)>>
                     /\ <<Ref("sub", j + 1)>> \in Seq(LineRefs)
  <2>1. ASSUME NEW j \in Nat
        PROVE  /\ S(j) \in Seq(LineRefs) /\ Len(S(j)) = j
               /\ S(j + 1) = Append(S(j), Ref("sub", j + 1))
               /\ Ref("sub", j + 1) \in LineRefs
    <3>1. Ref("sub", j + 1) \in LineRefs
      BY DEF Ref, LineRefs, FileNames
    <3>2. QED
      BY <3>1, SubLinesFacts, NextSubLine
  <2>2. ASSUME NEW j \in Nat
        PROVE  Append(S(j), Ref("sub", j + 1)) = S(j) \o <<Ref("sub", j + 1)>>
               /\ <<Ref("sub", j + 1)>> \in Seq(LineRefs)
    <3>1. S(j) \in Seq(LineRefs) /\ Ref("sub", j + 1) \in LineRefs
      BY <2>1
    <3> HIDE DEF S
    <3>2. QED
      BY <3>1, ConcatAppend
  <2>3. QED
    BY <2>1, <2>2
<1>4. \A j : Upto(sc, m, j) = (d \o l) \o S(j)
  BY DEF Upto
<1>5. Append(d, Ref("main", m)) = d \o l
  BY <1>2, AppendIsConcat
<1>6. Done(sc, m) = (d \o l) \o S(n)
  <2>1. Done(sc, m) = d \o Row(sc, m) /\ Row(sc, m) = l \o S(n)
    BY <1>1, DoneFacts, RowFacts
  <2>2. d \o (l \o S(n)) = (d \o l) \o S(n)
    BY <1>1, <1>2, <1>3, ConcatAssociative
  <2>3. QED
    BY <2>1, <2>2, Zenon
<1>7. S(0) = << >>
  BY <1>3, EmptySeq
<1> HIDE DEF n, d, l, S
<1>8. (d \o l) \o S(0) = d \o l
  BY <1>2, <1>7, ConcatEmptySeq
<1>9. ASSUME NEW j \in 0 .. n
      PROVE  /\ (d \o l) \o S(j) \in Seq(LineRefs)
             /\ Append((d \o l) \o S(j), Ref("sub", j + 1)) = (d \o l) \o S(j + 1)
  <2>1. j \in Nat
    BY <1>1
  <2>2. /\ S(j) \in Seq(LineRefs) /\ Ref("sub", j + 1) \in LineRefs
        /\ S(j + 1) = Append(S(j), Ref("sub", j + 1))
    BY <1>3, <2>1
  <2>3. (d \o l) \o S(j) \in Seq(LineRefs)
    BY <1>2, <2>2, ConcatProperties
  <2>4. Append((d \o l) \o S(j), Ref("sub", j + 1)) = (d \o l) \o Append(S(j), Ref("sub", j + 1))
    BY <1>2, <2>2, ConcatAppend
  <2>5. QED
    BY <2>2, <2>3, <2>4, Zenon
<1>10. ASSUME NEW j \in 0 .. n
       PROVE  Begins((d \o l) \o S(j), (d \o l) \o S(n))
  <2> DEFINE T == {e \in Nat : j + e <= n => Begins((d \o l) \o S(j), (d \o l) \o S(j + e))}
  <2>1. 0 \in T
    <3>1. j + 0 = j
      BY <1>1
    <3>2. ((d \o l) \o S(j)) \o << >> = (d \o l) \o S(j) /\ << >> \in Seq(LineRefs)
      BY <1>9, ConcatEmptySeq, EmptySeq
    <3>3. QED
      BY <3>1, <3>2 DEF Begins
  <2>2. ASSUME NEW e \in T
        PROVE  e + 1 \in T
    <3>1. SUFFICES ASSUME j + (e + 1) <= n
                   PROVE  Begins((d \o l) \o S(j), (d \o l) \o S(j + (e + 1)))
      OBVIOUS
    <3>2. e \in Nat /\ j + e \in 0 .. n /\ j + e <= n /\ j + (e + 1) = (j + e) + 1 /\ j + e \in Nat
      BY <1>1, <3>1
    <3>3. Begins((d \o l) \o S(j), (d \o l) \o S(j + e))
      BY <3>2
    <3>4. (d \o l) \o S(j) \in Seq(LineRefs) /\ (d \o l) \o S(j + e) \in Seq(LineRefs)
      BY <1>9, <3>2
    <3>5. <<Ref("sub", (j + e) + 1)>> \in Seq(LineRefs)
      BY <1>3, <3>2
    <3>6. Begins((d \o l) \o S(j), ((d \o l) \o S(j + e)) \o <<Ref("sub", (j + e) + 1)>>)
      BY <3>3, <3>4, <3>5, BeginsConcat
    <3>7. ((d \o l) \o S(j + e)) \o <<Ref("sub", (j + e) + 1)>> = (d \o l) \o S((j + e) + 1)
      <4>1. /\ S(j + e) \in Seq(LineRefs)
            /\ S((j + e) + 1) = S(j + e) \o <<Ref("sub", (j + e) + 1)>>
        BY <1>3, <3>2
      <4>2. ASSUME NEW x \in Seq(LineRefs), NEW y \in Seq(LineRefs)
            PROVE  ((d \o l) \o x) \o y = (d \o l) \o (x \o y)
        <5>1. d \o l \in Seq(LineRefs)
          BY <1>2
        <5>2. QED
          BY <5>1, ConcatTwice, Zenon
      <4>3. ((d \o l) \o S(j + e)) \o <<Ref("sub", (j + e) + 1)>>
              = (d \o l) \o (S(j + e) \o <<Ref("sub", (j + e) + 1)>>)
        BY <3>5, <4>1, <4>2, Zenon
      <4>4. QED
        BY <4>1, <4>3, Zenon
    <3>8. QED
      BY <3>2, <3>6, <3>7
  <2>3. T = Nat
    <3>1. T \in SUBSET Nat
      OBVIOUS
    <3>2. \A e \in T : e + 1 \in T
      BY <2>2
    <3> HIDE DEF T
    <3>3. QED
      BY <2>1, <3>1, <3>2, SetInduction
  <2>4. n - j \in Nat /\ j + (n - j) = n
    BY <1>1
  <2>5. n - j \in T /\ j + (n - j) <= n
    <3>1. j + (n - j) <= n
      BY <1>1, <2>4
    <3>2. n - j \in T
      BY <2>3, <2>4, Zenon
    <3>3. QED
      BY <3>1, <3>2
  <2>6. Begins((d \o l) \o S(j), (d \o l) \o S(j + (n - j)))
    BY <2>5
  <2>7. QED
    BY <2>4, <2>6
<1>11. QED
  BY <1>4, <1>5, <1>6, <1>8, <1>9, <1>10 DEF n, d, l, S

-----------------------------------------------------------------------------
(* What is left of an open file.                                             *)

LEMMA AtRead ==
    ASSUME NEW sc \in Scripts, NEW e \in OpenFiles, NEW p, At(sc, e, p),
           e.buf = << >>, NEW n \in 1 .. Len(e.unread)
    PROVE  At(sc, [e EXCEPT !.buf = SubSeq(e.unread, 1, n),
                            !.unread = SubSeq(e.unread, n + 1, Len(e.unread))], p)
<1> DEFINE u == e.unread
           m == Len(u)
           a == SubSeq(u, 1, n)
           b == SubSeq(u, n + 1, m)
           x == [e EXCEPT !.buf = a, !.unread = b]
<1>1. e.buf \in Seq(Nat) /\ u \in Seq(Nat) /\ e.file \in FileNames /\ m \in Nat /\ n \in 1 .. m
  BY LenProperties DEF OpenFiles
<1>2. << >> \o u = u
  BY <1>1, ConcatEmptySeq
<1>3. a \o b = u
  <2>1. 1 \in 1 .. m + 1 /\ n \in 1 - 1 .. m /\ m \in n .. m
    BY <1>1
  <2>2. SubSeq(u, 1, n) \o SubSeq(u, n + 1, m) = SubSeq(u, 1, m)
    BY <1>1, <2>1, ConcatAdjacentSubSeq
  <2>3. SubSeq(u, 1, m) = u
    BY <1>1, SubSeqFull
  <2>4. QED
    BY <2>2, <2>3
<1>4. x.buf = a /\ x.unread = b /\ x.file = e.file
  BY DEF OpenFiles
<1> HIDE DEF x, a, b
<1>5. x.buf \o x.unread = e.buf \o e.unread
  BY <1>2, <1>3, <1>4
<1>6. At(sc, x, p)
  BY <1>4, <1>5 DEF At
<1>7. QED
  BY <1>6 DEF x, a, b

LEMMA TailOfConcat ==
    ASSUME NEW S, NEW s \in Seq(S), NEW u \in Seq(S), s # << >>
    PROVE  /\ s \o u \in Seq(S) /\ s \o u # << >>
           /\ Head(s \o u) = Head(s) /\ Tail(s \o u) = Tail(s) \o u
<1> DEFINE q == s \o u
           r == Tail(s) \o u
<1>1. PICK a \in Nat \ {0} : a = Len(s)
  BY EmptySeq
<1>2. PICK b \in Nat : b = Len(u)
  BY LenProperties
<1>3. /\ q \in Seq(S) /\ Len(q) = a + b
      /\ \A i \in 1 .. a + b : q[i] = IF i <= a THEN s[i] ELSE u[i - a]
  BY <1>1, <1>2, ConcatProperties
<1>4. /\ Tail(s) \in Seq(S) /\ Len(Tail(s)) = a - 1 /\ a - 1 \in Nat
      /\ \A i \in 1 .. a - 1 : Tail(s)[i] = s[i + 1]
  BY <1>1, HeadTailProperties
<1>5. PICK c \in Nat : c = a - 1
  BY <1>4
<1>6. /\ r \in Seq(S) /\ Len(r) = c + b
      /\ \A i \in 1 .. c + b : r[i] = IF i <= c THEN Tail(s)[i] ELSE u[i - c]
  <2>1. /\ r \in Seq(S) /\ Len(r) = Len(Tail(s)) + Len(u)
        /\ \A i \in 1 .. Len(Tail(s)) + Len(u) :
             r[i] = IF i <= Len(Tail(s)) THEN Tail(s)[i] ELSE u[i - Len(Tail(s))]
    BY <1>4, ConcatProperties
  <2>2. Len(Tail(s)) = c /\ Len(u) = b
    BY <1>2, <1>4, <1>5
  <2> HIDE DEF r
  <2>3. QED
    BY <2>1, <2>2
<1> HIDE DEF q, r
<1>7. q # << >>
  <2>1. Len(q) # 0
    BY <1>1, <1>2, <1>3
  <2>2. QED
    BY <1>3, <2>1, EmptySeq
<1>8. /\ Tail(q) \in Seq(S) /\ Len(Tail(q)) = c + b
      /\ \A i \in 1 .. c + b : Tail(q)[i] = q[i + 1]
  <2>1. Len(Tail(q)) = (a + b) - 1
    BY <1>3, <1>7, HeadTailProperties
  <2>2. (a + b) - 1 = c + b
    BY <1>1, <1>2, <1>5
  <2>3. QED
    BY <1>3, <1>7, <2>1, <2>2, HeadTailProperties
<1>9. ASSUME NEW i \in 1 .. c + b
      PROVE  Tail(q)[i] = r[i]
  <2>1. /\ i \in Nat /\ i + 1 \in 1 .. a + b /\ (i + 1) - a = i - c
        /\ i <= c <=> i + 1 <= a
    BY <1>1, <1>2, <1>5
  <2>2. CASE i <= c
    <3>1. i \in 1 .. a - 1
      BY <1>1, <1>5, <2>1, <2>2
    <3>2. r[i] = s[i + 1]
      BY <1>4, <1>6, <2>2, <3>1
    <3>3. q[i + 1] = s[i + 1]
      BY <1>3, <2>1, <2>2
    <3>4. QED
      BY <1>8, <3>2, <3>3
  <2>3. CASE ~(i <= c)
    <3>1. r[i] = u[i - c]
      BY <1>6, <2>3
    <3>2. q[i + 1] = u[(i + 1) - a]
      BY <1>3, <2>1, <2>3
    <3>3. QED
      BY <1>8, <2>1, <3>1, <3>2
  <2>4. QED
    BY <2>2, <2>3
<1>10. Tail(q) = r
  BY <1>6, <1>8, <1>9, SeqEqual
<1>11. Head(q) = Head(s)
  <2>1. 1 \in 1 .. a + b /\ 1 <= a
    BY <1>1, <1>2
  <2>2. q[1] = s[1]
    BY <1>3, <2>1
  <2>3. Head(q) = q[1] /\ Head(s) = s[1]
    BY <1>3, <1>7
  <2>4. QED
    BY <2>2, <2>3
<1>12. QED
  BY <1>3, <1>7, <1>10, <1>11 DEF q, r

\* A file after its first character in the buffer was taken.
Taken(e) == [e EXCEPT !.buf = Tail(e.buf)]

LEMMA AtTake ==
    ASSUME NEW sc \in Scripts, NEW e \in OpenFiles, NEW p \in Nat, At(sc, e, p),
           e.buf # << >>
    PROVE  /\ p + 1 \in 1 .. Len(Chars(sc[e.file]))
           /\ Head(e.buf) = Chars(sc[e.file])[p + 1]
           /\ At(sc, Taken(e), p + 1)
<1> DEFINE c == Chars(sc[e.file])
           t == Len(c)
           x == Taken(e)
           q == e.buf \o e.unread
<1>1. e.buf \in Seq(Nat) /\ e.unread \in Seq(Nat) /\ e.file \in FileNames
  BY DEF OpenFiles
<1>2. c \in Seq(Nat) /\ t \in Nat
  BY <1>1, TextFacts
<1>3. p \in 0 .. t /\ q = SubSeq(c, p + 1, t)
  BY DEF At
<1>4. q # << >> /\ Head(q) = Head(e.buf) /\ Tail(q) = Tail(e.buf) \o e.unread
  BY <1>1, TailOfConcat
<1>5. x.buf = Tail(e.buf) /\ x.unread = e.unread /\ x.file = e.file
  BY DEF OpenFiles, Taken
<1> HIDE DEF x, q, c, t
<1>6. p < t
  <2>1. SUFFICES ASSUME ~(p < t)
                 PROVE  FALSE
    OBVIOUS
  <2>2. t < p + 1 /\ p + 1 \in Int /\ t \in Int
    BY <1>2, <1>3, <2>1
  <2>3. SubSeq(c, p + 1, t) = << >>
    BY <2>2, SubSeqEmpty
  <2>4. QED
    BY <1>3, <1>4, <2>3
<1>7. p + 1 \in 1 .. t /\ t \in p + 1 .. t /\ p + 1 \in 0 .. t
  BY <1>2, <1>6
<1>8. Head(q) = c[p + 1] /\ Tail(q) = SubSeq(c, (p + 1) + 1, t)
  BY <1>2, <1>3, <1>7, HeadTailOfSubSeq DEF t
<1>9. At(sc, x, p + 1)
  <2>1. x.buf \o x.unread = SubSeq(c, (p + 1) + 1, t)
    BY <1>4, <1>5, <1>8
  <2>2. QED
    BY <1>5, <1>7, <2>1 DEF At, c, t
<1>10. QED
  BY <1>4, <1>7, <1>8, <1>9 DEF x, c, t

LEMMA AtEnd ==
    ASSUME NEW sc \in Scripts, NEW e \in OpenFiles, NEW p \in Nat, At(sc, e, p),
           e.buf = << >>, e.unread = << >>
    PROVE  p = Len(Chars(sc[e.file]))
<1> DEFINE c == Chars(sc[e.file])
           t == Len(c)
<1>1. e.file \in FileNames
  BY DEF OpenFiles
<1>2. c \in Seq(Nat) /\ t \in Nat /\ p \in 0 .. t
  BY <1>1, TextFacts DEF At
<1>3. << >> \o << >> = SubSeq(c, p + 1, t)
  BY DEF At
<1>4. << >> \o << >> = << >>
  <2>1. << >> \in Seq(Nat)
    BY EmptySeq
  <2>2. QED
    BY <2>1, ConcatEmptySeq
<1>5. SUFFICES ASSUME p # t
               PROVE  FALSE
  OBVIOUS
<1>6. p + 1 \in 1 .. t /\ t \in p + 1 .. t /\ p + 1 \in Int /\ t \in Int
  BY <1>2, <1>5
<1>7. \A i \in p + 1 .. t : c[i] \in Nat
  <2>1. \A i \in p + 1 .. t : i \in 1 .. t
    BY <1>2
  <2>2. QED
    BY <1>2, <2>1, ElementOfSeq
<1>8. Len(SubSeq(c, p + 1, t)) = t - (p + 1) + 1
  <2>1. Len(SubSeq(c, p + 1, t)) = IF p + 1 <= t THEN t - (p + 1) + 1 ELSE 0
    BY <1>6, <1>7, SubSeqProperties
  <2> HIDE DEF c
  <2>2. QED
    BY <1>6, <2>1
<1>9. Len(SubSeq(c, p + 1, t)) = 0
  BY <1>3, <1>4, EmptySeq
<1> HIDE DEF c, t
<1>10. QED
  BY <1>6, <1>8, <1>9

LEMMA AtOpened ==
    ASSUME script \in Scripts
    PROVE  At(script, Opened("sub"), 0)
<1> DEFINE e == Opened("sub")
           c == Chars(script["sub"])
<1>1. e.file = "sub" /\ e.buf = << >> /\ e.unread = c
  BY OpenedFile DEF FileNames
<1>2. c \in Seq(Nat) /\ Len(c) \in Nat
  BY TextFacts DEF FileNames
<1>3. << >> \o c = c /\ SubSeq(c, 1, Len(c)) = c
  BY <1>2, ConcatEmptySeq, SubSeqFull
<1> HIDE DEF e, c
<1>4. 0 \in 0 .. Len(c) /\ 0 + 1 = 1
  BY <1>2
<1>5. e.buf \o e.unread = SubSeq(c, 0 + 1, Len(c))
  BY <1>1, <1>3, <1>4
<1>6. QED
  BY <1>1, <1>4, <1>5 DEF At, e, c

\* Which character stands where.
LEMMA Characters ==
    ASSUME NEW sc \in Scripts, NEW f \in FileNames
    PROVE  LET c == Chars(sc[f])
               n == Count(sc, f)
           IN  /\ \A k \in 0 .. n :
                    /\ 2 * k = Len(c) => k = n
                    /\ 2 * k + 1 \in 1 .. Len(c) => k + 1 \in 1 .. n /\ c[2 * k + 1] = k + 1
               /\ \A k \in 1 .. n :
                    /\ 2 * k - 1 = Len(c) => k = n
                    /\ 2 * k \in 1 .. Len(c) => c[2 * k] = Newline
<1> DEFINE c == Chars(sc[f])
           n == Count(sc, f)
           t == Len(c)
<1>1. /\ n \in Nat /\ t \in Nat /\ (t = 2 * n \/ t = 2 * n - 1)
      /\ \A i \in 1 .. t : c[i] = IF i % 2 = 1 THEN (i + 1) \div 2 ELSE Newline
  BY TextFacts DEF Count
<1> HIDE DEF c, n, t
<1>2. ASSUME NEW k \in 0 .. n
      PROVE  /\ 2 * k = t => k = n
             /\ 2 * k + 1 \in 1 .. t => k + 1 \in 1 .. n /\ c[2 * k + 1] = k + 1
  <2>1. k \in Nat /\ k <= n
    BY <1>1
  <2>2. 2 * k = t => k = n
    BY <1>1, <2>1
  <2>3. ASSUME 2 * k + 1 \in 1 .. t
        PROVE  k + 1 \in 1 .. n /\ c[2 * k + 1] = k + 1
    <3>1. (2 * k + 1) % 2 = 1 /\ ((2 * k + 1) + 1) \div 2 = k + 1
      BY <2>1
    <3>2. c[2 * k + 1] = k + 1
      BY <1>1, <2>3, <3>1
    <3>3. 2 * k + 1 <= 2 * n
      BY <1>1, <2>1, <2>3
    <3>4. k + 1 <= n
      BY <1>1, <2>1, <3>3
    <3>5. QED
      BY <1>1, <2>1, <3>2, <3>4
  <2>4. QED
    BY <2>2, <2>3
<1>3. ASSUME NEW k \in 1 .. n
      PROVE  /\ 2 * k - 1 = t => k = n
             /\ 2 * k \in 1 .. t => c[2 * k] = Newline
  <2>1. k \in Nat /\ k >= 1 /\ k <= n
    BY <1>1
  <2>2. 2 * k - 1 = t => k = n
    BY <1>1, <2>1
  <2>3. (2 * k) % 2 = 0
    BY <2>1
  <2>4. 2 * k \in 1 .. t => c[2 * k] = Newline
    BY <1>1, <2>3
  <2>5. QED
    BY <2>2, <2>4
<1>4. QED
  BY <1>2, <1>3 DEF c, n, t

-----------------------------------------------------------------------------
(* The order of execution, step by step.                                     *)

LEMMA NewTop ==
    ASSUME NEW s \in Seq(OpenFiles), s # << >>, NEW x \in OpenFiles
    PROVE  /\ [s EXCEPT ![1] = x] # << >> /\ Head([s EXCEPT ![1] = x]) = x
           /\ Tail([s EXCEPT ![1] = x]) = Tail(s)
           /\ Len([s EXCEPT ![1] = x]) = Len(s)
<1> DEFINE t == [s EXCEPT ![1] = x]
<1>1. PICK n \in Nat \ {0} : n = Len(s)
  BY EmptySeq
<1>2. 1 \in 1 .. Len(s)
  BY <1>1
<1>3. /\ t \in Seq(OpenFiles) /\ Len(t) = Len(s)
      /\ \A j \in 1 .. Len(s) : t[j] = IF j = 1 THEN x ELSE s[j]
  BY <1>2, ExceptSeq
<1> HIDE DEF t
<1>4. t # << >> /\ Head(t) = x
  <2>1. t # << >>
    BY <1>1, <1>3, EmptySeq
  <2>2. t[1] = x
    BY <1>2, <1>3
  <2>3. Head(t) = t[1]
    BY <1>3, <2>1
  <2>4. QED
    BY <2>1, <2>2, <2>3
<1>5. /\ Tail(s) \in Seq(OpenFiles) /\ Len(Tail(s)) = n - 1
      /\ \A j \in 1 .. n - 1 : Tail(s)[j] = s[j + 1]
  BY <1>1, HeadTailProperties
<1>6. /\ Tail(t) \in Seq(OpenFiles) /\ Len(Tail(t)) = n - 1
      /\ \A j \in 1 .. n - 1 : Tail(t)[j] = t[j + 1]
  <2>1. Len(t) = n
    BY <1>1, <1>3
  <2>2. QED
    BY <1>3, <1>4, <2>1, HeadTailProperties
<1>7. \A j \in 1 .. n - 1 : j + 1 \in 1 .. n /\ j + 1 # 1
  BY <1>1
<1>8. \A j \in 1 .. n - 1 : Tail(t)[j] = Tail(s)[j]
  BY <1>1, <1>3, <1>5, <1>6, <1>7
<1>9. Tail(t) = Tail(s)
  BY <1>5, <1>6, <1>8, SeqEqual
<1>10. QED
  BY <1>3, <1>4, <1>9 DEF t

LEMMA Pushed ==
    ASSUME NEW s \in Seq(OpenFiles), NEW x \in OpenFiles
    PROVE  /\ <<x>> \o s # << >> /\ Head(<<x>> \o s) = x /\ Tail(<<x>> \o s) = s
           /\ Len(<<x>> \o s) = Len(s) + 1
<1>1. <<x>> \in Seq(OpenFiles) /\ <<x>> # << >>
  OBVIOUS
<1>2. Head(<<x>>) = x /\ Tail(<<x>>) = << >> /\ Len(<<x>>) = 1
  <2>1. Len(<<x>>) = 1 /\ Head(<<x>>) = x
    OBVIOUS
  <2>2. Tail(<<x>>) \in Seq(OpenFiles) /\ Len(Tail(<<x>>)) = 1 - 1
    BY <1>1, <2>1, HeadTailProperties
  <2>3. Tail(<<x>>) = << >>
    BY <2>2, EmptySeq
  <2>4. QED
    BY <2>1, <2>3
<1>3. /\ <<x>> \o s # << >> /\ Head(<<x>> \o s) = Head(<<x>>)
      /\ Tail(<<x>> \o s) = Tail(<<x>>) \o s
  BY <1>1, TailOfConcat
<1>4. << >> \o s = s
  BY ConcatEmptySeq
<1>5. Len(<<x>> \o s) = Len(<<x>>) + Len(s) /\ Len(s) \in Nat
  BY <1>1, ConcatProperties, LenProperties
<1>6. Len(<<x>> \o s) = Len(s) + 1
  BY <1>2, <1>5
<1>7. QED
  BY <1>2, <1>3, <1>4, <1>6, Zenon

\* Another copy of the top file, of which as much is left.
LEMMA SamePlace ==
    ASSUME NEW sc \in Scripts, NEW s, NEW t, NEW l, NEW h, s # << >>, t # << >>,
           Head(t).file = Head(s).file, Tail(t) = Tail(s),
           \A p : At(sc, Head(s), p) => At(sc, Head(t), p)
    PROVE  /\ Between(sc, s, h) => Between(sc, t, h)
           /\ InLine(sc, s, l, h) => InLine(sc, t, l, h)
<1>1. Between(sc, s, h) => Between(sc, t, h)
  BY DEF Between
<1>2. InLine(sc, s, l, h) => InLine(sc, t, l, h)
  BY DEF InLine
<1>3. QED
  BY <1>1, <1>2

\* The first character of a line is not a newline, the second one is.
LEMMA TakeStep ==
    ASSUME NEW sc \in Scripts, NEW s \in Seq(OpenFiles), s # << >>, NEW t, t # << >>, NEW h,
           NEW l, Head(s) \in OpenFiles, Head(s).buf # << >>,
           Head(t) = Taken(Head(s)), Tail(t) = Tail(s)
    PROVE  /\ Between(sc, s, h) =>
                /\ Head(Head(s).buf) # Newline
                /\ InLine(sc, t, Ref(Head(s).file, Head(Head(s).buf)), h)
           /\ InLine(sc, s, l, h) =>
                /\ Head(Head(s).buf) = Newline
                /\ LineRead(sc, t, l, h)
<1> DEFINE e == Head(s)
           f == e.file
           c == Chars(sc[f])
           n == Count(sc, f)
<1>1. f \in FileNames /\ n \in Nat
  <2>1. f \in FileNames
    BY DEF OpenFiles
  <2>2. f = "main" \/ f = "sub"
    BY <2>1 DEF FileNames
  <2>3. QED
    BY <2>1, <2>2, Counts
<1>2. Head(t).file = f
  BY DEF OpenFiles, Taken
<1>3. ASSUME NEW p \in Nat, At(sc, e, p)
      PROVE  /\ p + 1 \in 1 .. Len(c) /\ Head(e.buf) = c[p + 1]
             /\ At(sc, Head(t), p + 1)
  <2>1. /\ e \in OpenFiles /\ e.buf # << >> /\ c = Chars(sc[e.file])
        /\ Head(t) = Taken(e)
    OBVIOUS
  <2> HIDE DEF e, f, c
  <2>2. /\ p + 1 \in 1 .. Len(Chars(sc[e.file])) /\ Head(e.buf) = Chars(sc[e.file])[p + 1]
        /\ At(sc, Taken(e), p + 1)
    BY <1>3, <2>1, AtTake
  <2>3. QED
    BY <2>1, <2>2, Zenon
<1>4. ASSUME Between(sc, s, h)
      PROVE  /\ Head(e.buf) # Newline
             /\ InLine(sc, t, Ref(f, Head(e.buf)), h)
  <2>1. PICK m \in 0 .. Count(sc, "main"), k \in 0 .. n :
          At(sc, e, 2 * k) /\ Context(sc, f, Tail(s), h, m, k)
    BY <1>4 DEF Between
  <2>2. 2 * k \in Nat /\ k \in Nat
    BY <1>1
  <2>3. /\ 2 * k + 1 \in 1 .. Len(c) /\ Head(e.buf) = c[2 * k + 1]
        /\ At(sc, Head(t), 2 * k + 1)
    BY <1>3, <2>1, <2>2, Zenon
  <2>4. k + 1 \in 1 .. n /\ c[2 * k + 1] = k + 1
    BY <1>1, <2>3, Characters
  <2>5. /\ Ref(f, k + 1).file = f /\ Ref(f, k + 1).number = k + 1
    BY DEF Ref
  <2>6. 2 * (k + 1) - 1 = 2 * k + 1 /\ (k + 1) - 1 = k /\ k + 1 # 0
    BY <2>2
  <2>7. InLine(sc, t, Ref(f, k + 1), h)
    BY <1>2, <2>1, <2>3, <2>4, <2>5, <2>6 DEF InLine
  <2>8. Head(e.buf) = k + 1
    BY <2>3, <2>4
  <2> HIDE DEF e, f
  <2>9. QED
    BY <2>6, <2>7, <2>8 DEF Newline
<1>5. ASSUME InLine(sc, s, l, h)
      PROVE  Head(e.buf) = Newline /\ LineRead(sc, t, l, h)
  <2>1. /\ l.file = f /\ l.number \in 1 .. n /\ At(sc, e, 2 * l.number - 1)
        /\ \E m \in 0 .. Count(sc, "main") : Context(sc, l.file, Tail(s), h, m, l.number - 1)
    BY <1>5 DEF InLine
  <2>2. 2 * l.number - 1 \in Nat /\ (2 * l.number - 1) + 1 = 2 * l.number
    BY <1>1, <2>1
  <2>3. /\ 2 * l.number \in 1 .. Len(c) /\ Head(e.buf) = c[2 * l.number]
        /\ At(sc, Head(t), 2 * l.number)
    <3>1. /\ (2 * l.number - 1) + 1 \in 1 .. Len(c)
          /\ Head(e.buf) = c[(2 * l.number - 1) + 1]
          /\ At(sc, Head(t), (2 * l.number - 1) + 1)
      BY <1>3, <2>1, <2>2, Zenon
    <3>2. QED
      BY <2>2, <3>1
  <2>4. c[2 * l.number] = Newline
    BY <1>1, <2>1, <2>3, Characters
  <2>5. LineRead(sc, t, l, h)
    BY <1>2, <2>1, <2>3 DEF LineRead
  <2>6. QED
    BY <2>3, <2>4, <2>5
<1>6. QED
  BY <1>4, <1>5

LEMMA RestBetween ==
    ASSUME NEW sc \in Scripts, NEW s, NEW m \in 0 .. Count(sc, "main"), Rest(sc, s, m)
    PROVE  Between(sc, s, Done(sc, m))
<1>1. CASE s = << >> /\ m = Count(sc, "main")
  BY <1>1 DEF Between
<1>2. CASE s # << >> /\ Tail(s) = << >> /\ Head(s).file = "main" /\ At(sc, Head(s), 2 * m)
  <2>1. Context(sc, Head(s).file, Tail(s), Done(sc, m), m, m)
    BY <1>2 DEF Context
  <2>2. m \in 0 .. Count(sc, Head(s).file)
    BY <1>2
  <2>3. QED
    BY <1>2, <2>1, <2>2 DEF Between
<1>3. QED
  BY <1>1, <1>2 DEF Rest

\* At its end a file is left; a line may have been read by then.
LEMMA EndStep ==
    ASSUME NEW sc \in Scripts, NEW s \in Seq(OpenFiles), s # << >>, NEW h, NEW l,
           Head(s) \in OpenFiles, Head(s).buf = << >>, Head(s).unread = << >>
    PROVE  /\ Between(sc, s, h) => Between(sc, Tail(s), h)
           /\ InLine(sc, s, l, h) => LineRead(sc, Tail(s), l, h)
<1> DEFINE e == Head(s)
           f == e.file
           c == Chars(sc[f])
           n == Count(sc, f)
<1>1. f \in FileNames /\ n \in Nat
  <2>1. f \in FileNames
    BY DEF OpenFiles
  <2>2. f = "main" \/ f = "sub"
    BY <2>1 DEF FileNames
  <2>3. QED
    BY <2>1, <2>2, Counts
<1>2. ASSUME Between(sc, s, h)
      PROVE  Between(sc, Tail(s), h)
  <2>1. PICK m \in 0 .. Count(sc, "main"), k \in 0 .. n :
          At(sc, e, 2 * k) /\ Context(sc, f, Tail(s), h, m, k)
    BY <1>2 DEF Between
  <2>2. 2 * k \in Nat
    BY <1>1
  <2>3. 2 * k = Len(c)
    BY <2>1, <2>2, AtEnd
  <2>4. k = n
    BY <1>1, <2>3, Characters
  <2>5. CASE f = "main" /\ Tail(s) = << >> /\ h = Done(sc, k)
    BY <2>4, <2>5 DEF Between
  <2>6. CASE f = "sub" /\ Sourced(sc, m) /\ Rest(sc, Tail(s), m) /\ h = Upto(sc, m, k)
    <3>1. m \in Nat
      BY Counts
    <3>2. Upto(sc, m, Count(sc, "sub")) = Done(sc, m)
      BY <2>6, <3>1, UptoFacts
    <3>3. h = Done(sc, m)
      BY <2>4, <2>6, <3>2
    <3>4. Between(sc, Tail(s), Done(sc, m))
      BY <2>6, RestBetween
    <3>5. QED
      BY <3>3, <3>4
  <2>7. QED
    BY <2>1, <2>5, <2>6 DEF Context
<1>3. ASSUME InLine(sc, s, l, h)
      PROVE  LineRead(sc, Tail(s), l, h)
  <2>1. /\ l.file = f /\ l.number \in 1 .. n /\ At(sc, e, 2 * l.number - 1)
        /\ \E m \in 0 .. Count(sc, "main") : Context(sc, l.file, Tail(s), h, m, l.number - 1)
    BY <1>3 DEF InLine
  <2>2. 2 * l.number - 1 \in Nat
    BY <1>1, <2>1
  <2>3. 2 * l.number - 1 = Len(c)
    BY <2>1, <2>2, AtEnd
  <2>4. l.number = n
    BY <1>1, <2>1, <2>3, Characters
  <2>5. QED
    BY <2>1, <2>4 DEF LineRead
<1>4. QED
  BY <1>2, <1>3

\* What the execution of a line makes of the history.
LEMMA LineStep ==
    ASSUME NEW sc \in Scripts, NEW s \in Seq(OpenFiles), NEW l \in LineRefs, NEW h,
           LineRead(sc, s, l, h)
    PROVE  /\ Append(h, l) \in Seq(LineRefs)
           /\ Begins(Append(h, l), Done(sc, Count(sc, "main")))
           /\ sc[l.file].lines[l.number] # "source" => Between(sc, s, Append(h, l))
           /\ sc[l.file].lines[l.number] = "source" =>
                /\ Len(s) <= 1 /\ l.number \in 0 .. Count(sc, "main")
                /\ Sourced(sc, l.number) /\ Rest(sc, s, l.number)
                /\ Append(h, l) = Upto(sc, l.number, 0)
<1> DEFINE k == l.number
           d == Done(sc, Count(sc, "main"))
<1>1. k \in 1 .. Count(sc, l.file) /\ l.file \in FileNames /\ k \in Nat
  BY DEF LineRead, LineRefs
<1>2. PICK m \in 0 .. Count(sc, "main") :
        \/ /\ s # << >> /\ l.file = Head(s).file /\ At(sc, Head(s), 2 * k)
           /\ Context(sc, l.file, Tail(s), h, m, k - 1)
        \/ k = Count(sc, l.file) /\ Context(sc, l.file, s, h, m, k - 1)
  BY DEF LineRead
<1>3. Count(sc, "main") \in Nat /\ Count(sc, "sub") \in Nat /\ m \in Nat
  BY Counts
<1>4. l = Ref(l.file, k)
  BY DEF LineRefs, Ref
<1>5. CASE l.file = "main"
  <2>1. h = Done(sc, k - 1) /\ Rest(sc, s, k)
    <3>1. CASE /\ s # << >> /\ l.file = Head(s).file /\ At(sc, Head(s), 2 * k)
               /\ Context(sc, l.file, Tail(s), h, m, k - 1)
      BY <1>5, <3>1 DEF Context, Rest
    <3>2. CASE k = Count(sc, l.file) /\ Context(sc, l.file, s, h, m, k - 1)
      BY <1>5, <3>2 DEF Context, Rest
    <3>3. QED
      BY <1>2, <3>1, <3>2
  <2>2. k \in 1 .. Count(sc, "main") /\ k \in 0 .. Count(sc, "main")
        /\ k - 1 \in 0 .. Count(sc, "main")
    BY <1>1, <1>3, <1>5
  <2>3. Append(h, l) = Append(Done(sc, k - 1), Ref("main", k))
    BY <1>4, <1>5, <2>1, Zenon
  <2>4. Begins(Done(sc, k), d) /\ Done(sc, k) \in Seq(LineRefs)
    BY <2>2, DoneBegins, DoneFacts
  <2>5. CASE Sourced(sc, k)
    <3>1. sc[l.file].lines[k] = "source"
      BY <1>5, <2>5 DEF Sourced
    <3>2. Append(h, l) = Upto(sc, k, 0)
      BY <1>1, <2>3, <2>5, UptoFacts
    <3>3. 0 \in 0 .. Count(sc, "sub")
      BY <1>3
    <3>4. Upto(sc, k, 0) \in Seq(LineRefs) /\ Begins(Upto(sc, k, 0), Done(sc, k))
      BY <1>1, <2>5, <3>3, UptoFacts
    <3>5. Begins(Upto(sc, k, 0), d)
      BY <1>3, <2>4, <3>4, DoneFacts, BeginsTransitive
    <3>6. Len(s) <= 1
      <4>1. CASE s = << >>
        BY <4>1, EmptySeq
      <4>2. CASE s # << >> /\ Tail(s) = << >>
        <5>1. Len(Tail(s)) = Len(s) - 1 /\ Len(s) \in Nat
          BY <4>2, HeadTailProperties, LenProperties
        <5>2. Len(Tail(s)) = 0
          BY <4>2, EmptySeq
        <5>3. \A a \in Nat : a - 1 = 0 => a <= 1
          OBVIOUS
        <5>4. QED
          BY <5>1, <5>2, <5>3
      <4>3. QED
        BY <2>1, <4>1, <4>2 DEF Rest
    <3>7. QED
      BY <2>1, <2>2, <2>5, <3>1, <3>2, <3>4, <3>5, <3>6
  <2>6. CASE ~Sourced(sc, k)
    <3>1. sc[l.file].lines[k] # "source"
      BY <1>5, <2>2, <2>6 DEF Sourced
    <3>2. Done(sc, k) = Done(sc, k - 1) \o <<Ref("main", k)>>
      <4>1. Done(sc, k) = Done(sc, k - 1) \o Row(sc, k)
        BY <2>2, DoneFacts
      <4>2. Row(sc, k) = <<Ref("main", k)>>
        BY <1>1, <2>6, RowFacts
      <4>3. QED
        BY <4>1, <4>2
    <3>3. Append(Done(sc, k - 1), Ref("main", k)) = Done(sc, k - 1) \o <<Ref("main", k)>>
      <4>1. Done(sc, k - 1) \in Seq(LineRefs) /\ Ref("main", k) \in LineRefs
        BY <1>1, <2>2, DoneFacts, RowFacts
      <4>2. QED
        BY <4>1, AppendIsConcat
    <3>4. Append(h, l) = Done(sc, k)
      BY <2>3, <3>2, <3>3
    <3>5. Between(sc, s, Done(sc, k))
      BY <2>1, <2>2, RestBetween
    <3>6. QED
      BY <2>4, <3>1, <3>4, <3>5
  <2>7. QED
    BY <2>5, <2>6
<1>6. CASE l.file = "sub"
  <2>1. Sourced(sc, m) /\ h = Upto(sc, m, k - 1)
    BY <1>2, <1>6 DEF Context
  <2>2. k \in 1 .. Count(sc, "sub") /\ k \in 0 .. Count(sc, "sub")
        /\ k - 1 \in 0 .. Count(sc, "sub") /\ (k - 1) + 1 = k
    BY <1>1, <1>3, <1>6
  <2>3. sc[l.file].lines[k] # "source"
    <3>1. sc["sub"].lines \in Seq(SubCommands) /\ "source" \notin SubCommands
      BY ScriptLines, ConsoleAssumption
    <3>2. sc["sub"].lines[k] \in SubCommands
      BY <2>2, <3>1, ElementOfSeq DEF Count
    <3>3. QED
      BY <1>6, <3>1, <3>2
  <2>4. Append(h, l) = Upto(sc, m, k)
    <3>1. Append(Upto(sc, m, k - 1), Ref("sub", (k - 1) + 1)) = Upto(sc, m, (k - 1) + 1)
      BY <1>3, <2>1, <2>2, UptoFacts
    <3>2. QED
      BY <1>4, <1>6, <2>1, <2>2, <3>1, Zenon
  <2>5. Upto(sc, m, k) \in Seq(LineRefs) /\ Begins(Upto(sc, m, k), Done(sc, m))
    BY <1>3, <2>1, <2>2, UptoFacts
  <2>6. Begins(Upto(sc, m, k), d)
    <3>1. Begins(Done(sc, m), d) /\ Done(sc, m) \in Seq(LineRefs) /\ d \in Seq(LineRefs)
      BY <1>3, DoneBegins, DoneFacts
    <3>2. QED
      BY <2>5, <3>1, BeginsTransitive
  <2>7. Between(sc, s, Upto(sc, m, k))
    <3>1. CASE /\ s # << >> /\ l.file = Head(s).file /\ At(sc, Head(s), 2 * k)
               /\ Context(sc, l.file, Tail(s), h, m, k - 1)
      <4>1. Rest(sc, Tail(s), m)
        BY <1>6, <3>1 DEF Context
      <4>2. Context(sc, Head(s).file, Tail(s), Upto(sc, m, k), m, k)
        BY <1>6, <2>1, <3>1, <4>1 DEF Context
      <4>3. k \in 0 .. Count(sc, Head(s).file)
        BY <1>6, <2>2, <3>1
      <4>4. QED
        BY <3>1, <4>2, <4>3 DEF Between
    <3>2. CASE k = Count(sc, l.file) /\ Context(sc, l.file, s, h, m, k - 1)
      <4>1. Rest(sc, s, m)
        BY <1>6, <3>2 DEF Context
      <4>2. Upto(sc, m, Count(sc, "sub")) = Done(sc, m)
        BY <1>3, <2>1, UptoFacts
      <4>3. Upto(sc, m, k) = Done(sc, m)
        BY <1>6, <3>2, <4>2, Zenon
      <4>4. Between(sc, s, Done(sc, m))
        BY <4>1, RestBetween
      <4>5. QED
        BY <4>3, <4>4
    <3>3. QED
      BY <1>2, <3>1, <3>2
  <2>8. QED
    BY <2>3, <2>4, <2>5, <2>6, <2>7
<1>7. QED
  BY <1>1, <1>5, <1>6 DEF FileNames

LEMMA ExpansionIsDone ==
    ASSUME script \in Scripts
    PROVE  /\ Expansion = Done(script, Count(script, "main"))
           /\ Expansion \in Seq(LineRefs)
<1> DEFINE n == Count(script, "main")
<1>1. n \in Nat /\ Count(script, "sub") \in Nat
  BY Counts
<1>2. /\ DOMAIN script["main"].lines = 1 .. n
      /\ DOMAIN script["sub"].lines = 1 .. Count(script, "sub")
  BY ScriptLines, LenProperties DEF Count, FileNames
<1>3. Expansion = FlattenSeq(Rows(script))
  <2> DEFINE Lines(f) == [i \in DOMAIN script[f].lines |-> [file |-> f, number |-> i]]
             Expand(x) == <<x>> \o (IF CommandAt(x) = "source" THEN Lines("sub") ELSE << >>)
             rows == [i \in DOMAIN Lines("main") |-> Expand(Lines("main")[i])]
  <2>1. Expansion = FlattenSeq(rows)
    BY DEF Expansion
  <2>2. DOMAIN Lines("main") = 1 .. n
    BY <1>2
  <2>3. Lines("sub") = SubLines(Count(script, "sub"))
    BY <1>2 DEF SubLines, Ref
  <2>4. ASSUME NEW i \in 1 .. n
        PROVE  Expand(Lines("main")[i]) = Row(script, i)
    <3>1. Lines("main")[i] = Ref("main", i)
      BY <1>2, <2>4 DEF Ref
    <3>2. CommandAt(Ref("main", i)) = script["main"].lines[i]
      BY DEF CommandAt, Ref
    <3>3. CommandAt(Ref("main", i)) = "source" <=> Sourced(script, i)
      BY <2>4, <3>2 DEF Sourced
    <3> HIDE DEF Lines
    <3>4. QED
      BY <2>3, <3>1, <3>3 DEF Row
  <2>5. rows = Rows(script)
    <3> HIDE DEF Expand
    <3>1. rows = [i \in 1 .. n |-> Expand(Lines("main")[i])]
      BY <2>2
    <3>2. QED
      BY <2>4, <3>1 DEF Rows
  <2>6. QED
    BY <2>1, <2>5, Zenon
<1>4. Len(Rows(script)) = n
  BY RowsFacts
<1>5. FlattenSeq(Rows(script)) =
        IF Len(Rows(script)) = 0 THEN Rows(script) ELSE Flat(Rows(script))[Len(Rows(script))]
  BY <1>1, <1>4, FlattenIsFlat
<1>6. Expansion = Done(script, n)
  <2>1. CASE n = 0
    <3>1. Rows(script) = << >>
      <4>1. Rows(script) = [i \in 1 .. 0 |-> Row(script, i)]
        BY <2>1 DEF Rows
      <4>2. 1 .. 0 = {}
        OBVIOUS
      <4>3. Rows(script) \in Seq({})
        <5>1. Rows(script) \in [1 .. 0 -> {}]
          BY <4>1, <4>2
        <5>2. QED
          BY <5>1, SeqDef
      <4>4. QED
        BY <1>4, <2>1, <4>3, EmptySeq
    <3>2. QED
      BY <1>3, <1>4, <1>5, <2>1, <3>1 DEF Done
  <2>2. CASE n # 0
    BY <1>3, <1>4, <1>5, <2>2 DEF Done
  <2>3. QED
    BY <2>1, <2>2
<1>7. n \in 0 .. n
  BY <1>1
<1>8. Done(script, n) \in Seq(LineRefs)
  BY <1>7, DoneFacts
<1>9. QED
  BY <1>6, <1>8

LEMMA ExpansionSame ==
    ASSUME UNCHANGED script
    PROVE  Expansion' = Expansion
BY DEF Expansion, CommandAt

LEMMA OrderInit ==
    ASSUME Init
    PROVE  OrderInv
<1>1. StopInv /\ script \in Scripts
  BY StopInit DEF StopInv, Typed
<1>2. /\ buf_stack = <<Opened("main")>> /\ executed = << >>
      /\ linebuf = [file |-> "main", number |-> NoLine]
      /\ quit_flag = FALSE /\ pc = "select"
  BY DEF Init
<1> DEFINE e == Opened("main")
           c == Chars(script["main"])
<1>3. e \in OpenFiles /\ e.file = "main" /\ e.buf = << >> /\ e.unread = c
  BY <1>1, OpenedFile DEF FileNames
<1>4. At(script, e, 2 * 0)
  <2>1. c \in Seq(Nat) /\ Len(c) \in Nat
    BY <1>1, TextFacts DEF FileNames
  <2>2. << >> \o c = c /\ SubSeq(c, 1, Len(c)) = c
    BY <2>1, ConcatEmptySeq, SubSeqFull
  <2> HIDE DEF c, e
  <2>3. 2 * 0 \in 0 .. Len(c) /\ 2 * 0 + 1 = 1
    BY <2>1
  <2>4. e.buf \o e.unread = SubSeq(c, 2 * 0 + 1, Len(c))
    BY <1>3, <2>2, <2>3
  <2>5. QED
    BY <1>3, <2>3, <2>4 DEF At, c
<1> HIDE DEF e
<1>5. buf_stack # << >> /\ Head(buf_stack) = e /\ Tail(buf_stack) = << >> /\ Len(buf_stack) = 1
  <2>1. buf_stack = <<e>>
    BY <1>2 DEF e
  <2>2. << >> \in Seq(OpenFiles)
    BY EmptySeq
  <2>3. <<e>> \o << >> = <<e>>
    <3>1. <<e>> \in Seq(OpenFiles)
      BY <1>3
    <3>2. QED
      BY <3>1, ConcatEmptySeq
  <2>4. /\ <<e>> \o << >> # << >> /\ Head(<<e>> \o << >>) = e /\ Tail(<<e>> \o << >>) = << >>
    BY <1>3, <2>2, Pushed
  <2>5. Len(<<e>>) = 1
    OBVIOUS
  <2>6. QED
    BY <2>1, <2>3, <2>4, <2>5, Zenon
<1>6. Done(script, 0) = << >> /\ Count(script, "main") \in Nat
  BY <1>1, DoneFacts, Counts
<1>7. Between(script, buf_stack, executed)
  <2>1. Context(script, Head(buf_stack).file, Tail(buf_stack), executed, 0, 0)
    BY <1>2, <1>3, <1>5, <1>6 DEF Context
  <2>2. 0 \in 0 .. Count(script, "main") /\ 0 \in 0 .. Count(script, Head(buf_stack).file)
    BY <1>3, <1>5, <1>6
  <2>3. At(script, Head(buf_stack), 2 * 0)
    BY <1>4, <1>5
  <2>4. QED
    BY <1>5, <2>1, <2>2, <2>3 DEF Between
<1>8. OnCourse
  BY <1>2, <1>7 DEF OnCourse
<1>9. EndOK
  <2>1. Begins(Done(script, 0), Done(script, Count(script, "main")))
    <3>1. 0 \in 0 .. Count(script, "main")
      BY <1>6
    <3>2. QED
      BY <1>1, <3>1, DoneBegins
  <2>2. IsPrefix(executed, Expansion)
    BY <1>1, <1>2, <1>6, <2>1, ExpansionIsDone, BeginsIsPrefix, EmptySeq
  <2>3. QED
    BY <1>2, <2>2 DEF EndOK
<1>10. Len(buf_stack) <= 2
  BY <1>5
<1>11. QED
  BY <1>8, <1>9, <1>10 DEF OrderInv

\* A step that executes nothing and does not end the run.
LEMMA EndSame ==
    ASSUME EndOK, UNCHANGED <<script, executed, quit_flag, err_cnt>>,
           pc # "exit", pc' # "exit"
    PROVE  EndOK'
<1>1. Expansion' = Expansion /\ Quits' = Quits
  BY ExpansionSame, SameHistory
<1>2. QED
  BY <1>1 DEF EndOK

LEMMA OrderCmdSelect ==
    ASSUME StopInv, OrderInv, CmdSelect
    PROVE  OrderInv'
<1>1. /\ pc = "select" /\ pc' \in {"readline", "leave"}
      /\ UNCHANGED <<script, buf_stack, linebuf, quit_flag, err_cnt, executed>>
  BY DEF CmdSelect, files, flags
<1>2. OnCourse'
  BY <1>1 DEF OrderInv, OnCourse
<1>3. EndOK'
  BY <1>1, EndSame DEF OrderInv
<1>4. Len(buf_stack') <= 2
  BY <1>1 DEF OrderInv
<1>5. QED
  BY <1>2, <1>3, <1>4 DEF OrderInv

LEMMA OrderRead ==
    ASSUME StopInv, OrderInv, Read
    PROVE  OrderInv'
<1>1. PICK n \in 1 .. Len(Top.unread) :
        buf_stack' = [buf_stack EXCEPT ![1].buf = SubSeq(Top.unread, 1, n),
                                       ![1].unread = SubSeq(@, n + 1, Len(@))]
  BY DEF Read
<1>2. /\ pc = "readline" /\ pc' = "readline" /\ Top.buf = << >>
      /\ UNCHANGED <<script, linebuf, quit_flag, err_cnt, executed>>
  BY DEF Read, flags
<1>3. /\ Top \in OpenFiles /\ Top = buf_stack[1] /\ Top = Head(buf_stack)
      /\ buf_stack \in Seq(OpenFiles) /\ buf_stack # << >>
  BY <1>2, TopFile DEF Top, StopInv, Typed, PlaceOK
<1> DEFINE x == [Top EXCEPT !.buf = SubSeq(Top.unread, 1, n),
                            !.unread = SubSeq(Top.unread, n + 1, Len(Top.unread))]
<1>4. buf_stack' = [buf_stack EXCEPT ![1] = x]
  <2>1. 1 \in DOMAIN buf_stack
    BY <1>2, <1>3, TopFile, LenProperties
  <2>2. QED
    BY <1>1, <1>3, <2>1
<1>5. x \in OpenFiles /\ x.file = Top.file
  <2>1. Top.unread \in Seq(Nat)
    BY <1>3 DEF OpenFiles
  <2>2. SubSeq(Top.unread, 1, n) \in Seq(Nat) /\ SubSeq(Top.unread, n + 1, Len(Top.unread)) \in Seq(Nat)
    <3>1. Len(Top.unread) \in Nat /\ n \in Int
      BY <2>1, LenProperties
    <3>2. \A i \in 1 .. Len(Top.unread) : Top.unread[i] \in Nat
      BY <2>1, ElementOfSeq
    <3>3. /\ \A i \in 1 .. n : Top.unread[i] \in Nat
          /\ \A i \in n + 1 .. Len(Top.unread) : Top.unread[i] \in Nat
      BY <3>1, <3>2
    <3>4. QED
      BY <3>1, <3>3, SubSeqProperties
  <2>3. QED
    BY <1>3, <2>2 DEF OpenFiles
<1>6. script \in Scripts
  BY DEF StopInv, Typed
<1>7. \A p : At(script, Top, p) => At(script, x, p)
  BY <1>2, <1>3, <1>6, AtRead
<1> HIDE DEF x
<1>8. /\ buf_stack' # << >> /\ Head(buf_stack') = x /\ Tail(buf_stack') = Tail(buf_stack)
      /\ Len(buf_stack') = Len(buf_stack)
  BY <1>3, <1>4, <1>5, NewTop
<1>9. /\ Between(script, buf_stack, executed) => Between(script, buf_stack', executed)
      /\ InLine(script, buf_stack, linebuf, executed) => InLine(script, buf_stack', linebuf, executed)
  <2>1. /\ Head(buf_stack').file = Head(buf_stack).file
        /\ \A p : At(script, Head(buf_stack), p) => At(script, Head(buf_stack'), p)
    BY <1>3, <1>5, <1>7, <1>8
  <2>2. QED
    BY <1>3, <1>6, <1>8, <2>1, SamePlace
<1>10. OnCourse'
  BY <1>2, <1>9 DEF OrderInv, OnCourse
<1>11. EndOK'
  BY <1>2, EndSame DEF OrderInv
<1>12. Len(buf_stack') <= 2
  BY <1>8 DEF OrderInv
<1>13. QED
  BY <1>10, <1>11, <1>12 DEF OrderInv

LEMMA OrderTakeCharacters ==
    ASSUME StopInv, OrderInv, TakeCharacters
    PROVE  OrderInv'
<1>1. /\ pc = "readline" /\ Top.buf # << >>
      /\ buf_stack' = [buf_stack EXCEPT ![1].buf = Tail(@)]
      /\ Head(Top.buf) = Newline => pc' = "interpret" /\ linebuf' = linebuf
      /\ Head(Top.buf) # Newline =>
           pc' = "readline" /\ linebuf' = [file |-> Top.file, number |-> Head(Top.buf)]
      /\ UNCHANGED <<script, quit_flag, err_cnt, executed>>
  BY DEF TakeCharacters, flags
<1>2. /\ Top \in OpenFiles /\ Top = buf_stack[1] /\ Top = Head(buf_stack)
      /\ buf_stack \in Seq(OpenFiles) /\ buf_stack # << >>
  BY <1>1, TopFile DEF Top, StopInv, Typed, PlaceOK
<1>3. buf_stack' = [buf_stack EXCEPT ![1] = Taken(Top)]
  <2>1. 1 \in DOMAIN buf_stack
    BY <1>1, <1>2, TopFile, LenProperties
  <2>2. QED
    BY <1>1, <1>2, <2>1 DEF Taken
<1>4. Taken(Top) \in OpenFiles
  <2>1. Top.buf \in Seq(Nat)
    BY <1>2 DEF OpenFiles
  <2>2. Tail(Top.buf) \in Seq(Nat)
    BY <1>1, <2>1, HeadTailProperties
  <2>3. QED
    BY <1>2, <2>2 DEF OpenFiles, Taken
<1>5. script \in Scripts
  BY DEF StopInv, Typed
<1>6. /\ buf_stack' # << >> /\ Head(buf_stack') = Taken(Top)
      /\ Tail(buf_stack') = Tail(buf_stack) /\ Len(buf_stack') = Len(buf_stack)
  BY <1>2, <1>3, <1>4, NewTop
<1>7. /\ Between(script, buf_stack, executed) =>
           /\ Head(Top.buf) # Newline
           /\ InLine(script, buf_stack', Ref(Top.file, Head(Top.buf)), executed)
      /\ InLine(script, buf_stack, linebuf, executed) =>
           /\ Head(Top.buf) = Newline
           /\ LineRead(script, buf_stack', linebuf, executed)
  <2>1. PICK t : t = buf_stack'
    OBVIOUS
  <2>2. PICK top : top = Head(buf_stack)
    OBVIOUS
  <2>3. /\ top \in OpenFiles /\ top.buf # << >> /\ Top = top
        /\ t # << >> /\ Head(t) = Taken(top) /\ Tail(t) = Tail(buf_stack)
    BY <1>1, <1>2, <1>6, <2>1, <2>2, Zenon
  <2>4. /\ Between(script, buf_stack, executed) =>
             /\ Head(top.buf) # Newline
             /\ InLine(script, t, Ref(top.file, Head(top.buf)), executed)
        /\ InLine(script, buf_stack, linebuf, executed) =>
             /\ Head(top.buf) = Newline
             /\ LineRead(script, t, linebuf, executed)
    BY <1>2, <1>5, <2>2, <2>3, TakeStep
  <2>5. QED
    BY <2>1, <2>3, <2>4, Zenon
<1>8. ASSUME ~quit_flag
      PROVE  OnCourse'
  <2>1. CASE linebuf.number = NoLine
    <3>1. Between(script, buf_stack, executed)
      BY <1>1, <1>8, <2>1 DEF OrderInv, OnCourse
    <3>2. /\ pc' = "readline" /\ linebuf' = Ref(Top.file, Head(Top.buf))
          /\ InLine(script, buf_stack', linebuf', executed)
      BY <1>1, <1>7, <3>1 DEF Ref
    <3>3. linebuf'.number # NoLine
      BY <1>7, <3>1, <3>2 DEF Ref, Newline, NoLine
    <3>4. QED
      BY <1>1, <3>2, <3>3 DEF OnCourse
  <2>2. CASE linebuf.number # NoLine
    <3>1. InLine(script, buf_stack, linebuf, executed)
      BY <1>1, <1>8, <2>2 DEF OrderInv, OnCourse
    <3>2. /\ pc' = "interpret" /\ linebuf' = linebuf
          /\ LineRead(script, buf_stack', linebuf, executed)
      BY <1>1, <1>7, <3>1
    <3>3. QED
      BY <1>1, <3>2 DEF OnCourse
  <2>3. QED
    BY <2>1, <2>2
<1>9. OnCourse'
  <2>1. CASE quit_flag
    BY <1>1, <2>1 DEF OnCourse
  <2>2. QED
    BY <1>8, <2>1
<1>10. pc' # "exit"
  BY <1>1
<1>11. EndOK'
  BY <1>1, <1>10, EndSame DEF OrderInv
<1>12. Len(buf_stack') <= 2
  BY <1>6 DEF OrderInv
<1>13. QED
  BY <1>9, <1>11, <1>12 DEF OrderInv

LEMMA OrderEndOfFile ==
    ASSUME StopInv, OrderInv, EndOfFile
    PROVE  OrderInv'
<1>1. /\ pc = "readline" /\ Top.buf = << >> /\ Top.unread = << >>
      /\ buf_stack' = Tail(buf_stack)
      /\ pc' = IF linebuf.number = NoLine THEN "select" ELSE "interpret"
      /\ UNCHANGED <<script, linebuf, quit_flag, err_cnt, executed>>
  BY DEF EndOfFile, pop_file, flags
<1>2. /\ Top \in OpenFiles /\ Top = Head(buf_stack)
      /\ buf_stack \in Seq(OpenFiles) /\ buf_stack # << >> /\ script \in Scripts
  BY <1>1, TopFile DEF Top, StopInv, Typed, PlaceOK
<1>3. /\ Between(script, buf_stack, executed) => Between(script, Tail(buf_stack), executed)
      /\ InLine(script, buf_stack, linebuf, executed) =>
           LineRead(script, Tail(buf_stack), linebuf, executed)
  BY <1>1, <1>2, EndStep
<1>4. OnCourse'
  BY <1>1, <1>3 DEF OrderInv, OnCourse
<1>5. pc' # "exit"
  BY <1>1
<1>6. EndOK'
  BY <1>1, <1>5, EndSame DEF OrderInv
<1>7. Len(buf_stack') <= 2
  <2>1. Len(Tail(buf_stack)) = Len(buf_stack) - 1 /\ Len(buf_stack) \in Nat /\ Len(buf_stack) <= 2
    BY <1>2, HeadTailProperties, LenProperties DEF OrderInv
  <2>2. \A a \in Nat : a <= 2 => a - 1 <= 2
    OBVIOUS
  <2>3. QED
    BY <1>1, <2>1, <2>2
<1>8. QED
  BY <1>4, <1>6, <1>7 DEF OrderInv

LEMMA OrderInterpret ==
    ASSUME StopInv, OrderInv, Interpret
    PROVE  OrderInv'
<1>1. /\ pc = "interpret" /\ pc' = "select"
      /\ linebuf' = [linebuf EXCEPT !.number = NoLine]
      /\ UNCHANGED script
  BY DEF Interpret
<1>2. /\ script \in Scripts /\ buf_stack \in Seq(OpenFiles) /\ linebuf \in LineRefs
      /\ Len(buf_stack) <= 2
  BY DEF StopInv, Typed, OrderInv
<1>3. linebuf'.number = NoLine
  BY <1>1, <1>2 DEF LineRefs
<1>4. CASE quit_flag
  <2>1. UNCHANGED <<buf_stack, quit_flag, err_cnt, executed>>
    BY <1>4 DEF Interpret, flags
  <2>2. OnCourse'
    BY <1>4, <2>1 DEF OnCourse
  <2>3. EndOK'
    BY <1>1, <2>1, EndSame DEF OrderInv
  <2>4. QED
    BY <1>2, <2>1, <2>2, <2>3 DEF OrderInv
<1>5. CASE ~quit_flag
  <2>1. Execute
    BY <1>5 DEF Interpret
  <2>2. executed' = Append(executed, linebuf)
    BY <2>1 DEF Execute
  <2>3. LineRead(script, buf_stack, linebuf, executed)
    BY <1>1, <1>5 DEF OrderInv, OnCourse
  <2>4. CommandAt(linebuf) = script[linebuf.file].lines[linebuf.number]
    BY DEF CommandAt
  <2>5. /\ executed' \in Seq(LineRefs)
        /\ Begins(executed', Done(script, Count(script, "main")))
        /\ CommandAt(linebuf) # "source" => Between(script, buf_stack, executed')
        /\ CommandAt(linebuf) = "source" =>
             /\ Len(buf_stack) <= 1 /\ linebuf.number \in 0 .. Count(script, "main")
             /\ Sourced(script, linebuf.number) /\ Rest(script, buf_stack, linebuf.number)
             /\ executed' = Upto(script, linebuf.number, 0)
    BY <1>2, <2>2, <2>3, <2>4, LineStep
  <2>6. IsPrefix(executed', Expansion')
    <3>1. Expansion' = Expansion
      BY <1>1, ExpansionSame
    <3>2. IsPrefix(executed', Expansion)
      BY <1>2, <2>5, ExpansionIsDone, BeginsIsPrefix
    <3>3. QED
      BY <3>1, <3>2
  <2>7. CASE Quit(CommandAt(linebuf))
    <3>1. /\ CommandAt(linebuf) \in {"quit", "timed quit"}
          /\ quit_flag' = TRUE /\ buf_stack' = << >>
      BY <2>7 DEF Quit, DoQuit
    <3>2. Quits' # {}
      BY <1>1, <2>2, <3>1, LongerHistory DEF StopInv
    <3>3. OnCourse'
      BY <3>1 DEF OnCourse
    <3>4. EndOK'
      BY <1>1, <2>6, <3>2 DEF EndOK
    <3>5. Len(buf_stack') <= 2
      <4>1. Len(buf_stack') = 0
        BY <3>1, EmptySeq
      <4>2. QED
        BY <4>1
    <3>6. QED
      BY <3>3, <3>4, <3>5 DEF OrderInv
  <2>8. CASE Fail(CommandAt(linebuf))
    <3>1. /\ CommandAt(linebuf) \in {"bad", "timed bad"}
          /\ err_cnt' = err_cnt + Errors(CommandAt(linebuf)) /\ UNCHANGED buf_stack
      BY <2>8 DEF Fail, RecordErrors
    <3>2. Between(script, buf_stack, executed')
      BY <2>5, <3>1
    <3>3. OnCourse'
      BY <1>1, <1>3, <3>1, <3>2 DEF OnCourse
    <3>4. err_cnt' > 0
      <4>1. err_cnt \in Nat
        BY DEF StopInv, Typed
      <4>2. Errors(CommandAt(linebuf)) = 1 \/ Errors(CommandAt(linebuf)) = 2
        BY DEF Errors
      <4>3. err_cnt' = err_cnt + 1 \/ err_cnt' = err_cnt + 2
        BY <3>1, <4>2
      <4>4. QED
        BY <4>1, <4>3
    <3>5. EndOK'
      BY <1>1, <2>6, <3>4 DEF EndOK
    <3>6. QED
      BY <1>2, <3>1, <3>3, <3>5 DEF OrderInv
  <2>9. CASE Source(CommandAt(linebuf))
    <3> DEFINE x == Opened("sub")
               m == linebuf.number
    <3>1. /\ CommandAt(linebuf) = "source" /\ buf_stack' = <<x>> \o buf_stack
          /\ UNCHANGED quit_flag
      BY <2>9 DEF Source, flags
    <3>2. x \in OpenFiles /\ x.file = "sub" /\ At(script, x, 0)
      BY <1>2, OpenedFile, AtOpened DEF FileNames
    <3> HIDE DEF x
    <3>3. /\ buf_stack' # << >> /\ Head(buf_stack') = x /\ Tail(buf_stack') = buf_stack
          /\ Len(buf_stack') = Len(buf_stack) + 1
      BY <1>2, <3>1, <3>2, Pushed
    <3>4. Context(script, Head(buf_stack').file, Tail(buf_stack'), executed', m, 0)
      BY <2>5, <3>1, <3>2, <3>3 DEF Context
    <3>5. /\ 0 \in 0 .. Count(script, Head(buf_stack').file)
          /\ At(script, Head(buf_stack'), 2 * 0)
      <4>1. Count(script, "sub") \in Nat /\ 2 * 0 = 0
        BY <1>2, Counts
      <4>2. QED
        BY <3>2, <3>3, <4>1
    <3>6. m \in 0 .. Count(script, "main")
      BY <2>5, <3>1
    <3>7. Between(script, buf_stack', executed')
      BY <3>3, <3>4, <3>5, <3>6 DEF Between
    <3>8. OnCourse'
      BY <1>1, <1>3, <3>7 DEF OnCourse
    <3>9. EndOK'
      BY <1>1, <1>5, <2>6, <3>1 DEF EndOK
    <3>10. Len(buf_stack') <= 2
      <4>1. Len(buf_stack) \in Nat /\ Len(buf_stack) <= 1
        BY <1>2, <2>5, <3>1, LenProperties
      <4>2. QED
        BY <3>3, <4>1
    <3>11. QED
      BY <3>8, <3>9, <3>10 DEF OrderInv
  <2>10. CASE Option(CommandAt(linebuf)) \/ Succeed(CommandAt(linebuf))
    <3>1. /\ CommandAt(linebuf) \in {"limit", "ok"}
          /\ UNCHANGED <<buf_stack, quit_flag>>
      BY <2>10 DEF Option, Succeed, flags
    <3>2. Between(script, buf_stack, executed')
      BY <2>5, <3>1
    <3>3. OnCourse'
      BY <1>1, <1>3, <3>1, <3>2 DEF OnCourse
    <3>4. EndOK'
      BY <1>1, <1>5, <2>6, <3>1 DEF EndOK
    <3>5. QED
      BY <1>2, <3>1, <3>3, <3>4 DEF OrderInv
  <2>11. QED
    BY <2>1, <2>7, <2>8, <2>9, <2>10 DEF Execute
<1>6. QED
  BY <1>4, <1>5

LEMMA OrderLeave ==
    ASSUME StopInv, OrderInv, Leave
    PROVE  OrderInv'
<1>1. pc = "leave" /\ pc' = "exit" /\ UNCHANGED <<script, linebuf, executed>>
  BY DEF Leave
<1>2. Expansion' = Expansion /\ Quits' = Quits
  BY <1>1, ExpansionSame, SameHistory
<1>3. /\ quit_flag \in BOOLEAN /\ err_cnt \in Nat /\ script \in Scripts
      /\ buf_stack = << >> \/ quit_flag
  BY <1>1 DEF StopInv, Typed, PlaceOK
<1>4. buf_stack' = buf_stack \/ buf_stack' = << >>
  BY DEF Leave, DoQuit
<1>5. Len(buf_stack') <= 2
  BY <1>4, EmptySeq DEF OrderInv
<1>6. OnCourse'
  BY <1>1 DEF OnCourse
<1>7. ASSUME Quits' = {}, ~(quit_flag' /\ err_cnt' > 0)
      PROVE  executed = Expansion
  <2>1. CASE quit_flag
    <3>1. UNCHANGED <<quit_flag, err_cnt>>
      BY <2>1 DEF Leave, flags
    <3>2. ~(err_cnt > 0)
      BY <1>7, <2>1, <3>1
    <3>3. Quits # {}
      BY <1>1, <2>1, <3>2 DEF OrderInv, EndOK
    <3>4. QED
      BY <1>2, <1>7, <3>3
  <2>2. CASE ~quit_flag
    <3>1. Between(script, buf_stack, executed)
      BY <1>1, <2>2 DEF OrderInv, OnCourse
    <3>2. executed = Done(script, Count(script, "main"))
      BY <1>3, <2>2, <3>1 DEF Between
    <3>3. QED
      BY <1>3, <3>2, ExpansionIsDone
  <2>3. QED
    BY <2>1, <2>2
<1>8. EndOK'
  <2>1. IsPrefix(executed', Expansion')
    <3>1. executed' = executed
      BY <1>1
    <3>2. IsPrefix(executed, Expansion)
      BY DEF OrderInv, EndOK
    <3>3. QED
      BY <1>2, <3>1, <3>2
  <2>2. Quits' = {} /\ ~(quit_flag' /\ err_cnt' > 0) => executed' = Expansion'
    BY <1>1, <1>2, <1>7
  <2>3. QED
    BY <1>1, <2>1, <2>2 DEF EndOK
<1>9. QED
  BY <1>5, <1>6, <1>8 DEF OrderInv

\* Every state that the interpreter reaches satisfies both invariants.
THEOREM OrderInvariance == Spec => [](StopInv /\ OrderInv)
<1>1. Init => OrderInv
  BY OrderInit
<1>2. StopInv /\ OrderInv /\ [Next \/ Ended]_vars => OrderInv'
  <2>1. SUFFICES ASSUME StopInv, OrderInv, [Next \/ Ended]_vars
                 PROVE  OrderInv'
    OBVIOUS
  <2>2. CASE CmdSelect
    BY <2>1, <2>2, OrderCmdSelect
  <2>3. CASE Read
    BY <2>1, <2>3, OrderRead
  <2>4. CASE TakeCharacters
    BY <2>1, <2>4, OrderTakeCharacters
  <2>5. CASE EndOfFile
    BY <2>1, <2>5, OrderEndOfFile
  <2>6. CASE Interpret
    BY <2>1, <2>6, OrderInterpret
  <2>7. CASE Leave
    BY <2>1, <2>7, OrderLeave
  <2>8. CASE UNCHANGED vars
    <3>1. UNCHANGED <<script, buf_stack, linebuf, quit_flag, err_cnt, pc, executed>>
      BY <2>8 DEF vars, files, flags
    <3>2. Expansion' = Expansion /\ Quits' = Quits
      BY <3>1, ExpansionSame, SameHistory
    <3>3. OnCourse'
      BY <2>1, <3>1 DEF OrderInv, OnCourse
    <3>4. EndOK'
      BY <2>1, <3>1, <3>2 DEF OrderInv, EndOK
    <3>5. QED
      BY <2>1, <3>1, <3>3, <3>4 DEF OrderInv
  <2>9. QED
    BY <2>1, <2>2, <2>3, <2>4, <2>5, <2>6, <2>7, <2>8 DEF Next, Ended
<1>3. QED
  BY <1>1, <1>2, StopInvariance, PTL DEF Spec

\* However the reads cut the files, the lines are executed in the order of the
\* script, each one once, and all of them unless the interpreter was stopped.
THEOREM OrderCorrect == Spec => []ExecutedInOrder
<1>1. StopInv /\ OrderInv => ExecutedInOrder
  <2>1. SUFFICES ASSUME StopInv, OrderInv
                 PROVE  ExecutedInOrder
    OBVIOUS
  <2>2. TypeOK
    <3>1. err_cnt \in 0 .. ErrLimit + 1
      BY <2>1, Limits DEF StopInv, Typed
    <3>2. QED
      BY <2>1, <3>1 DEF StopInv, OrderInv, Typed, TypeOK
  <2>3. exit # "no" => pc = "exit"
    BY <2>1 DEF StopInv, PlaceOK
  <2>4. QED
    BY <2>1, <2>2, <2>3 DEF OrderInv, EndOK, ExecutedInOrder
<1>2. QED
  BY <1>1, OrderInvariance, PTL

=============================================================================
