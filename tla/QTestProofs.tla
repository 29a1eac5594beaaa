----------------------------- MODULE QTestProofs -----------------------------
(***************************************************************************)
(* Proofs about the queue tester: which function runs at which statement,  *)
(* and what exception_setup, exception_cancel and an exception leave of    *)
(* the harness's modes and of the alarm; the blocks that the statements of *)
(* queue.c leave on the heap; the verdicts of the commands; the refinement *)
(* of a list of strings; and what each command has done to that list.      *)
(***************************************************************************)
EXTENDS QTest, WindowProofs, FiniteSetTheorems, TLAPS

Insertions == {"ih", "it"}
Removals   == {"rh", "rhq"}
Operations == {"new", "free", "rhq", "reverse", "show", "bad", "ih", "it", "rh",
               "size", "none", "quit"}

\* The labels of the statements that only some of the commands execute.
AtInsertion == {"insert", "insert.value", "ih", "ih.next", "ih.head", "ih.size",
                "it", "it.next", "it.tail", "it.size", "ret"}
AtRound     == {"loop", "check"}
AtRemoval   == {"remove", "remove.head", "remove.value", "remove.element",
                "remove.size"}
AtFree      == {"free", "free.next", "free.value", "free.element", "free.queue"}
AtReverse   == {"reverse", "reverse.loop"}
AtNew       == {"new", "new.ret"}

\* The function that runs is one to which the statement belongs.
OperationFits ==
    /\ op \in Operations
    /\ cmd.op \in Operations
    /\ pc = "setup" => op \notin {"show", "none", "bad"}
    /\ pc \in AtInsertion => op \in Insertions
    /\ pc \in AtRound => op \in Insertions \cup {"size"}
    /\ pc \in {"ih", "ih.next", "ih.head", "ih.size"} => op = "ih"
    /\ pc \in {"it", "it.next", "it.tail", "it.size"} => op = "it"
    /\ pc = "size" => op = "size"
    /\ pc \in AtRemoval => op \in Removals
    /\ pc \in AtFree => op \in {"free", "quit"}
    /\ pc \in AtReverse => op = "reverse"
    /\ pc \in AtNew => op = "new"

\* The statements at which no exception is prepared, so that neither an alarm
\* nor a jump may be pending.
Unprepared == {"idle", "setup", "show", "show.cancel", "after", "exit"}

\* The statements at which the modes are those of every other command.
Restored == {"idle", "show", "show.loop", "show.cancel", "after"}

ModesInv ==
    /\ OperationFits
    /\ pc \in Unprepared => jmp_ready = FALSE /\ time_limited = FALSE
    /\ pc \in Restored => cautious_mode = TRUE /\ noallocate_mode = FALSE

-----------------------------------------------------------------------------
LEMMA ModesInitially == Init => ModesInv
BY DEF Init, ModesInv, OperationFits, NoCommand, Operations, Unprepared, Restored,
       AtInsertion, AtRound, AtRemoval, AtFree, AtReverse, AtNew

LEMMA CommandOps == \A c \in Command : c.op \in Operations \ {"none", "quit"}
BY DEF Command, Operations

\* A statement of queue.c ends at another one of its function, or returns.
LEMMA LibraryModes == ModesInv /\ Library => ModesInv'
<1> USE DEF AtInsertion, AtRound, AtRemoval, AtFree, AtReverse, AtNew, Goto,
            OperationFits, Unprepared, Restored, Insertions, Removals
<1> SUFFICES ASSUME ModesInv, Library
             PROVE  ModesInv'
  OBVIOUS
<1>1. /\ op' = op /\ cmd' = cmd
      /\ jmp_ready' = jmp_ready /\ time_limited' = time_limited
      /\ cautious_mode' = cautious_mode /\ noallocate_mode' = noallocate_mode
  BY DEF Library, modes, recovery, console
<1>2. CASE QNew
  BY <1>1, <1>2 DEF QNew, Returns, ModesInv
<1>3. CASE QFree
  BY <1>1, <1>3 DEF QFree, ModesInv
<1>4. CASE NewElement
  BY <1>1, <1>4 DEF NewElement, FreeNewElement, Returns, ModesInv
<1>5. CASE QInsertHead
  BY <1>1, <1>5 DEF QInsertHead, SetFirstTail, Returns, ModesInv
<1>6. CASE QInsertTail
  BY <1>1, <1>6 DEF QInsertTail, SetTail, Returns, ModesInv
<1>7. CASE QRemoveHead
  BY <1>1, <1>7 DEF QRemoveHead, ShrinkSize, Returns, ModesInv
<1>8. CASE QSize
  BY <1>1, <1>8 DEF QSize, ModesInv
<1>9. CASE QReverse
  BY <1>1, <1>9 DEF QReverse, BeginReverse, TurnElement, ModesInv
<1>10. QED
  BY <1>2, <1>3, <1>4, <1>5, <1>6, <1>7, <1>8, <1>9 DEF Library

\* A command begins with the modes it sets and without a pending alarm.
LEMMA BeginModes ==
    ASSUME ModesInv, NEW c \in Command, Begin(c)
    PROVE  ModesInv'
<1>1. c.op \in Operations \ {"none", "quit", "bad"}
  BY CommandOps DEF Begin
<1>2. jmp_ready' = FALSE /\ time_limited' = FALSE /\ cmd' = c
  BY DEF Begin, ModesInv, Unprepared, recovery
<1>3. PICK f \in Operations \ {"none", "quit", "bad"} : Enter(f)
  BY <1>1 DEF Begin, Operations
<1>4. /\ op' = f /\ pc' = IF f = "show" THEN "show" ELSE "setup"
      /\ f = "show" => cautious_mode' = TRUE /\ noallocate_mode' = FALSE
  BY <1>3 DEF Enter, Goto
<1>5. QED
  BY <1>1, <1>2, <1>4 DEF ModesInv, OperationFits, Unprepared, Restored, AtInsertion,
     AtRound, AtRemoval, AtFree, AtReverse, AtNew, Operations

\* The console gets its prompt back with the modes as they are.
LEMMA RecordModes ==
    ASSUME NEW success \in BOOLEAN, Record(success),
           jmp_ready' = FALSE, time_limited' = FALSE,
           cautious_mode' = TRUE, noallocate_mode' = FALSE
    PROVE  ModesInv'
BY DEF Record, Goto, NoCommand, ModesInv, OperationFits, Unprepared, Restored,
       AtInsertion, AtRound, AtRemoval, AtFree, AtReverse, AtNew, Operations

LEMMA EndModes ==
    ASSUME ModesInv, Quit \/ Leave \/ Finish
    PROVE  ModesInv'
<1> USE DEF Goto, recovery, modes, ModesInv, OperationFits, Unprepared, Restored,
            AtInsertion, AtRound, AtRemoval, AtFree, AtReverse, AtNew, Operations
<1>1. CASE Quit
  BY <1>1 DEF Quit, Enter
<1>2. CASE Leave
  BY <1>2 DEF Leave
<1>3. CASE Finish
  BY <1>3 DEF Finish
<1>4. QED
  BY <1>1, <1>2, <1>3

LEMMA BadModes ==
    ASSUME ModesInv, NEW c \in Command, BadCommand(c)
    PROVE  ModesInv'
<1>1. /\ jmp_ready' = FALSE /\ time_limited' = FALSE
      /\ cautious_mode' = TRUE /\ noallocate_mode' = FALSE
  BY DEF BadCommand, modes, recovery, ModesInv, Unprepared, Restored
<1>2. QED
  BY <1>1, RecordModes DEF BadCommand

\* The return of a command, after which do_new goes on or the console does.
LEMMA ReturnModes ==
    ASSUME ModesInv, Return
    PROVE  ModesInv'
<1>1. jmp_ready' = FALSE /\ time_limited' = FALSE
  BY DEF Return, recovery, ModesInv, Unprepared
<1>2. CASE op = "free" /\ cmd.op = "new"
  <2>1. Enter("new") /\ cmd' = cmd
    BY <1>2 DEF Return
  <2>2. QED
    BY <1>1, <2>1 DEF Enter, Goto, ModesInv, OperationFits, Unprepared, Restored,
       AtInsertion, AtRound, AtRemoval, AtFree, AtReverse, AtNew, Operations
<1>3. CASE ~(op = "free" /\ cmd.op = "new")
  <2>1. Record(Verdict) /\ modes' = modes
    BY <1>3 DEF Return, modes
  <2>2. cautious_mode' = TRUE /\ noallocate_mode' = FALSE
    BY <2>1 DEF Return, modes, ModesInv, Restored
  <2>3. Verdict \in BOOLEAN
    BY DEF Verdict
  <2>4. QED
    BY <1>1, <2>1, <2>2, <2>3, RecordModes
<1>4. QED
  BY <1>2, <1>3

\* exception_setup, the loops and comparisons of qtest.c, exception_cancel and
\* show_queue.
LEMMA CommandModes ==
    ASSUME ModesInv,
           \/ ExceptionSetup \/ Loop \/ AfterInsertion \/ NextRound
           \/ ExceptionCancel \/ BeginShow \/ ShowNext \/ EndShow
    PROVE  ModesInv'
<1> USE DEF Goto, recovery, modes, console, ModesInv, OperationFits, Unprepared,
            Restored, AtInsertion, AtRound, AtRemoval, AtFree, AtReverse, AtNew,
            Operations, Insertions, Removals
<1>1. CASE ExceptionSetup
  BY <1>1 DEF ExceptionSetup, ArmedSetup, First
<1>2. CASE Loop
  BY <1>2 DEF Loop
<1>3. CASE AfterInsertion
  BY <1>3 DEF AfterInsertion
<1>4. CASE NextRound
  BY <1>4 DEF NextRound
<1>5. CASE ExceptionCancel
  BY <1>5 DEF ExceptionCancel, RestoreModes
<1>6. CASE BeginShow
  BY <1>6 DEF BeginShow, ArmedSetup
<1>7. CASE ShowNext
  BY <1>7 DEF ShowNext
<1>8. CASE EndShow
  BY <1>8 DEF EndShow
<1>9. QED
  BY <1>1, <1>2, <1>3, <1>4, <1>5, <1>6, <1>7, <1>8

\* Where the jump of an exception comes out, the mode is as it was before.
LEMMA ReturnAgainPlaces ==
    ASSUME ModesInv, ReturnAgain
    PROVE  /\ pc' \in {"show.cancel", "show.loop", "cancel", "loop", "ret", "check"}
           /\ pc' \in Restored => pc = "show.loop"
           /\ pc' = "ret" => op \in Insertions
           /\ pc' \in AtRound => op \in Insertions \cup {"size"}
<1> USE DEF Goto, ModesInv, OperationFits, Restored, AtRound, Insertions
<1>1. CASE pc = "show.loop"
  BY <1>1 DEF ReturnAgain
<1>2. CASE pc = "loop"
  BY <1>2 DEF ReturnAgain
<1>3. CASE pc \notin {"show.loop", "loop"} /\ op \in {"ih", "it"}
  <2>1. CASE pc \in {"cancel", "check"}
    BY <1>3, <2>1 DEF ReturnAgain
  <2>2. CASE pc \notin {"cancel", "check"}
    BY <1>3, <2>2 DEF ReturnAgain
  <2>3. QED
    BY <2>1, <2>2
<1>4. CASE pc \notin {"show.loop", "loop"} /\ op \notin {"ih", "it"}
  BY <1>4 DEF ReturnAgain
<1>5. QED
  BY <1>1, <1>2, <1>3, <1>4

LEMMA ExceptionModes ==
    ASSUME ModesInv, TriggerException
    PROVE  ModesInv'
<1>1. /\ jmp_ready' = FALSE /\ time_limited' = FALSE
      /\ op' = op /\ cmd' = cmd
      /\ cautious_mode' = cautious_mode /\ noallocate_mode' = noallocate_mode
  BY DEF TriggerException, modes
<1> USE DEF Goto, ModesInv, OperationFits, Unprepared, Restored,
            AtInsertion, AtRound, AtRemoval, AtFree, AtReverse, AtNew
<1>2. CASE jmp_ready
  <2>1. ReturnAgain
    BY <1>2 DEF TriggerException
  <2>2. QED
    BY <1>1, <2>1, ReturnAgainPlaces
<1>3. CASE ~jmp_ready
  <2>1. pc' = "exit"
    BY <1>3 DEF TriggerException
  <2>2. QED
    BY <1>1, <2>1
<1>4. QED
  BY <1>2, <1>3

LEMMA ModesStep == ModesInv /\ [Next \/ Ended]_vars => ModesInv'
<1> SUFFICES ASSUME ModesInv, [Next \/ Ended]_vars
             PROVE  ModesInv'
  OBVIOUS
<1>1. CASE vars' = vars
  BY <1>1 DEF vars, modes, recovery, console, ModesInv, OperationFits, Unprepared,
     Restored
<1>2. ASSUME NEW c \in Command, Begin(c) \/ BadCommand(c)
      PROVE  ModesInv'
  BY <1>2, BeginModes, BadModes
<1>3. CASE Quit \/ Leave
  BY <1>3, EndModes
<1>4. CASE Statement
  BY <1>4, LibraryModes, CommandModes, ReturnModes, EndModes DEF Statement
<1>5. CASE Segv
  BY <1>5, ExceptionModes DEF Segv
<1>6. CASE Alarm
  BY <1>6, ExceptionModes DEF Alarm
<1>7. CASE Ended
  BY <1>1, <1>7 DEF Ended
<1>8. QED
  BY <1>1, <1>2, <1>3, <1>4, <1>5, <1>6, <1>7 DEF Next, Step

\* At every statement the function that it belongs to runs, and the modes, the
\* alarm and the jump are as they should be there, whatever interrupts what.
THEOREM ModesInvariance == Spec => []ModesInv
<1>1. QED
  BY ModesInitially, ModesStep, PTL DEF Spec

\* Wherever an exception interrupts a command, the next one finds allocation
\* allowed, free checked, and no alarm or jump prepared.
THEOREM ModesCorrect == Spec => []ModesRestored
<1>1. ModesInv => ModesRestored
  BY DEF ModesInv, ModesRestored, Unprepared, Restored
<1>2. QED
  BY <1>1, ModesInvariance, PTL
-----------------------------------------------------------------------------
(***************************************************************************)
(* The blocks of a queue.  ch are the addresses of its elements, vl those  *)
(* of their strings, st the strings; S holds the other blocks in use.      *)
(***************************************************************************)
Queue(h, t, s) == [kind |-> "queue", head |-> h, tail |-> t, size |-> s]
Element(v, n)  == [kind |-> "element", value |-> v, next |-> n]
StringOf(s)    == [kind |-> "string", str |-> s]

FirstOf(ch, e) == IF ch = << >> THEN e ELSE ch[1]

\* No two of them are the same.
Lists(ch, vl, st) ==
    /\ ch \in Seq(Block) /\ vl \in Seq(Block) /\ st \in Seq(Str)
    /\ Len(vl) = Len(ch) /\ Len(st) = Len(ch)
    /\ \A i, j \in 1 .. Len(ch) : ch[i] = ch[j] => i = j
    /\ \A i, j \in 1 .. Len(ch) : vl[i] = vl[j] => i = j
    /\ \A i, j \in 1 .. Len(ch) : ch[i] # vl[j]

Apart(ch, vl, S) == \A i \in 1 .. Len(ch) : ch[i] \notin S /\ vl[i] \notin S

\* The element behind the i-th, e behind the last.
NextOf(ch, i, e) == IF i = Len(ch) THEN e ELSE ch[i + 1]

Linked(h, ch, vl, st, e) ==
    \A i \in 1 .. Len(ch) : /\ h[ch[i]] = Element(vl[i], NextOf(ch, i, e))
                            /\ h[vl[i]] = StringOf(st[i])

Extent(h, ch, vl, S) ==
    /\ S \subseteq DOMAIN h
    /\ \A i \in 1 .. Len(ch) : ch[i] \in DOMAIN h /\ vl[i] \in DOMAIN h
    /\ \A b \in DOMAIN h : \/ b \in S
                           \/ \E i \in 1 .. Len(ch) : b = ch[i] \/ b = vl[i]

Held(h, ch, vl, st, S, e) ==
    /\ Lists(ch, vl, st) /\ Apart(ch, vl, S)
    /\ Linked(h, ch, vl, st, e) /\ Extent(h, ch, vl, S)

TailOK(ch, t) == ch # << >> => t = ch[Len(ch)]

\* The list after the first k elements have been turned around.
TurnedNext(ch, i, k) == IF i <= k THEN IF i = 1 THEN NULL ELSE ch[i - 1]
                        ELSE NextOf(ch, i, NULL)

Turned(h, ch, vl, st, S, k) ==
    /\ Lists(ch, vl, st) /\ Apart(ch, vl, S) /\ Extent(h, ch, vl, S)
    /\ \A i \in 1 .. Len(ch) : /\ h[ch[i]] = Element(vl[i], TurnedNext(ch, i, k))
                               /\ h[vl[i]] = StringOf(st[i])

-----------------------------------------------------------------------------
(***************************************************************************)
(* How the lists of blocks change.                                         *)
(***************************************************************************)
\* Blocks outside of the list may change as they like.
LEMMA HeldOther ==
    ASSUME NEW h, NEW g, NEW ch, NEW vl, NEW st, NEW S, NEW T, NEW e,
           Held(h, ch, vl, st, S, e), Apart(ch, vl, T), T \subseteq DOMAIN g,
           \A b \in DOMAIN h \ S : b \in DOMAIN g /\ g[b] = h[b],
           \A b \in DOMAIN g : b \in T \/ b \in DOMAIN h \ S
    PROVE  Held(g, ch, vl, st, T, e)
<1>1. ASSUME NEW i \in 1 .. Len(ch)
      PROVE  /\ ch[i] \in DOMAIN h \ S /\ vl[i] \in DOMAIN h \ S
             /\ g[ch[i]] = h[ch[i]] /\ g[vl[i]] = h[vl[i]]
  BY DEF Held, Apart, Extent
<1>2. Linked(g, ch, vl, st, e)
  BY <1>1 DEF Held, Linked
<1>3. Extent(g, ch, vl, T)
  BY <1>1 DEF Held, Extent
<1>4. QED
  BY <1>2, <1>3 DEF Held

LEMMA Prepended ==
    ASSUME NEW S, NEW s \in Seq(S), NEW x \in S
    PROVE  /\ <<x>> \o s \in Seq(S)
           /\ Len(<<x>> \o s) = Len(s) + 1
           /\ (<<x>> \o s)[1] = x
           /\ \A i \in 2 .. Len(s) + 1 : (<<x>> \o s)[i] = s[i - 1]
<1>1. <<x>> \in Seq(S) /\ Len(<<x>>) = 1
  OBVIOUS
<1>2. QED
  BY <1>1

LEMMA Appended ==
    ASSUME NEW S, NEW s \in Seq(S), NEW x \in S
    PROVE  /\ Append(s, x) \in Seq(S)
           /\ Len(Append(s, x)) = Len(s) + 1
           /\ Append(s, x)[Len(s) + 1] = x
           /\ \A i \in 1 .. Len(s) : Append(s, x)[i] = s[i]
OBVIOUS

LEMMA Shortened ==
    ASSUME NEW S, NEW s \in Seq(S), s # << >>
    PROVE  /\ Len(s) \in Nat /\ Len(s) >= 1
           /\ s[1] \in S
           /\ Tail(s) \in Seq(S)
           /\ Len(Tail(s)) = Len(s) - 1
           /\ \A i \in 1 .. Len(s) - 1 : Tail(s)[i] = s[i + 1]
OBVIOUS

\* Positions, as the provers need them spelled out.
LEMMA ListLength ==
    ASSUME NEW ch, NEW vl, NEW st, Lists(ch, vl, st)
    PROVE  /\ Len(ch) \in Nat /\ Len(vl) = Len(ch) /\ Len(st) = Len(ch)
           /\ ch # << >> <=> Len(ch) >= 1
           /\ \A i \in 1 .. Len(ch) : ch[i] \in Block /\ vl[i] \in Block /\ st[i] \in Str
<1>1. ch \in Seq(Block) /\ vl \in Seq(Block) /\ st \in Seq(Str)
  BY DEF Lists
<1>2. QED
  BY <1>1 DEF Lists

LEMMA EmptyHeld ==
    ASSUME NEW h, NEW S, NEW e, DOMAIN h = S
    PROVE  Held(h, << >>, << >>, << >>, S, e)
<1>1. << >> \in Seq(Block) /\ << >> \in Seq(Str) /\ Len(<< >>) = 0 /\ 1 .. 0 = {}
  OBVIOUS
<1>2. QED
  BY <1>1 DEF Held, Lists, Apart, Linked, Extent

\* A complete element becomes the first one of the list.
LEMMA PushFront ==
    ASSUME NEW h, NEW ch, NEW vl, NEW st, NEW S, NEW e,
           NEW p \in Block, NEW v \in Block, NEW s \in Str,
           p \notin S, v \notin S, p # v,
           Held(h, ch, vl, st, S \cup {p, v}, e),
           h[p] = Element(v, FirstOf(ch, e)), h[v] = StringOf(s)
    PROVE  Held(h, <<p>> \o ch, <<v>> \o vl, <<s>> \o st, S, e)
<1> DEFINE c2 == <<p>> \o ch
           v2 == <<v>> \o vl
           s2 == <<s>> \o st
           n == Len(ch)
<1>1. Lists(ch, vl, st) /\ Apart(ch, vl, S \cup {p, v})
  BY DEF Held
<1>2. /\ n \in Nat /\ Len(vl) = n /\ Len(st) = n
      /\ ch \in Seq(Block) /\ vl \in Seq(Block) /\ st \in Seq(Str)
  BY <1>1, ListLength DEF Lists
<1>3. /\ c2 \in Seq(Block) /\ v2 \in Seq(Block) /\ s2 \in Seq(Str)
      /\ Len(c2) = n + 1 /\ Len(v2) = n + 1 /\ Len(s2) = n + 1
      /\ c2[1] = p /\ v2[1] = v /\ s2[1] = s
  BY <1>2, Prepended
<1>4. \A i \in 2 .. n + 1 : /\ c2[i] = ch[i - 1] /\ v2[i] = vl[i - 1]
                            /\ s2[i] = st[i - 1] /\ i - 1 \in 1 .. n
  BY <1>2, Prepended
<1> HIDE DEF c2, v2, s2
<1>5. \A i \in 1 .. n : ch[i] # p /\ ch[i] # v /\ vl[i] # p /\ vl[i] # v
  BY <1>1 DEF Apart
<1>6. \A i \in 1 .. n + 1 : i = 1 \/ i \in 2 .. n + 1
  BY <1>2
<1>7. Lists(c2, v2, s2)
  <2>1. ASSUME NEW i \in 1 .. n + 1, NEW j \in 1 .. n + 1
        PROVE  /\ c2[i] = c2[j] => i = j
               /\ v2[i] = v2[j] => i = j
               /\ c2[i] # v2[j]
    <3>1. CASE i = 1 /\ j = 1
      BY <3>1, <1>3
    <3>2. CASE i = 1 /\ j \in 2 .. n + 1
      BY <3>2, <1>3, <1>4, <1>5
    <3>3. CASE i \in 2 .. n + 1 /\ j = 1
      BY <3>3, <1>3, <1>4, <1>5
    <3>4. CASE i \in 2 .. n + 1 /\ j \in 2 .. n + 1
      <4>1. /\ i - 1 \in 1 .. n /\ j - 1 \in 1 .. n
            /\ c2[i] = ch[i - 1] /\ v2[i] = vl[i - 1]
            /\ c2[j] = ch[j - 1] /\ v2[j] = vl[j - 1]
        BY <3>4, <1>4
      <4>2. i - 1 = j - 1 => i = j
        OBVIOUS
      <4>3. QED
        BY <4>1, <4>2, <1>1 DEF Lists
    <3>5. QED
      BY <3>1, <3>2, <3>3, <3>4, <1>6
  <2>2. QED
    BY <2>1, <1>3 DEF Lists
<1>8. Apart(c2, v2, S)
  BY <1>1, <1>3, <1>4, <1>6 DEF Apart
<1>9. Linked(h, c2, v2, s2, e)
  <2>1. h[c2[1]] = Element(v2[1], NextOf(c2, 1, e)) /\ h[v2[1]] = StringOf(s2[1])
    <3>1. NextOf(c2, 1, e) = FirstOf(ch, e)
      <4>1. CASE n = 0
        BY <4>1, <1>1, <1>3, ListLength DEF NextOf, FirstOf
      <4>2. CASE n # 0
        <5>1. 2 \in 2 .. n + 1 /\ 1 # n + 1 /\ 2 - 1 = 1 /\ 1 + 1 = 2
          BY <4>2, <1>2
        <5>2. c2[2] = ch[1]
          BY <5>1, <1>4
        <5>3. ch # << >>
          BY <4>2, <1>1, <1>2, ListLength
        <5>4. QED
          BY <5>1, <5>2, <5>3, <1>3 DEF NextOf, FirstOf
      <4>3. QED
        BY <4>1, <4>2
    <3>2. QED
      BY <3>1, <1>3
  <2>2. ASSUME NEW i \in 2 .. n + 1
        PROVE  /\ h[c2[i]] = Element(v2[i], NextOf(c2, i, e))
               /\ h[v2[i]] = StringOf(s2[i])
    <3>1. /\ h[ch[i - 1]] = Element(vl[i - 1], NextOf(ch, i - 1, e))
          /\ h[vl[i - 1]] = StringOf(st[i - 1])
      BY <1>4 DEF Held, Linked
    <3>2. NextOf(c2, i, e) = NextOf(ch, i - 1, e)
      <4>1. CASE i = n + 1
        BY <4>1, <1>2, <1>3 DEF NextOf
      <4>2. CASE i # n + 1
        <5>1. i + 1 \in 2 .. n + 1 /\ (i + 1) - 1 = (i - 1) + 1 /\ i - 1 # n
          BY <4>2, <1>2
        <5>2. c2[i + 1] = ch[(i - 1) + 1]
          BY <5>1, <1>4
        <5>3. QED
          BY <4>2, <5>1, <5>2, <1>3 DEF NextOf
      <4>3. QED
        BY <4>1, <4>2
    <3>3. QED
      BY <3>1, <3>2, <1>4
  <2>3. QED
    BY <2>1, <2>2, <1>3, <1>6 DEF Linked
<1>10. Extent(h, c2, v2, S)
  <2>1. Extent(h, ch, vl, S \cup {p, v})
    BY DEF Held
  <2>2. ASSUME NEW i \in 1 .. n + 1
        PROVE  c2[i] \in DOMAIN h /\ v2[i] \in DOMAIN h
    BY <2>1, <1>3, <1>4, <1>6 DEF Extent
  <2>3. ASSUME NEW b \in DOMAIN h
        PROVE  b \in S \/ \E i \in 1 .. n + 1 : b = c2[i] \/ b = v2[i]
    <3>1. CASE b = p \/ b = v
      <4>1. 1 \in 1 .. n + 1
        BY <1>2
      <4>2. QED
        BY <3>1, <4>1, <1>3
    <3>2. CASE \E i \in 1 .. n : b = ch[i] \/ b = vl[i]
      <4>1. PICK i \in 1 .. n : b = ch[i] \/ b = vl[i]
        BY <3>2
      <4>2. i + 1 \in 2 .. n + 1 /\ i + 1 \in 1 .. n + 1 /\ (i + 1) - 1 = i
        BY <1>2
      <4>3. b = c2[i + 1] \/ b = v2[i + 1]
        BY <4>1, <4>2, <1>4
      <4>4. QED
        BY <4>2, <4>3
    <3>3. QED
      BY <3>1, <3>2, <2>1 DEF Extent
  <2>4. QED
    BY <2>1, <2>2, <2>3, <1>3 DEF Extent
<1>11. QED
  BY <1>7, <1>8, <1>9, <1>10 DEF Held, c2, v2, s2

\* An element to which the last one leads becomes the last one.
LEMMA PushBack ==
    ASSUME NEW h, NEW ch, NEW vl, NEW st, NEW S, NEW e,
           NEW p \in Block, NEW v \in Block, NEW s \in Str,
           p \notin S, v \notin S, p # v,
           Held(h, ch, vl, st, S \cup {p, v}, p),
           h[p] = Element(v, e), h[v] = StringOf(s)
    PROVE  Held(h, Append(ch, p), Append(vl, v), Append(st, s), S, e)
<1> DEFINE c2 == Append(ch, p)
           v2 == Append(vl, v)
           s2 == Append(st, s)
           n == Len(ch)
<1>1. Lists(ch, vl, st) /\ Apart(ch, vl, S \cup {p, v})
  BY DEF Held
<1>2. /\ n \in Nat /\ Len(vl) = n /\ Len(st) = n
      /\ ch \in Seq(Block) /\ vl \in Seq(Block) /\ st \in Seq(Str)
  BY <1>1, ListLength DEF Lists
<1>3. /\ c2 \in Seq(Block) /\ v2 \in Seq(Block) /\ s2 \in Seq(Str)
      /\ Len(c2) = n + 1 /\ Len(v2) = n + 1 /\ Len(s2) = n + 1
      /\ c2[n + 1] = p /\ v2[n + 1] = v /\ s2[n + 1] = s
  BY <1>2, Appended
<1>4. \A i \in 1 .. n : c2[i] = ch[i] /\ v2[i] = vl[i] /\ s2[i] = st[i]
  BY <1>2, Appended
<1> HIDE DEF c2, v2, s2
<1>5. \A i \in 1 .. n : ch[i] # p /\ ch[i] # v /\ vl[i] # p /\ vl[i] # v
  BY <1>1 DEF Apart
<1>6. \A i \in 1 .. n + 1 : i = n + 1 \/ i \in 1 .. n
  BY <1>2
<1>7. Lists(c2, v2, s2)
  <2>1. ASSUME NEW i \in 1 .. n + 1, NEW j \in 1 .. n + 1
        PROVE  /\ c2[i] = c2[j] => i = j
               /\ v2[i] = v2[j] => i = j
               /\ c2[i] # v2[j]
    <3>1. CASE i = n + 1 /\ j = n + 1
      BY <3>1, <1>3
    <3>2. CASE i = n + 1 /\ j \in 1 .. n
      BY <3>2, <1>3, <1>4, <1>5
    <3>3. CASE i \in 1 .. n /\ j = n + 1
      BY <3>3, <1>3, <1>4, <1>5
    <3>4. CASE i \in 1 .. n /\ j \in 1 .. n
      BY <3>4, <1>4, <1>1 DEF Lists
    <3>5. QED
      BY <3>1, <3>2, <3>3, <3>4, <1>6
  <2>2. QED
    BY <2>1, <1>3 DEF Lists
<1>8. Apart(c2, v2, S)
  BY <1>1, <1>3, <1>4, <1>6 DEF Apart
<1>9. Linked(h, c2, v2, s2, e)
  <2>1. /\ h[c2[n + 1]] = Element(v2[n + 1], NextOf(c2, n + 1, e))
        /\ h[v2[n + 1]] = StringOf(s2[n + 1])
    BY <1>3 DEF NextOf
  <2>2. ASSUME NEW i \in 1 .. n
        PROVE  /\ h[c2[i]] = Element(v2[i], NextOf(c2, i, e))
               /\ h[v2[i]] = StringOf(s2[i])
    <3>1. /\ h[ch[i]] = Element(vl[i], NextOf(ch, i, p))
          /\ h[vl[i]] = StringOf(st[i])
      BY DEF Held, Linked
    <3>2. NextOf(c2, i, e) = NextOf(ch, i, p)
      <4>1. i # n + 1
        BY <1>2
      <4>2. CASE i = n
        BY <4>1, <4>2, <1>3 DEF NextOf
      <4>3. CASE i # n
        <5>1. i + 1 \in 1 .. n
          BY <4>3, <1>2
        <5>2. c2[i + 1] = ch[i + 1]
          BY <5>1, <1>4
        <5>3. QED
          BY <4>1, <4>3, <5>2, <1>3 DEF NextOf
      <4>4. QED
        BY <4>2, <4>3
    <3>3. QED
      BY <3>1, <3>2, <1>4
  <2>3. QED
    BY <2>1, <2>2, <1>3, <1>6 DEF Linked
<1>10. Extent(h, c2, v2, S)
  <2>1. Extent(h, ch, vl, S \cup {p, v})
    BY DEF Held
  <2>2. ASSUME NEW i \in 1 .. n + 1
        PROVE  c2[i] \in DOMAIN h /\ v2[i] \in DOMAIN h
    BY <2>1, <1>3, <1>4, <1>6 DEF Extent
  <2>3. ASSUME NEW b \in DOMAIN h
        PROVE  b \in S \/ \E i \in 1 .. n + 1 : b = c2[i] \/ b = v2[i]
    <3>1. CASE b = p \/ b = v
      <4>1. n + 1 \in 1 .. n + 1
        BY <1>2
      <4>2. QED
        BY <3>1, <4>1, <1>3
    <3>2. CASE \E i \in 1 .. n : b = ch[i] \/ b = vl[i]
      <4>1. PICK i \in 1 .. n : b = ch[i] \/ b = vl[i]
        BY <3>2
      <4>2. i \in 1 .. n + 1
        BY <1>2
      <4>3. b = c2[i] \/ b = v2[i]
        BY <4>1, <1>4
      <4>4. QED
        BY <4>2, <4>3
    <3>3. QED
      BY <3>1, <3>2, <2>1 DEF Extent
  <2>4. QED
    BY <2>1, <2>2, <2>3, <1>3 DEF Extent
<1>11. QED
  BY <1>7, <1>8, <1>9, <1>10 DEF Held, c2, v2, s2

\* The link of the last element may be changed.
LEMMA NewEnd ==
    ASSUME NEW h, NEW g, NEW ch, NEW vl, NEW st, NEW S, NEW e, NEW d,
           Held(h, ch, vl, st, S, e), ch # << >>,
           DOMAIN g = DOMAIN h,
           g[ch[Len(ch)]] = Element(vl[Len(ch)], d),
           \A b \in DOMAIN h : b # ch[Len(ch)] => g[b] = h[b]
    PROVE  Held(g, ch, vl, st, S, d)
<1>1. Lists(ch, vl, st) /\ Extent(h, ch, vl, S)
  BY DEF Held
<1>2. Len(ch) \in 1 .. Len(ch)
  BY <1>1, ListLength
<1>3. ASSUME NEW i \in 1 .. Len(ch)
      PROVE  /\ g[ch[i]] = Element(vl[i], NextOf(ch, i, d))
             /\ g[vl[i]] = StringOf(st[i])
  <2>1. h[ch[i]] = Element(vl[i], NextOf(ch, i, e)) /\ h[vl[i]] = StringOf(st[i])
    BY DEF Held, Linked
  <2>2. vl[i] # ch[Len(ch)] /\ vl[i] \in DOMAIN h
    BY <1>1, <1>2 DEF Lists, Extent
  <2>3. CASE i = Len(ch)
    BY <2>1, <2>2, <2>3 DEF NextOf
  <2>4. CASE i # Len(ch)
    <3>1. ch[i] # ch[Len(ch)] /\ ch[i] \in DOMAIN h
      BY <2>4, <1>1, <1>2 DEF Lists, Extent
    <3>2. NextOf(ch, i, d) = NextOf(ch, i, e)
      BY <2>4 DEF NextOf
    <3>3. QED
      BY <2>1, <2>2, <3>1, <3>2
  <2>5. QED
    BY <2>3, <2>4
<1>4. Linked(g, ch, vl, st, d)
  BY <1>3 DEF Linked
<1>5. QED
  BY <1>4 DEF Held, Extent

\* The first element is taken out of the list.
LEMMA PopFront ==
    ASSUME NEW h, NEW ch, NEW vl, NEW st, NEW S, NEW e,
           Held(h, ch, vl, st, S, e), ch # << >>
    PROVE  /\ Held(h, Tail(ch), Tail(vl), Tail(st), S \cup {ch[1], vl[1]}, e)
           /\ h[ch[1]] = Element(vl[1], FirstOf(Tail(ch), e))
           /\ h[vl[1]] = StringOf(st[1])
           /\ ch[1] \in Block /\ vl[1] \in Block /\ st[1] \in Str
           /\ ch[1] # vl[1] /\ ch[1] \notin S /\ vl[1] \notin S
           /\ ch[1] \in DOMAIN h /\ vl[1] \in DOMAIN h
           /\ Len(Tail(ch)) = Len(ch) - 1
<1> DEFINE c2 == Tail(ch)
           v2 == Tail(vl)
           s2 == Tail(st)
           n == Len(ch)
<1>1. Lists(ch, vl, st) /\ Apart(ch, vl, S) /\ Extent(h, ch, vl, S)
  BY DEF Held
<1>2. /\ n \in Nat /\ n >= 1 /\ Len(vl) = n /\ Len(st) = n
      /\ ch \in Seq(Block) /\ vl \in Seq(Block) /\ st \in Seq(Str)
  BY <1>1, ListLength DEF Lists
<1>3. vl # << >> /\ st # << >>
  BY <1>2
<1>4. /\ c2 \in Seq(Block) /\ v2 \in Seq(Block) /\ s2 \in Seq(Str)
      /\ Len(c2) = n - 1 /\ Len(v2) = n - 1 /\ Len(s2) = n - 1
  BY <1>2, <1>3, Shortened
<1>5. \A i \in 1 .. n - 1 : /\ c2[i] = ch[i + 1] /\ v2[i] = vl[i + 1]
                            /\ s2[i] = st[i + 1] /\ i + 1 \in 1 .. n /\ i + 1 # 1
  BY <1>2, <1>3, Shortened
<1> HIDE DEF c2, v2, s2
<1>6. 1 \in 1 .. n
  BY <1>2
<1>7. /\ ch[1] # vl[1] /\ ch[1] \notin S /\ vl[1] \notin S
      /\ ch[1] \in DOMAIN h /\ vl[1] \in DOMAIN h
      /\ ch[1] \in Block /\ vl[1] \in Block /\ st[1] \in Str
  BY <1>1, <1>6, ListLength DEF Lists, Apart, Extent
<1>8. /\ h[ch[1]] = Element(vl[1], FirstOf(c2, e)) /\ h[vl[1]] = StringOf(st[1])
  <2>1. /\ h[ch[1]] = Element(vl[1], NextOf(ch, 1, e)) /\ h[vl[1]] = StringOf(st[1])
    BY <1>6 DEF Held, Linked
  <2>2. NextOf(ch, 1, e) = FirstOf(c2, e)
    <3>1. CASE n = 1
      <4>1. c2 = << >>
        BY <3>1, <1>4
      <4>2. QED
        BY <3>1, <4>1 DEF NextOf, FirstOf
    <3>2. CASE n # 1
      <4>1. 1 \in 1 .. n - 1
        BY <3>2, <1>2
      <4>2. c2 # << >>
        BY <3>2, <1>2, <1>4
      <4>3. c2[1] = ch[1 + 1]
        BY <4>1, <1>5
      <4>4. QED
        BY <3>2, <4>2, <4>3 DEF NextOf, FirstOf
    <3>3. QED
      BY <3>1, <3>2
  <2>3. QED
    BY <2>1, <2>2
<1>9. Lists(c2, v2, s2)
  <2>1. ASSUME NEW i \in 1 .. n - 1, NEW j \in 1 .. n - 1
        PROVE  /\ c2[i] = c2[j] => i = j
               /\ v2[i] = v2[j] => i = j
               /\ c2[i] # v2[j]
    <3>1. /\ i + 1 \in 1 .. n /\ j + 1 \in 1 .. n
          /\ c2[i] = ch[i + 1] /\ v2[i] = vl[i + 1]
          /\ c2[j] = ch[j + 1] /\ v2[j] = vl[j + 1]
      BY <1>5
    <3>2. i + 1 = j + 1 => i = j
      OBVIOUS
    <3>3. QED
      BY <3>1, <3>2, <1>1 DEF Lists
  <2>2. QED
    BY <2>1, <1>4 DEF Lists
<1>10. Apart(c2, v2, S \cup {ch[1], vl[1]})
  <2>1. ASSUME NEW i \in 1 .. n - 1
        PROVE  /\ c2[i] \notin S \cup {ch[1], vl[1]}
               /\ v2[i] \notin S \cup {ch[1], vl[1]}
    <3>1. /\ i + 1 \in 1 .. n /\ i + 1 # 1
          /\ c2[i] = ch[i + 1] /\ v2[i] = vl[i + 1]
      BY <1>5
    <3>2. QED
      BY <3>1, <1>1, <1>6 DEF Lists, Apart
  <2>2. QED
    BY <2>1, <1>4 DEF Apart
<1>11. Linked(h, c2, v2, s2, e)
  <2>1. ASSUME NEW i \in 1 .. n - 1
        PROVE  /\ h[c2[i]] = Element(v2[i], NextOf(c2, i, e))
               /\ h[v2[i]] = StringOf(s2[i])
    <3>1. /\ i + 1 \in 1 .. n
          /\ c2[i] = ch[i + 1] /\ v2[i] = vl[i + 1] /\ s2[i] = st[i + 1]
      BY <1>5
    <3>2. /\ h[ch[i + 1]] = Element(vl[i + 1], NextOf(ch, i + 1, e))
          /\ h[vl[i + 1]] = StringOf(st[i + 1])
      BY <3>1 DEF Held, Linked
    <3>3. NextOf(ch, i + 1, e) = NextOf(c2, i, e)
      <4>1. CASE i = n - 1
        <5>1. i + 1 = n
          BY <4>1, <1>2
        <5>2. QED
          BY <4>1, <5>1, <1>4 DEF NextOf
      <4>2. CASE i # n - 1
        <5>1. i + 1 # n /\ i + 1 \in 1 .. n - 1
          BY <4>2, <1>2
        <5>2. c2[i + 1] = ch[i + 1 + 1]
          BY <5>1, <1>5
        <5>3. QED
          BY <4>2, <5>1, <5>2, <1>4 DEF NextOf
      <4>3. QED
        BY <4>1, <4>2
    <3>4. QED
      BY <3>1, <3>2, <3>3
  <2>2. QED
    BY <2>1, <1>4 DEF Linked
<1>12. Extent(h, c2, v2, S \cup {ch[1], vl[1]})
  <2>1. ASSUME NEW i \in 1 .. n - 1
        PROVE  c2[i] \in DOMAIN h /\ v2[i] \in DOMAIN h
    BY <1>1, <1>5 DEF Extent
  <2>2. ASSUME NEW b \in DOMAIN h, b \notin S \cup {ch[1], vl[1]}
        PROVE  \E i \in 1 .. n - 1 : b = c2[i] \/ b = v2[i]
    <3>1. PICK i \in 1 .. n : b = ch[i] \/ b = vl[i]
      BY <2>2, <1>1 DEF Extent
    <3>2. i # 1
      BY <3>1, <2>2
    <3>3. i - 1 \in 1 .. n - 1 /\ (i - 1) + 1 = i
      BY <3>2, <1>2
    <3>4. c2[i - 1] = ch[i] /\ v2[i - 1] = vl[i]
      BY <3>3, <1>5
    <3>5. QED
      BY <3>1, <3>3, <3>4
  <2>3. QED
    BY <2>1, <2>2, <1>1, <1>4, <1>7 DEF Extent
<1>13. QED
  BY <1>4, <1>7, <1>8, <1>9, <1>10, <1>11, <1>12 DEF Held, c2, v2, s2

-----------------------------------------------------------------------------
(* A list that is turned around.                                             *)

LEMMA TurnedStart ==
    ASSUME NEW h, NEW ch, NEW vl, NEW st, NEW S, Held(h, ch, vl, st, S, NULL)
    PROVE  Turned(h, ch, vl, st, S, 0)
<1>1. ASSUME NEW i \in 1 .. Len(ch)
      PROVE  TurnedNext(ch, i, 0) = NextOf(ch, i, NULL)
  <2>1. ~(i <= 0)
    OBVIOUS
  <2>2. QED
    BY <2>1 DEF TurnedNext
<1>2. QED
  BY <1>1 DEF Held, Linked, Turned

LEMMA TurnedMore ==
    ASSUME NEW h, NEW g, NEW ch, NEW vl, NEW st, NEW S, NEW k \in Nat,
           Turned(h, ch, vl, st, S, k), k < Len(ch),
           DOMAIN g = DOMAIN h,
           g[ch[k + 1]] = Element(vl[k + 1], IF k = 0 THEN NULL ELSE ch[k]),
           \A b \in DOMAIN h : b # ch[k + 1] => g[b] = h[b]
    PROVE  Turned(g, ch, vl, st, S, k + 1)
<1>1. Lists(ch, vl, st) /\ Extent(h, ch, vl, S)
  BY DEF Turned
<1>2. Len(ch) \in Nat /\ k + 1 \in 1 .. Len(ch) /\ (k + 1) - 1 = k
  BY <1>1, ListLength
<1>3. ASSUME NEW i \in 1 .. Len(ch)
      PROVE  /\ g[ch[i]] = Element(vl[i], TurnedNext(ch, i, k + 1))
             /\ g[vl[i]] = StringOf(st[i])
  <2>1. /\ h[ch[i]] = Element(vl[i], TurnedNext(ch, i, k))
        /\ h[vl[i]] = StringOf(st[i])
    BY DEF Turned
  <2>2. vl[i] # ch[k + 1] /\ vl[i] \in DOMAIN h /\ ch[i] \in DOMAIN h
    BY <1>1, <1>2 DEF Lists, Extent
  <2>3. CASE i = k + 1
    <3>1. TurnedNext(ch, i, k + 1) = IF k = 0 THEN NULL ELSE ch[k]
      <4>1. i <= k + 1 /\ (i = 1 <=> k = 0) /\ i - 1 = k
        BY <2>3
      <4>2. QED
        BY <4>1 DEF TurnedNext
    <3>2. QED
      BY <2>1, <2>2, <2>3, <3>1
  <2>4. CASE i # k + 1
    <3>1. ch[i] # ch[k + 1]
      BY <2>4, <1>1, <1>2 DEF Lists
    <3>2. i <= k + 1 <=> i <= k
      BY <2>4
    <3>3. TurnedNext(ch, i, k + 1) = TurnedNext(ch, i, k)
      BY <3>2 DEF TurnedNext
    <3>4. QED
      BY <2>1, <2>2, <3>1, <3>3
  <2>5. QED
    BY <2>3, <2>4
<1>4. QED
  BY <1>1, <1>3 DEF Turned, Extent

LEMMA Reversed ==
    ASSUME NEW S, NEW s \in Seq(S)
    PROVE  /\ Reverse(s) \in Seq(S) /\ Len(Reverse(s)) = Len(s)
           /\ \A i \in 1 .. Len(s) : /\ Len(s) - i + 1 \in 1 .. Len(s)
                                     /\ Reverse(s)[i] = s[Len(s) - i + 1]
<1>1. Len(s) \in Nat
  OBVIOUS
<1>2. Reverse(s) = [i \in 1 .. Len(s) |-> s[(Len(s) - i) + 1]]
  BY DEF Reverse
<1>3. \A i \in 1 .. Len(s) : Len(s) - i + 1 \in 1 .. Len(s)
  BY <1>1
<1>4. \A i \in 1 .. Len(s) : s[i] \in S
  OBVIOUS
<1>5. QED
  BY <1>1, <1>2, <1>3, <1>4

LEMMA TurnedEnd ==
    ASSUME NEW h, NEW ch, NEW vl, NEW st, NEW S,
           Turned(h, ch, vl, st, S, Len(ch))
    PROVE  Held(h, Reverse(ch), Reverse(vl), Reverse(st), S, NULL)
<1> DEFINE c2 == Reverse(ch)
           v2 == Reverse(vl)
           s2 == Reverse(st)
           n == Len(ch)
<1>1. Lists(ch, vl, st) /\ Apart(ch, vl, S) /\ Extent(h, ch, vl, S)
  BY DEF Turned
<1>2. /\ n \in Nat /\ Len(vl) = n /\ Len(st) = n
      /\ ch \in Seq(Block) /\ vl \in Seq(Block) /\ st \in Seq(Str)
  BY <1>1, ListLength DEF Lists
<1>3. /\ c2 \in Seq(Block) /\ v2 \in Seq(Block) /\ s2 \in Seq(Str)
      /\ Len(c2) = n /\ Len(v2) = n /\ Len(s2) = n
  BY <1>2, Reversed
<1>4. \A i \in 1 .. n : /\ n - i + 1 \in 1 .. n
                        /\ c2[i] = ch[n - i + 1] /\ v2[i] = vl[n - i + 1]
                        /\ s2[i] = st[n - i + 1]
  BY <1>2, Reversed
<1> HIDE DEF c2, v2, s2
<1>5. Lists(c2, v2, s2)
  <2>1. ASSUME NEW i \in 1 .. n, NEW j \in 1 .. n
        PROVE  /\ c2[i] = c2[j] => i = j
               /\ v2[i] = v2[j] => i = j
               /\ c2[i] # v2[j]
    <3>1. /\ n - i + 1 \in 1 .. n /\ n - j + 1 \in 1 .. n
          /\ c2[i] = ch[n - i + 1] /\ v2[i] = vl[n - i + 1]
          /\ c2[j] = ch[n - j + 1] /\ v2[j] = vl[n - j + 1]
      BY <1>4
    <3>2. n - i + 1 = n - j + 1 => i = j
      BY <1>2
    <3>3. QED
      BY <3>1, <3>2, <1>1 DEF Lists
  <2>2. QED
    BY <2>1, <1>3 DEF Lists
<1>6. Apart(c2, v2, S)
  BY <1>1, <1>3, <1>4 DEF Apart
<1>7. Linked(h, c2, v2, s2, NULL)
  <2>1. ASSUME NEW i \in 1 .. n
        PROVE  /\ h[c2[i]] = Element(v2[i], NextOf(c2, i, NULL))
               /\ h[v2[i]] = StringOf(s2[i])
    <3> DEFINE j == n - i + 1
    <3>1. /\ j \in 1 .. n /\ c2[i] = ch[j] /\ v2[i] = vl[j] /\ s2[i] = st[j]
      BY <1>4
    <3>2. /\ h[ch[j]] = Element(vl[j], TurnedNext(ch, j, n))
          /\ h[vl[j]] = StringOf(st[j])
      BY <3>1 DEF Turned
    <3>3. TurnedNext(ch, j, n) = NextOf(c2, i, NULL)
      <4>1. j <= n
        BY <3>1, <1>2
      <4>2. CASE i = n
        <5>1. j = 1
          BY <4>2, <1>2
        <5>2. QED
          BY <4>1, <4>2, <5>1, <1>3 DEF TurnedNext, NextOf
      <4>3. CASE i # n
        <5>1. i + 1 \in 1 .. n /\ n - (i + 1) + 1 = j - 1 /\ j # 1
          BY <4>3, <1>2
        <5>2. c2[i + 1] = ch[j - 1]
          BY <5>1, <1>4
        <5>3. QED
          BY <4>1, <4>3, <5>1, <5>2, <1>3 DEF TurnedNext, NextOf
      <4>4. QED
        BY <4>2, <4>3
    <3>4. QED
      BY <3>1, <3>2, <3>3
  <2>2. QED
    BY <2>1, <1>3 DEF Linked
<1>8. Extent(h, c2, v2, S)
  <2>1. ASSUME NEW i \in 1 .. n
        PROVE  c2[i] \in DOMAIN h /\ v2[i] \in DOMAIN h
    BY <1>1, <1>4 DEF Extent
  <2>2. ASSUME NEW b \in DOMAIN h, b \notin S
        PROVE  \E i \in 1 .. n : b = c2[i] \/ b = v2[i]
    <3>1. PICK i \in 1 .. n : b = ch[i] \/ b = vl[i]
      BY <2>2, <1>1 DEF Extent
    <3>2. n - i + 1 \in 1 .. n /\ n - (n - i + 1) + 1 = i
      BY <1>2
    <3>3. c2[n - i + 1] = ch[i] /\ v2[n - i + 1] = vl[i]
      BY <3>2, <1>4
    <3>4. QED
      BY <3>1, <3>2, <3>3
  <2>3. QED
    BY <2>1, <2>2, <1>1, <1>3 DEF Extent
<1>9. QED
  BY <1>5, <1>6, <1>7, <1>8 DEF Held, c2, v2, s2

-----------------------------------------------------------------------------
(* Counting, and the block that malloc returns.                              *)

LEMMA BlockCount ==
    ASSUME NEW h, NEW ch, NEW vl, NEW st, NEW S, NEW e,
           Held(h, ch, vl, st, S, e), IsFiniteSet(S)
    PROVE  /\ IsFiniteSet(DOMAIN h)
           /\ Cardinality(DOMAIN h) = Cardinality(S) + 2 * Len(ch)
<1> DEFINE n == Len(ch)
           T == DOMAIN h \ S
           f == [i \in 1 .. 2 * n |-> IF i <= n THEN ch[i] ELSE vl[i - n]]
<1>1. Lists(ch, vl, st) /\ Apart(ch, vl, S) /\ Extent(h, ch, vl, S)
  BY DEF Held
<1>2. n \in Nat
  BY <1>1, ListLength
<1>3. \A i \in 1 .. 2 * n : \/ i <= n /\ i \in 1 .. n /\ f[i] = ch[i]
                            \/ ~(i <= n) /\ i - n \in 1 .. n /\ f[i] = vl[i - n]
  BY <1>2
<1>4. f \in [1 .. 2 * n -> T]
  <2>1. ASSUME NEW i \in 1 .. 2 * n
        PROVE  f[i] \in T
    BY <1>1, <1>3 DEF Apart, Extent
  <2>2. QED
    BY <2>1
<1>5. ASSUME NEW i \in 1 .. 2 * n, NEW j \in 1 .. 2 * n, f[i] = f[j]
      PROVE  i = j
  <2> HIDE DEF f
  <2>1. CASE i <= n /\ j <= n
    BY <2>1, <1>1, <1>3, <1>5 DEF Lists
  <2>2. CASE i <= n /\ ~(j <= n)
    BY <2>2, <1>1, <1>3, <1>5 DEF Lists
  <2>3. CASE ~(i <= n) /\ j <= n
    BY <2>3, <1>1, <1>3, <1>5 DEF Lists
  <2>4. CASE ~(i <= n) /\ ~(j <= n)
    <3>1. i - n \in 1 .. n /\ j - n \in 1 .. n /\ vl[i - n] = vl[j - n]
      BY <2>4, <1>3, <1>5
    <3>2. i - n = j - n
      BY <3>1, <1>1 DEF Lists
    <3>3. QED
      BY <3>2, <1>2
  <2>5. QED
    BY <2>1, <2>2, <2>3, <2>4
<1>6. ASSUME NEW b \in T
      PROVE  \E i \in 1 .. 2 * n : f[i] = b
  <2>1. PICK i \in 1 .. n : b = ch[i] \/ b = vl[i]
    BY <1>1 DEF Extent
  <2>2. CASE b = ch[i]
    <3>1. i \in 1 .. 2 * n /\ i <= n
      BY <1>2
    <3>2. QED
      BY <2>2, <3>1
  <2>3. CASE b = vl[i]
    <3>1. i + n \in 1 .. 2 * n /\ ~(i + n <= n) /\ (i + n) - n = i
      BY <1>2
    <3>2. QED
      BY <2>3, <3>1
  <2>4. QED
    BY <2>1, <2>2, <2>3
<1> HIDE DEF f
<1>7. f \in Bijection(1 .. 2 * n, T)
  <2>1. f \in Injection(1 .. 2 * n, T)
    BY <1>4, <1>5 DEF Injection, IsInjective
  <2>2. f \in Surjection(1 .. 2 * n, T)
    BY <1>4, <1>6 DEF Surjection
  <2>3. QED
    BY <2>1, <2>2 DEF Bijection
<1>8. ExistsBijection(1 .. 2 * n, T)
  BY <1>7 DEF ExistsBijection
<1>9. IsFiniteSet(1 .. 2 * n) /\ Cardinality(1 .. 2 * n) = 2 * n
  <2>1. 1 \in Int /\ 2 * n \in Int
    BY <1>2
  <2>2. /\ IsFiniteSet(1 .. 2 * n)
        /\ Cardinality(1 .. 2 * n) = IF 1 > 2 * n THEN 0 ELSE 2 * n - 1 + 1
    BY <2>1, FS_Interval
  <2>3. QED
    BY <2>2, <1>2
<1>10. IsFiniteSet(T) /\ Cardinality(T) = 2 * n
  BY <1>8, <1>9, FS_Bijection
<1>11. DOMAIN h = S \cup T /\ S \cap T = {}
  BY <1>1 DEF Extent
<1> HIDE DEF T
<1>12. /\ IsFiniteSet(S \cup T)
       /\ Cardinality(S \cup T) = Cardinality(S) + Cardinality(T) - Cardinality(S \cap T)
  BY <1>10, FS_Union
<1>13. Cardinality(S \cap T) = 0 /\ Cardinality(S) \in Nat
  BY <1>11, FS_EmptySet, FS_CardinalityType
<1>14. QED
  BY <1>2, <1>10, <1>11, <1>12, <1>13

LEMMA BlockFinite == /\ IsFiniteSet(Block) /\ Cardinality(Block) = MaxBlocks
                     /\ MaxBlocks \in Nat /\ MaxLen \in Nat /\ MaxBlocks >= 2 * MaxLen + 2
<1>1. MaxBlocks \in Nat /\ MaxLen \in Nat /\ MaxBlocks >= 2 * MaxLen + 2
  BY TesterAssumption
<1>2. /\ IsFiniteSet(1 .. MaxBlocks)
      /\ Cardinality(1 .. MaxBlocks) = IF 1 > MaxBlocks THEN 0 ELSE MaxBlocks - 1 + 1
  BY <1>1, FS_Interval
<1>3. QED
  BY <1>1, <1>2 DEF Block

LEMMA ListShort ==
    ASSUME NEW ch, NEW vl, NEW st, Lists(ch, vl, st)
    PROVE  Len(ch) <= MaxBlocks
<1>1. Len(ch) \in Nat /\ \A i \in 1 .. Len(ch) : ch[i] \in Block
  BY ListLength
<1> DEFINE f == [i \in 1 .. Len(ch) |-> ch[i]]
<1>2. f \in Injection(1 .. Len(ch), Block)
  BY <1>1 DEF Lists, Injection, IsInjective
<1>3. /\ IsFiniteSet(1 .. Len(ch))
      /\ Cardinality(1 .. Len(ch)) = IF 1 > Len(ch) THEN 0 ELSE Len(ch) - 1 + 1
  BY <1>1, FS_Interval
<1>4. Cardinality(1 .. Len(ch)) <= Cardinality(Block)
  BY <1>2, BlockFinite, FS_Injection
<1>5. QED
  BY <1>1, <1>3, <1>4, BlockFinite

LEMMA ListFits ==
    ASSUME NEW h, NEW ch, NEW vl, NEW st, NEW S, NEW e,
           Held(h, ch, vl, st, S, e)
    PROVE  Len(ch) <= MaxBlocks
  BY ListShort DEF Held

\* A block is left for malloc.
Room == \E b \in Block : b \notin DOMAIN heap

LEMMA FreeBlockFacts ==
    ASSUME Room
    PROVE  FreeBlock \in Block /\ FreeBlock \notin DOMAIN heap
<1> DEFINE T == Block \ DOMAIN heap
<1>1. T \in SUBSET Nat /\ T # {}
  BY DEF Room, Block
<1>2. PICK b \in T : \A c \in T : b <= c
  BY <1>1, SmallestOfSet
<1>3. \E x \in Block : /\ x \notin DOMAIN heap
                       /\ \A c \in Block \ DOMAIN heap : x <= c
  BY <1>2
<1>4. QED
  BY <1>3 DEF FreeBlock

LEMMA RoomLeft ==
    ASSUME IsFiniteSet(DOMAIN heap), Cardinality(DOMAIN heap) < MaxBlocks
    PROVE  Room
<1>1. SUFFICES ASSUME Block \subseteq DOMAIN heap
               PROVE  FALSE
  BY DEF Room
<1>2. Cardinality(Block) <= Cardinality(DOMAIN heap)
  BY <1>1, FS_Subset
<1>3. Cardinality(DOMAIN heap) \in Nat
  BY FS_CardinalityType
<1>4. QED
  BY <1>2, <1>3, BlockFinite

-----------------------------------------------------------------------------
(***************************************************************************)
(* Chain and Strings, the recursive reading of the heap, give back a list  *)
(* whose links are right.                                                  *)
(***************************************************************************)
ElementAt(h, a) == a \in DOMAIN h /\ h[a].kind = "element"

LinksTyped(h) == \A a \in DOMAIN h : h[a].kind = "element" => h[a].next \in Address

FollowStep(f, h, x) ==
    IF x[1] > 0 /\ ElementAt(h, x[2])
    THEN <<x[2]>> \o f[<<x[1] - 1, h[x[2]].next>>]
    ELSE << >>

Follows(f, m, h) == f = [x \in (0 .. m) \X Address |-> FollowStep(f, h, x)]

LEMMA FollowExtends ==
    ASSUME NEW h, LinksTyped(h), NEW m \in Nat, NEW f, Follows(f, m, h)
    PROVE  \E g : Follows(g, m + 1, h)
<1> DEFINE g == [x \in (0 .. m + 1) \X Address |-> FollowStep(f, h, x)]
<1>1. \A x \in (0 .. m) \X Address : f[x] = FollowStep(f, h, x)
  BY DEF Follows
<1>2. \A x \in (0 .. m) \X Address : x \in (0 .. m + 1) \X Address
  OBVIOUS
<1>3. \A x \in (0 .. m) \X Address : g[x] = f[x]
  BY <1>1, <1>2
<1> HIDE DEF g
<1>4. ASSUME NEW x \in (0 .. m + 1) \X Address
      PROVE  FollowStep(f, h, x) = FollowStep(g, h, x)
  <2>1. CASE x[1] > 0 /\ ElementAt(h, x[2])
    <3>1. x[1] - 1 \in 0 .. m /\ h[x[2]].next \in Address
      BY <2>1 DEF LinksTyped, ElementAt
    <3>2. <<x[1] - 1, h[x[2]].next>> \in (0 .. m) \X Address
      BY <3>1
    <3>3. g[<<x[1] - 1, h[x[2]].next>>] = f[<<x[1] - 1, h[x[2]].next>>]
      BY <1>3, <3>2
    <3>4. QED
      BY <3>3 DEF FollowStep
  <2>2. CASE ~(x[1] > 0 /\ ElementAt(h, x[2]))
    BY <2>2 DEF FollowStep
  <2>3. QED
    BY <2>1, <2>2
<1>5. g = [x \in (0 .. m + 1) \X Address |-> FollowStep(g, h, x)]
  BY <1>4 DEF g
<1>6. QED
  BY <1>5 DEF Follows

LEMMA FollowExists ==
    ASSUME NEW h, LinksTyped(h)
    PROVE  \A m \in Nat : \E f : Follows(f, m, h)
<1> DEFINE S == {m \in Nat : \E f : Follows(f, m, h)}
<1>1. 0 \in S
  <2> DEFINE g == [x \in (0 .. 0) \X Address |-> << >>]
  <2>1. \A x \in (0 .. 0) \X Address : FollowStep(g, h, x) = << >>
    BY DEF FollowStep
  <2>2. g = [x \in (0 .. 0) \X Address |-> FollowStep(g, h, x)]
    BY <2>1
  <2>3. Follows(g, 0, h)
    BY <2>2 DEF Follows
  <2>4. QED
    BY <2>3
<1>2. \A m \in S : m + 1 \in S
  BY FollowExtends
<1>3. S = Nat
  <2> HIDE DEF S
  <2>1. S \in SUBSET Nat
    BY DEF S
  <2>2. QED
    BY <1>1, <1>2, <2>1, SetInduction
<1>4. QED
  BY <1>3

\* A path through elements to NULL.
Path(h, c, e) ==
    /\ c \in Seq(Block) /\ Len(c) <= MaxBlocks
    /\ \A i \in 1 .. Len(c) : ElementAt(h, c[i]) /\ h[c[i]].next = NextOf(c, i, e)

\* Its last k addresses, which are k steps of the recursion.
LEMMA FollowPath ==
    ASSUME NEW h, LinksTyped(h), NEW e \in Address, e \notin DOMAIN h,
           NEW c, Path(h, c, e), NEW f, Follows(f, MaxBlocks, h)
    PROVE  f[<<MaxBlocks, FirstOf(c, e)>>] = c
<1> DEFINE n == Len(c)
           Place(k) == IF k = 0 THEN e ELSE c[n - k + 1]
           T == {k \in Nat : k <= n =>
                    \A m \in Nat : k <= m /\ m <= MaxBlocks =>
                        f[<<m, Place(k)>>] = SubSeq(c, n - k + 1, n)}
<1>1. /\ c \in Seq(Block) /\ n \in Nat /\ n <= MaxBlocks /\ MaxBlocks \in Nat
  BY BlockFinite DEF Path
<1>2. \A x \in (0 .. MaxBlocks) \X Address : f[x] = FollowStep(f, h, x)
  BY DEF Follows
<1>3. 0 \in T
  <2>1. ASSUME NEW m \in Nat, m <= MaxBlocks
        PROVE  f[<<m, e>>] = SubSeq(c, n - 0 + 1, n)
    <3>1. <<m, e>> \in (0 .. MaxBlocks) \X Address
      BY <1>1, <2>1
    <3>2. f[<<m, e>>] = << >>
      BY <1>2, <3>1 DEF FollowStep, ElementAt
    <3>3. SubSeq(c, n - 0 + 1, n) = << >>
      BY <1>1
    <3>4. QED
      BY <3>2, <3>3
  <2>2. Place(0) = e
    OBVIOUS
  <2>3. QED
    BY <2>1, <2>2
<1>4. ASSUME NEW k \in T
      PROVE  k + 1 \in T
  <2>1. ASSUME k + 1 <= n, NEW m \in Nat, k + 1 <= m, m <= MaxBlocks
        PROVE  f[<<m, Place(k + 1)>>] = SubSeq(c, n - (k + 1) + 1, n)
    <3> DEFINE j == n - k
    <3>1. /\ k \in Nat /\ j \in 1 .. n /\ n - (k + 1) + 1 = j /\ k + 1 # 0
          /\ m > 0 /\ m - 1 \in Nat /\ k <= m - 1 /\ m - 1 <= MaxBlocks /\ k <= n
      BY <1>1, <2>1
    <3>2. Place(k + 1) = c[j]
      BY <3>1
    <3>3. ElementAt(h, c[j]) /\ h[c[j]].next = NextOf(c, j, e)
      BY <3>1 DEF Path
    <3>4. NextOf(c, j, e) = Place(k)
      <4>1. CASE k = 0
        <5>1. j = n
          BY <4>1, <1>1
        <5>2. QED
          BY <4>1, <5>1 DEF NextOf
      <4>2. CASE k # 0
        <5>1. \A a, b \in Nat : b # 0 => a - b # a /\ a - b + 1 = (a - b) + 1
          OBVIOUS
        <5>2. j # n /\ n - k + 1 = j + 1
          BY <4>2, <5>1, <1>1, <3>1
        <5>3. QED
          BY <4>2, <5>2 DEF NextOf
      <4>3. QED
        BY <4>1, <4>2
    <3>5. f[<<m - 1, Place(k)>>] = SubSeq(c, n - k + 1, n)
      BY <3>1
    <3>6. <<m, c[j]>> \in (0 .. MaxBlocks) \X Address
      <4>1. c[j] \in Block
        BY <1>1, <3>1
      <4>2. m \in 0 .. MaxBlocks
        BY <1>1, <2>1
      <4>3. QED
        BY <4>1, <4>2 DEF Address
    <3>7. f[<<m, c[j]>>] = <<c[j]>> \o f[<<m - 1, h[c[j]].next>>]
      BY <1>2, <3>1, <3>3, <3>6 DEF FollowStep
    <3>8. <<c[j]>> \o SubSeq(c, j + 1, n) = SubSeq(c, j, n)
      <4>1. j \in Nat /\ 1 <= j /\ j <= n /\ c[j] \in Block
        BY <1>1, <3>1
      <4>2. /\ SubSeq(c, j + 1, n) \in Seq(Block)
            /\ Len(SubSeq(c, j + 1, n)) = n - j
            /\ \A i \in 1 .. n - j : SubSeq(c, j + 1, n)[i] = c[i + j]
        BY <1>1, <4>1
      <4>3. /\ SubSeq(c, j, n) \in Seq(Block)
            /\ Len(SubSeq(c, j, n)) = n - j + 1
            /\ \A i \in 1 .. n - j + 1 : SubSeq(c, j, n)[i] = c[i + j - 1]
        BY <1>1, <4>1
      <4> DEFINE r == SubSeq(c, j + 1, n)
                 t == SubSeq(c, j, n)
                 w == <<c[j]>> \o r
      <4> HIDE DEF r, t
      <4>4. r \in Seq(Block) /\ Len(r) = n - j /\ \A i \in 1 .. n - j : r[i] = c[i + j]
        BY <4>2 DEF r
      <4>5. /\ t \in Seq(Block) /\ Len(t) = n - j + 1
            /\ \A i \in 1 .. n - j + 1 : t[i] = c[i + j - 1]
        BY <4>3 DEF t
      <4>6. /\ w \in Seq(Block) /\ Len(w) = Len(r) + 1 /\ w[1] = c[j]
            /\ \A i \in 2 .. Len(r) + 1 : w[i] = r[i - 1]
        BY <4>1, <4>4, Prepended
      <4> HIDE DEF w
      <4>7. \A i \in 1 .. n - j + 1 : w[i] = t[i]
        <5>1. ASSUME NEW i \in 1 .. n - j + 1
              PROVE  w[i] = c[i + j - 1]
          <6>1. CASE i = 1
            <7>1. i + j - 1 = j
              BY <6>1, <4>1
            <7>2. QED
              BY <6>1, <7>1, <4>6
          <6>2. CASE i # 1
            <7>1. i \in 2 .. Len(r) + 1 /\ i - 1 \in 1 .. n - j /\ (i - 1) + j = i + j - 1
              BY <6>2, <1>1, <4>1, <4>4
            <7>2. w[i] = r[i - 1]
              BY <7>1, <4>6
            <7>3. r[i - 1] = c[(i - 1) + j]
              BY <7>1, <4>4
            <7>4. QED
              BY <7>1, <7>2, <7>3
          <6>3. QED
            BY <6>1, <6>2
        <5>2. QED
          BY <5>1, <4>5
      <4>8. Len(w) = Len(t)
        BY <4>4, <4>5, <4>6, <1>1, <4>1
      <4>9. w = t
        BY <4>5, <4>6, <4>7, <4>8, SeqEqual
      <4>10. QED
        BY <4>9 DEF w, r, t
    <3>9. n - k + 1 = j + 1
      OBVIOUS
    <3>10. QED
      BY <3>1, <3>2, <3>3, <3>4, <3>5, <3>7, <3>8, <3>9
  <2>2. k + 1 \in Nat
    OBVIOUS
  <2>3. QED
    BY <2>1, <2>2
<1>5. T = Nat
  <2>1. T \in SUBSET Nat
    OBVIOUS
  <2> HIDE DEF T
  <2>2. QED
    BY <1>3, <1>4, <2>1, SetInduction
<1>6. f[<<MaxBlocks, Place(n)>>] = SubSeq(c, n - n + 1, n)
  <2>1. n \in T
    BY <1>1, <1>5
  <2>2. \A m \in Nat : n <= m /\ m <= MaxBlocks =>
            f[<<m, Place(n)>>] = SubSeq(c, n - n + 1, n)
    BY <1>1, <2>1
  <2>3. QED
    BY <1>1, <2>2
<1>7. SubSeq(c, n - n + 1, n) = c
  BY <1>1
<1>8. Place(n) = FirstOf(c, e)
  <2>1. CASE n = 0
    <3>1. c = << >>
      BY <2>1, <1>1
    <3>2. QED
      BY <2>1, <3>1 DEF FirstOf
  <2>2. CASE n # 0
    <3>1. c # << >> /\ n - n + 1 = 1
      BY <2>2, <1>1
    <3>2. QED
      BY <2>2, <3>1 DEF FirstOf
  <2>3. QED
    BY <2>1, <2>2
<1>9. QED
  BY <1>6, <1>7, <1>8

LEMMA ChainOfPath ==
    ASSUME LinksTyped(heap), NEW e \in Address, e \notin DOMAIN heap,
           NEW c, Path(heap, c, e)
    PROVE  Chain(FirstOf(c, e)) = c
<1> DEFINE f == CHOOSE g : g = [x \in (0 .. MaxBlocks) \X Address |->
                    IF x[1] > 0 /\ IsElement(x[2])
                    THEN <<x[2]>> \o g[<<x[1] - 1, heap[x[2]].next>>]
                    ELSE << >>]
<1>1. \A g : Follows(g, MaxBlocks, heap) <=>
             g = [x \in (0 .. MaxBlocks) \X Address |->
                    IF x[1] > 0 /\ IsElement(x[2])
                    THEN <<x[2]>> \o g[<<x[1] - 1, heap[x[2]].next>>]
                    ELSE << >>]
  BY DEF Follows, FollowStep, IsElement, ElementAt
<1>2. \E g : Follows(g, MaxBlocks, heap)
  BY FollowExists, BlockFinite
<1>3. Follows(f, MaxBlocks, heap)
  BY <1>1, <1>2, Zenon
<1>4. Chain(FirstOf(c, e)) = f[<<MaxBlocks, FirstOf(c, e)>>]
  BY DEF Chain
<1> HIDE DEF f
<1>5. QED
  BY <1>3, <1>4, FollowPath

-----------------------------------------------------------------------------
(***************************************************************************)
(* The inductive invariant.                                                *)
(***************************************************************************)
QueueCells   == [kind : {"queue"}, head : Address, tail : Address, size : 0 .. MaxLen]
ElementCells == [kind : {"element"}, value : Address, next : Address]
StringCells  == [kind : {"string"}, str : Str]

LocalTypes == [ok : BOOLEAN, r : Nat, ptr : Address, aux : Address, rval : BOOLEAN,
               seen : Nat, taken : Str \cup {NoStr}]

\* Types, also of a heap that an exception has damaged.
Typed ==
    /\ DOMAIN heap \subseteq Block
    /\ heap \in [DOMAIN heap -> QueueCells \cup ElementCells \cup StringCells]
    /\ loc \in LocalTypes
    /\ q \in Block \cup {NULL}
    /\ qcnt \in 0 .. MaxLen /\ fail_count \in Nat
    /\ error_occurred \in BOOLEAN /\ cautious_mode \in BOOLEAN
    /\ noallocate_mode \in BOOLEAN /\ jmp_ready \in BOOLEAN
    /\ time_limited \in BOOLEAN /\ verbose \in BOOLEAN
    /\ err_cnt \in 0 .. ErrLimit /\ (pc # "exit" => err_cnt < ErrLimit)
    /\ exit \in {"no", "success", "failure"}
    /\ cmd \in Command \cup {NoCommand}
    /\ alarms \in 0 .. MaxAlarms

Places == AtInsertion \cup AtRound \cup AtRemoval \cup AtFree \cup AtReverse \cup AtNew
              \cup {"idle", "setup", "size", "cancel", "show", "show.loop",
                    "show.cancel", "after", "exit"}

\* The command that is carried out; do_new begins with do_free.
CommandOK ==
    /\ pc \in Places
    /\ pc = "idle" => op = "none"
    /\ pc \in {"show", "show.loop", "show.cancel"} => op # "quit"
    /\ pc \notin {"idle", "exit"} /\ op # "quit" =>
           /\ cmd \in Command /\ cmd.op # "bad"
           /\ op = cmd.op \/ (op = "free" /\ cmd.op = "new")
    /\ pc \in {"setup", "reverse"} /\ op = "reverse" => loc.aux = NULL

\* How many repetitions are left, so that the queue does not become too long.
CountOK ==
    op \in Insertions =>
        /\ pc \in {"setup", "loop"} => loc.r <= cmd.n /\ qcnt + (cmd.n - loc.r) <= MaxLen
        /\ pc \in AtInsertion \ {"ret"} \/ (pc = "ret" /\ loc.rval) =>
               loc.r < cmd.n /\ qcnt + (cmd.n - loc.r) <= MaxLen
        /\ pc = "check" \/ (pc = "ret" /\ ~loc.rval) =>
               loc.r < cmd.n /\ qcnt + (cmd.n - loc.r) <= MaxLen + 1

\* Where only an uninterrupted command can be.
CalmPlaces ==
    /\ pc \in AtRemoval \cup AtReverse => Calm
    /\ pc = "setup" => Calm \/ op \in {"free", "new", "quit"}
    /\ pc = "cancel" /\ op \in Removals /\ loc.rval => Calm
    /\ pc \in AtInsertion \cup {"loop", "check"} /\ op \in Insertions =>
           Calm \/ error_occurred \/ ~loc.ok
    /\ pc \in AtInsertion \ {"ret"} \/ (pc = "ret" /\ loc.rval) => loc.ok
    /\ pc = "show.cancel" => ~Calm

\* Whether there is a queue.
QueueThere ==
    /\ q # NULL /\ (op \in {"free", "quit"} => pc \in {"setup", "free"}) =>
           q \in DOMAIN heap /\ heap[q] \in QueueCells
    /\ op = "new" /\ pc \in {"setup", "new", "new.ret"} => q = NULL
    /\ op = "free" /\ pc \in {"show", "show.loop", "show.cancel", "after"} => q = NULL
    /\ pc \in AtInsertion \ {"insert", "ret"} => q # NULL
    /\ pc \in AtRemoval \ {"remove"} => q # NULL
    /\ pc = "ret" /\ loc.rval => q # NULL
    /\ pc \in AtFree \ {"free"} => q # NULL
    /\ pc \in {"reverse.loop", "show.loop", "show.cancel"} => q # NULL
    /\ pc = "new.ret" => /\ loc.ptr \in Block /\ loc.ptr \in DOMAIN heap
                         /\ heap[loc.ptr] \in QueueCells

\* malloc has a block for a new queue, whatever was leaked.
RoomForNew ==
    (op = "free" /\ cmd.op = "new") \/ (op = "new" /\ pc \in {"setup", "new"}) => Room

\* The heap has the form that the statement expects.
Good ==
    \/ Calm
    \/ pc \in AtInsertion \ {"ret"}
    \/ pc = "loop" /\ op \in Insertions /\ loc.ok

\* With the queue's list of elements, and size m.
Resting(ch, vl, st, S, m) ==
    /\ Held(heap, ch, vl, st, {q} \cup S, NULL)
    /\ heap[q] = Queue(FirstOf(ch, NULL), heap[q].tail, m)
    /\ TailOK(ch, heap[q].tail)

Steady == {"idle", "setup", "show", "show.loop", "after", "loop", "insert", "check",
           "size", "remove", "remove.head", "reverse", "free"}

\* A new element at p, with its string, that is not yet in the list.
Fresh(p, nx) ==
    LET v == heap[p].value
    IN  /\ heap[p] = Element(v, nx) /\ heap[v] = StringOf(cmd.str)
        /\ p \in Block /\ v \in Block /\ p # q /\ v # q /\ v # p

\* The statements of q_new, q_insert_head, q_insert_tail.
InsertShape(ch, vl, st) ==
    LET n == Len(ch)
        v == heap[loc.ptr].value
    IN  /\ pc = "insert.value" =>
               /\ Resting(ch, vl, st, {loc.ptr}, n)
               /\ loc.ptr \in Block /\ loc.ptr # q
               /\ heap[loc.ptr] = Element(Wild, Wild)
        /\ pc \in {"ih", "it"} =>
               Resting(ch, vl, st, {loc.ptr, v}, n) /\ Fresh(loc.ptr, Wild)
        /\ pc \in {"ih.next", "ih.head"} =>
               /\ Held(heap, ch, vl, st, {q, loc.ptr, v}, NULL)
               /\ heap[q] = Queue(FirstOf(ch, NULL), heap[q].tail, n)
               /\ heap[q].tail = IF ch = << >> THEN loc.ptr ELSE ch[n]
               /\ pc = "ih.next" => Fresh(loc.ptr, Wild)
               /\ pc = "ih.head" => Fresh(loc.ptr, FirstOf(ch, NULL))
        /\ pc \in {"ih.size", "it.size"} =>
               n >= 1 /\ Resting(ch, vl, st, {}, n - 1)
        /\ pc \in {"it.next", "it.tail"} =>
               /\ n >= 1 /\ loc.ptr = ch[n]
               /\ Held(heap, ch, vl, st, {q}, IF pc = "it.next" THEN Wild ELSE NULL)
               /\ heap[q] = Queue(FirstOf(ch, NULL), heap[q].tail, n - 1)
        /\ pc = "ret" =>
               Resting(ch, vl, st, {}, n) /\ (loc.rval => n >= 1)
        /\ pc \in {"ih.size", "it.size", "it.next", "it.tail"} \/ (pc = "ret" /\ loc.rval) =>
               qcnt = n - 1 /\ (op = "ih" => loc.aux # vl[1])
        /\ pc \in {"insert.value", "ih", "it", "ih.next", "ih.head"}
                  \/ (pc = "ret" /\ ~loc.rval) =>
               qcnt = n
        /\ op = "ih" /\ (\/ pc \in {"setup", "loop", "insert", "insert.value", "ih",
                                 "ih.next", "ih.head", "check"}
                         \/ (pc = "ret" /\ ~loc.rval)) =>
               loc.aux = NULL \/ \E i \in 1 .. n : loc.aux = vl[i]

\* The statements of q_remove_head.
RemoveShape(ch, vl, st) ==
    LET n == Len(ch)
        v == heap[loc.ptr].value
    IN  /\ pc = "remove.head" => ch # << >> /\ loc.ptr = ch[1]
        /\ pc = "remove.value" =>
               /\ Resting(ch, vl, st, {loc.ptr, v}, n + 1)
               /\ heap[loc.ptr].kind = "element" /\ heap[v].kind = "string"
               /\ loc.ptr \in Block /\ v \in Block
               /\ loc.ptr # q /\ v # q /\ v # loc.ptr
        /\ pc = "remove.element" =>
               /\ Resting(ch, vl, st, {loc.ptr}, n + 1)
               /\ heap[loc.ptr].kind = "element" /\ loc.ptr \in Block /\ loc.ptr # q
        /\ pc = "remove.size" => Resting(ch, vl, st, {}, n + 1)
        /\ pc \in AtRemoval \ {"remove", "remove.head"} => qcnt = n + 1

\* The statements of q_free, from whose loop on only the list is left.
FreeShape(ch, vl, st) ==
    /\ pc \in {"free.next", "free.value"} =>
           Held(heap, ch, vl, st, {q}, NULL) /\ loc.ptr = FirstOf(ch, NULL)
    /\ pc = "free.value" =>
           ch # << >> /\ loc.aux = FirstOf(Tail(ch), NULL)
    /\ pc = "free.element" =>
           /\ Held(heap, ch, vl, st, {q, loc.ptr}, NULL)
           /\ heap[loc.ptr].kind = "element" /\ loc.ptr \in Block /\ loc.ptr # q
           /\ loc.aux = FirstOf(ch, NULL)
    /\ pc = "free.queue" => DOMAIN heap = {q}
    /\ pc \in {"cancel", "after"} /\ op \in {"free", "quit"} => DOMAIN heap = {}

\* The statements of q_reverse and of show_queue, and exception_cancel.
OtherShape(ch, vl, st) ==
    LET n == Len(ch)
    IN  /\ pc = "reverse.loop" =>
               \E k \in 0 .. n :
                   /\ Turned(heap, ch, vl, st, {q}, k)
                   /\ heap[q] = Queue(heap[q].head, heap[q].tail, n)
                   /\ n >= 1 /\ heap[q].tail = ch[1] /\ qcnt = n
                   /\ loc.aux = IF k = 0 THEN NULL ELSE ch[k]
                   /\ loc.ptr = IF k = n THEN NULL ELSE ch[k + 1]
        /\ pc = "show.loop" =>
               /\ loc.seen <= n
               /\ loc.ptr = IF loc.seen = n THEN NULL ELSE ch[loc.seen + 1]
        /\ pc = "cancel" /\ op \notin {"free", "quit"} =>
               /\ Resting(ch, vl, st, {}, n)
               /\ qcnt = IF op \in Removals /\ loc.rval THEN n + 1 ELSE n
               /\ op = "new" => ch = << >>

ShapeOf(ch, vl, st) ==
    /\ pc \in Steady /\ op # "quit" => Resting(ch, vl, st, {}, Len(ch)) /\ qcnt = Len(ch)
    /\ pc \in {"setup", "free"} /\ op = "quit" => Resting(ch, vl, st, {}, Len(ch))
    /\ InsertShape(ch, vl, st)
    /\ RemoveShape(ch, vl, st)
    /\ FreeShape(ch, vl, st)
    /\ OtherShape(ch, vl, st)

\* No queue: nothing is allocated, or the queue that q_new makes.
NoQueueShape ==
    /\ pc # "new.ret" => DOMAIN heap = {}
    /\ pc = "new.ret" => DOMAIN heap = {loc.ptr} /\ heap[loc.ptr] = Queue(NULL, NULL, 0)
    /\ qcnt = 0
    /\ op \in {"new"} \cup Removals /\ pc = "cancel" => ~loc.rval

Shape == IF q = NULL THEN pc # "exit" => NoQueueShape
         ELSE pc # "exit" => \E ch, vl, st : ShapeOf(ch, vl, st)

HeapInv ==
    /\ Typed /\ CommandOK /\ CountOK /\ CalmPlaces /\ QueueThere /\ RoomForNew
    /\ Good => Shape

-----------------------------------------------------------------------------
(* The three ways in which a statement changes the heap.                     *)

Cells == QueueCells \cup ElementCells \cup StringCells

HeapTyped(h) == DOMAIN h \subseteq Block /\ h \in [DOMAIN h -> Cells]

Added(h, g, b, cell) ==
    /\ DOMAIN g = DOMAIN h \cup {b} /\ g[b] = cell
    /\ \A a \in DOMAIN h : a # b => g[a] = h[a]

Removed(h, g, b) ==
    /\ DOMAIN g = DOMAIN h \ {b}
    /\ \A a \in DOMAIN h : a # b => g[a] = h[a]

Changed(h, g, b, cell) ==
    /\ DOMAIN g = DOMAIN h /\ g[b] = cell
    /\ \A a \in DOMAIN h : a # b => g[a] = h[a]

LEMMA WithFacts ==
    ASSUME HeapTyped(heap), NEW b \in Block, NEW cell \in Cells, heap' = With(b, cell)
    PROVE  HeapTyped(heap') /\ Added(heap, heap', b, cell)
<1>1. heap' = [a \in DOMAIN heap \cup {b} |-> IF a = b THEN cell ELSE heap[a]]
  BY DEF With
<1>2. Added(heap, heap', b, cell)
  BY <1>1 DEF Added
<1>3. \A a \in DOMAIN heap : heap[a] \in Cells
  BY DEF HeapTyped
<1>4. heap' \in [DOMAIN heap' -> Cells]
  BY <1>1, <1>3
<1>5. QED
  BY <1>2, <1>4 DEF HeapTyped, Added

LEMMA WithoutFacts ==
    ASSUME HeapTyped(heap), NEW b, heap' = Without(b)
    PROVE  HeapTyped(heap') /\ Removed(heap, heap', b)
<1>1. heap' = [a \in DOMAIN heap \ {b} |-> heap[a]]
  BY DEF Without
<1>2. Removed(heap, heap', b)
  BY <1>1 DEF Removed
<1>3. \A a \in DOMAIN heap : heap[a] \in Cells
  BY DEF HeapTyped
<1>4. heap' \in [DOMAIN heap' -> Cells]
  BY <1>1, <1>3
<1>5. QED
  BY <1>2, <1>4 DEF HeapTyped, Removed

LEMMA ChangedFacts ==
    ASSUME HeapTyped(heap), NEW b \in DOMAIN heap, NEW cell \in Cells,
           heap' = [heap EXCEPT ![b] = cell]
    PROVE  HeapTyped(heap') /\ Changed(heap, heap', b, cell)
<1>1. Changed(heap, heap', b, cell)
  BY DEF HeapTyped, Changed
<1>2. heap' \in [DOMAIN heap' -> Cells]
  BY <1>1 DEF HeapTyped, Changed
<1>3. QED
  BY <1>1, <1>2 DEF HeapTyped, Changed

LEMMA QueueFields ==
    /\ \A h, t, s : /\ Queue(h, t, s).head = h /\ Queue(h, t, s).tail = t
                    /\ Queue(h, t, s).size = s /\ Queue(h, t, s).kind = "queue"
    /\ \A v, n : /\ Element(v, n).value = v /\ Element(v, n).next = n
                 /\ Element(v, n).kind = "element"
    /\ \A s : StringOf(s).kind = "string" /\ StringOf(s).str = s
BY DEF Queue, Element, StringOf

LEMMA CellWritten ==
    ASSUME NEW c \in QueueCells, NEW x
    PROVE  /\ [c EXCEPT !.head = x] = Queue(x, c.tail, c.size)
           /\ [c EXCEPT !.tail = x] = Queue(c.head, x, c.size)
           /\ [c EXCEPT !.size = x] = Queue(c.head, c.tail, x)
BY DEF Queue, QueueCells

LEMMA ElementWritten ==
    \A v, n, x : /\ [Element(v, n) EXCEPT !.value = x] = Element(x, n)
                 /\ [Element(v, n) EXCEPT !.next = x] = Element(v, x)
BY DEF Element

LEMMA CellTypes ==
    /\ \A h, t \in Address, s \in 0 .. MaxLen : Queue(h, t, s) \in QueueCells
    /\ \A v, n \in Address : Element(v, n) \in ElementCells
    /\ \A s \in Str : StringOf(s) \in StringCells
BY DEF Queue, Element, StringOf, QueueCells, ElementCells, StringCells

LEMMA CellKinds ==
    /\ \A c \in QueueCells : /\ c.kind = "queue" /\ c.head \in Address
                             /\ c.tail \in Address /\ c.size \in 0 .. MaxLen
                             /\ c = Queue(c.head, c.tail, c.size)
    /\ \A c \in ElementCells : /\ c.kind = "element" /\ c.value \in Address
                               /\ c.next \in Address /\ c = Element(c.value, c.next)
    /\ \A c \in StringCells : c.kind = "string" /\ c.str \in Str /\ c = StringOf(c.str)
BY DEF Queue, Element, StringOf, QueueCells, ElementCells, StringCells

\* A statement of q_* that writes one field of the queue.
LEMMA WriteFacts ==
    ASSUME HeapTyped(heap), q \in DOMAIN heap, heap[q] \in QueueCells
    PROVE  /\ \A x \in Address : WriteHead(x) =>
                  /\ HeapTyped(heap')
                  /\ Changed(heap, heap', q, Queue(x, heap[q].tail, heap[q].size))
           /\ \A x \in Address : WriteTail(x) =>
                  /\ HeapTyped(heap')
                  /\ Changed(heap, heap', q, Queue(heap[q].head, x, heap[q].size))
           /\ \A x \in 0 .. MaxLen : WriteSize(x) =>
                  /\ HeapTyped(heap')
                  /\ Changed(heap, heap', q, Queue(heap[q].head, heap[q].tail, x))
<1>1. heap[q] = Queue(heap[q].head, heap[q].tail, heap[q].size)
      /\ heap[q].head \in Address /\ heap[q].tail \in Address
      /\ heap[q].size \in 0 .. MaxLen
  BY CellKinds
<1>2. ASSUME NEW x \in Address, WriteHead(x)
      PROVE  /\ HeapTyped(heap')
             /\ Changed(heap, heap', q, Queue(x, heap[q].tail, heap[q].size))
  <2>1. heap' = [heap EXCEPT ![q] = Queue(x, heap[q].tail, heap[q].size)]
    <3>1. [heap[q] EXCEPT !.head = x] = Queue(x, heap[q].tail, heap[q].size)
      BY CellWritten
    <3>2. heap' = [heap EXCEPT ![q] = [heap[q] EXCEPT !.head = x]]
      BY <1>2 DEF WriteHead
    <3>3. QED
      BY <3>1, <3>2
  <2>2. Queue(x, heap[q].tail, heap[q].size) \in Cells
    BY <1>1, CellTypes DEF Cells
  <2>3. QED
    BY <2>1, <2>2, ChangedFacts
<1>3. ASSUME NEW x \in Address, WriteTail(x)
      PROVE  /\ HeapTyped(heap')
             /\ Changed(heap, heap', q, Queue(heap[q].head, x, heap[q].size))
  <2>1. heap' = [heap EXCEPT ![q] = Queue(heap[q].head, x, heap[q].size)]
    <3>1. [heap[q] EXCEPT !.tail = x] = Queue(heap[q].head, x, heap[q].size)
      BY CellWritten
    <3>2. heap' = [heap EXCEPT ![q] = [heap[q] EXCEPT !.tail = x]]
      BY <1>3 DEF WriteTail
    <3>3. QED
      BY <3>1, <3>2
  <2>2. Queue(heap[q].head, x, heap[q].size) \in Cells
    BY <1>1, CellTypes DEF Cells
  <2>3. QED
    BY <2>1, <2>2, ChangedFacts
<1>4. ASSUME NEW x \in 0 .. MaxLen, WriteSize(x)
      PROVE  /\ HeapTyped(heap')
             /\ Changed(heap, heap', q, Queue(heap[q].head, heap[q].tail, x))
  <2>1. heap' = [heap EXCEPT ![q] = Queue(heap[q].head, heap[q].tail, x)]
    <3>1. [heap[q] EXCEPT !.size = x] = Queue(heap[q].head, heap[q].tail, x)
      BY CellWritten
    <3>2. heap' = [heap EXCEPT ![q] = [heap[q] EXCEPT !.size = x]]
      BY <1>4 DEF WriteSize
    <3>3. QED
      BY <3>1, <3>2
  <2>2. Queue(heap[q].head, heap[q].tail, x) \in Cells
    BY <1>1, CellTypes DEF Cells
  <2>3. QED
    BY <2>1, <2>2, ChangedFacts
<1>5. QED
  BY <1>2, <1>3, <1>4

-----------------------------------------------------------------------------
(***************************************************************************)
(* The statements of queue.c.                                              *)
(***************************************************************************)
LibSame ==
    /\ qcnt' = qcnt /\ fail_count' = fail_count
    /\ error_occurred' = error_occurred
    /\ cautious_mode' = cautious_mode /\ noallocate_mode' = noallocate_mode
    /\ jmp_ready' = jmp_ready /\ time_limited' = time_limited
    /\ err_cnt' = err_cnt /\ exit' = exit /\ cmd' = cmd /\ op' = op
    /\ verbose' = verbose
    /\ alarms' = alarms /\ reported' = reported /\ before' = before

LEMMA LibraryLeaves == Library => LibSame
BY DEF Library, LibSame, tally, modes, recovery, console, history

LEMMA TypedLib ==
    ASSUME Typed, LibSame, HeapTyped(heap'), loc' \in LocalTypes,
           q' \in Block \cup {NULL}, pc # "exit"
    PROVE  Typed'
BY DEF Typed, LibSame, HeapTyped, Cells

LEMMA HeapIsTyped == Typed => HeapTyped(heap)
BY DEF Typed, HeapTyped, Cells

LEMMA LocalFields ==
    ASSUME loc \in LocalTypes
    PROVE  /\ \A x \in BOOLEAN : [loc EXCEPT !.rval = x] \in LocalTypes
           /\ \A x \in Address : [loc EXCEPT !.ptr = x] \in LocalTypes
           /\ \A x \in Address : [loc EXCEPT !.aux = x] \in LocalTypes
           /\ loc.ptr \in Address /\ loc.aux \in Address
           /\ loc.r \in Nat /\ loc.seen \in Nat
           /\ loc.ok \in BOOLEAN /\ loc.rval \in BOOLEAN
BY DEF LocalTypes

\* Writing one local variable leaves the others.
LEMMA LocalsKept ==
    ASSUME loc \in LocalTypes
    PROVE  /\ \A x : /\ [loc EXCEPT !.rval = x].ok = loc.ok
                     /\ [loc EXCEPT !.rval = x].r = loc.r
                     /\ [loc EXCEPT !.rval = x].ptr = loc.ptr
                     /\ [loc EXCEPT !.rval = x].aux = loc.aux
                     /\ [loc EXCEPT !.rval = x].rval = x
                     /\ [loc EXCEPT !.rval = x].seen = loc.seen
                     /\ [loc EXCEPT !.rval = x].taken = loc.taken
           /\ \A x : /\ [loc EXCEPT !.ptr = x].ok = loc.ok
                     /\ [loc EXCEPT !.ptr = x].r = loc.r
                     /\ [loc EXCEPT !.ptr = x].ptr = x
                     /\ [loc EXCEPT !.ptr = x].aux = loc.aux
                     /\ [loc EXCEPT !.ptr = x].rval = loc.rval
                     /\ [loc EXCEPT !.ptr = x].seen = loc.seen
                     /\ [loc EXCEPT !.ptr = x].taken = loc.taken
           /\ \A x : /\ [loc EXCEPT !.aux = x].ok = loc.ok
                     /\ [loc EXCEPT !.aux = x].r = loc.r
                     /\ [loc EXCEPT !.aux = x].ptr = loc.ptr
                     /\ [loc EXCEPT !.aux = x].aux = x
                     /\ [loc EXCEPT !.aux = x].rval = loc.rval
                     /\ [loc EXCEPT !.aux = x].seen = loc.seen
                     /\ [loc EXCEPT !.aux = x].taken = loc.taken
BY DEF LocalTypes

LEMMA Labels ==
    /\ AtInsertion \cap (AtRemoval \cup AtFree \cup AtReverse \cup AtNew) = {}
    /\ AtInsertion \cap (Steady \cup {"cancel", "after", "show.loop", "exit", "idle"})
           = {"insert"}
BY DEF AtInsertion, AtRemoval, AtFree, AtReverse, AtNew, Steady

Phases == CommandOK /\ CountOK /\ CalmPlaces /\ QueueThere /\ RoomForNew

LEMMA InsertPhase ==
    ASSUME HeapInv, LibSame, op \in Insertions,
           pc \in AtInsertion \ {"ret"}, pc' \in AtInsertion,
           loc'.r = loc.r, loc'.ok = loc.ok, q' = q,
           pc' \notin {"insert", "ret"} \/ (pc' = "ret" /\ loc'.rval) => q # NULL,
           q # NULL => q \in DOMAIN heap' /\ heap'[q] \in QueueCells
    PROVE  Phases'
<1>1. CommandOK'
  <2>1. pc' \in Places
    BY DEF Places
  <2>2. QED
    BY <2>1 DEF HeapInv, CommandOK, LibSame, AtInsertion, Insertions
<1>2. CountOK'
  <2>1. /\ loc.r \in Nat /\ qcnt \in Nat
        /\ loc.r < cmd.n /\ qcnt + (cmd.n - loc.r) <= MaxLen
    BY LocalFields DEF HeapInv, Typed, CountOK
  <2>2. cmd.n \in Nat /\ MaxLen \in Nat
    BY <2>1, BlockFinite, TesterAssumption DEF HeapInv, CommandOK, Command, AtInsertion,
       Insertions
  <2>3. qcnt + (cmd.n - loc.r) <= MaxLen + 1
    BY <2>1, <2>2
  <2>4. QED
    BY <2>1, <2>3 DEF CountOK, LibSame, AtInsertion
<1>3. CalmPlaces'
  BY DEF HeapInv, CalmPlaces, LibSame, AtInsertion, AtRemoval, AtReverse, Calm
<1>4. QueueThere'
  BY DEF QueueThere, LibSame, AtInsertion, AtRemoval, AtFree, AtReverse, Insertions
<1>5. RoomForNew'
  BY DEF RoomForNew, LibSame, Insertions
<1>6. QED
  BY <1>1, <1>2, <1>3, <1>4, <1>5 DEF Phases

LEMMA InsertOnly ==
    ASSUME pc' \in AtInsertion \ {"insert"},
           NEW ch, NEW vl, NEW st, InsertShape(ch, vl, st)'
    PROVE  ShapeOf(ch, vl, st)'
BY DEF ShapeOf, RemoveShape, FreeShape, OtherShape, AtInsertion, AtRemoval, AtFree, Steady

\* What the statements of the insertions find.
LEMMA InsertFacts ==
    ASSUME HeapInv, ModesInv, pc \in AtInsertion \ {"ret"}
    PROVE  /\ op \in Insertions /\ Good /\ Shape
           /\ cmd \in Command /\ cmd.str \in Str
           /\ q # NULL => q \in Block /\ q \in DOMAIN heap /\ heap[q] \in QueueCells
           /\ HeapTyped(heap) /\ loc \in LocalTypes
           /\ qcnt \in Nat /\ MaxLen \in Nat /\ qcnt + 1 <= MaxLen
<1>1. op \in Insertions
  BY DEF ModesInv, OperationFits
<1>2. Good /\ Shape
  BY DEF Good, HeapInv
<1>3. cmd \in Command /\ op = cmd.op
  BY <1>1 DEF HeapInv, CommandOK, AtInsertion, Insertions
<1>4. cmd.str \in Str /\ cmd.n \in Nat
  BY <1>1, <1>3, TesterAssumption DEF Command, Insertions
<1>5. loc.r \in Nat /\ qcnt \in Nat /\ loc.r < cmd.n /\ qcnt + (cmd.n - loc.r) <= MaxLen
  BY <1>1, LocalFields DEF HeapInv, Typed, CountOK
<1>6. q # NULL => q \in Block /\ q \in DOMAIN heap /\ heap[q] \in QueueCells
  BY <1>1 DEF HeapInv, Typed, QueueThere, Insertions
<1>7. QED
  BY <1>1, <1>2, <1>3, <1>4, <1>5, <1>6, HeapIsTyped, BlockFinite DEF HeapInv, Typed

-----------------------------------------------------------------------------
(* The list of strings that the form of the heap shows.                      *)

IsList(st) == \E ch, vl : ShapeOf(ch, vl, st)

\* A step leaves it, or makes another one of it.
Keeps == \E st : IsList(st) /\ IsList(st)'
Prepends == \E st : IsList(st) /\ \E new : new = <<cmd.str>> \o st /\ IsList(new)'
Appends == \E st : IsList(st) /\ \E new : new = Append(st, cmd.str) /\ IsList(new)'
Shortens == \E st : IsList(st) /\ st # << >> /\ \E new : new = Tail(st) /\ IsList(new)'
Reverses == \E st : IsList(st) /\ \E new : new = Reverse(st) /\ IsList(new)'

Untouched == heap' = heap /\ q' = q

\* What the statements of the insertions, of the removal and of the reversal do to it.
InsertsList ==
    \/ pc = "ih.head" /\ Prepends
    \/ pc = "it" /\ Appends
    \/ pc \in AtInsertion \ {"ih.head", "it"} /\ (Keeps \/ Untouched)

RemovesList ==
    \/ pc = "remove.head" /\ Shortens
    \/ pc \in AtRemoval \ {"remove.head"} /\ (Keeps \/ Untouched)

TurnsList ==
    \/ pc = "reverse.loop" /\ loc.ptr = NULL /\ Reverses
    \/ pc = "reverse.loop" /\ loc.ptr # NULL /\ Keeps
    \/ pc = "reverse" /\ (Keeps \/ (Untouched /\ pc' = "cancel"))

LEMMA RestingRoom ==
    ASSUME NEW ch, NEW vl, NEW st, NEW S, NEW e,
           Held(heap, ch, vl, st, S, e), IsFiniteSet(S), Cardinality(S) <= 2,
           Len(ch) < MaxLen \/ (Len(ch) <= MaxLen /\ Cardinality(S) <= 1)
    PROVE  Room
<1>1. /\ IsFiniteSet(DOMAIN heap)
      /\ Cardinality(DOMAIN heap) = Cardinality(S) + 2 * Len(ch)
  BY BlockCount
<1>2. Len(ch) \in Nat /\ Cardinality(S) \in Nat
  BY ListLength, FS_CardinalityType DEF Held
<1>3. Cardinality(DOMAIN heap) < MaxBlocks
  BY <1>1, <1>2, BlockFinite
<1>4. QED
  BY <1>1, <1>3, RoomLeft

LEMMA SmallSets ==
    /\ \A a : IsFiniteSet({a}) /\ Cardinality({a}) = 1
    /\ \A a, b : a # b => IsFiniteSet({a, b}) /\ Cardinality({a, b}) = 2
<1>1. \A a : IsFiniteSet({a}) /\ Cardinality({a}) = 1
  BY FS_Singleton
<1>2. ASSUME NEW a, NEW b, a # b
      PROVE  IsFiniteSet({a, b}) /\ Cardinality({a, b}) = 2
  <2>1. {a, b} = {a} \cup {b} /\ b \notin {a}
    BY <1>2
  <2>2. IsFiniteSet({a}) /\ Cardinality({a}) = 1
    BY <1>1
  <2>3. /\ IsFiniteSet({a} \cup {b})
        /\ \/ Cardinality({a} \cup {b}) = Cardinality({a})
           \/ Cardinality({a} \cup {b}) = Cardinality({a}) + 1
        /\ b \notin {a} => Cardinality({a} \cup {b}) = Cardinality({a}) + 1
    BY <2>2, FS_AddElement
  <2>4. Cardinality({a} \cup {b}) = 1 + 1
    BY <2>1, <2>2, <2>3
  <2>5. QED
    BY <2>1, <2>3, <2>4
<1>3. QED
  BY <1>1, <1>2

\* An allocation somewhere else leaves the list as it is.
LEMMA HeldAdded ==
    ASSUME NEW h, NEW g, NEW ch, NEW vl, NEW st, NEW S, NEW e, NEW b, NEW cell,
           Held(h, ch, vl, st, S, e), Added(h, g, b, cell), b \notin DOMAIN h
    PROVE  Held(g, ch, vl, st, S \cup {b}, e)
<1>1. Extent(h, ch, vl, S) /\ Apart(ch, vl, S)
  BY DEF Held
<1>2. Apart(ch, vl, S \cup {b})
  BY <1>1 DEF Apart, Extent
<1>3. /\ S \cup {b} \subseteq DOMAIN g
      /\ \A a \in DOMAIN h \ S : a \in DOMAIN g /\ g[a] = h[a]
      /\ \A a \in DOMAIN g : a \in S \cup {b} \/ a \in DOMAIN h \ S
  BY <1>1 DEF Added, Extent
<1>4. QED
  BY <1>2, <1>3, HeldOther

\* So does freeing a block outside of it, and a change of such a block.
LEMMA HeldRemoved ==
    ASSUME NEW h, NEW g, NEW ch, NEW vl, NEW st, NEW S, NEW e, NEW b,
           Held(h, ch, vl, st, S \cup {b}, e), Removed(h, g, b), b \notin S
    PROVE  Held(g, ch, vl, st, S, e)
<1>1. Extent(h, ch, vl, S \cup {b}) /\ Apart(ch, vl, S \cup {b})
  BY DEF Held
<1>2. Apart(ch, vl, S)
  BY <1>1 DEF Apart
<1>3. /\ S \subseteq DOMAIN g
      /\ \A a \in DOMAIN h \ (S \cup {b}) : a \in DOMAIN g /\ g[a] = h[a]
      /\ \A a \in DOMAIN g : a \in S \/ a \in DOMAIN h \ (S \cup {b})
  BY <1>1 DEF Removed, Extent
<1>4. QED
  BY <1>2, <1>3, HeldOther

LEMMA HeldChanged ==
    ASSUME NEW h, NEW g, NEW ch, NEW vl, NEW st, NEW S, NEW e, NEW b, NEW cell,
           Held(h, ch, vl, st, S, e), Changed(h, g, b, cell), b \in S
    PROVE  Held(g, ch, vl, st, S, e)
<1>1. Extent(h, ch, vl, S) /\ Apart(ch, vl, S)
  BY DEF Held
<1>2. /\ S \subseteq DOMAIN g
      /\ \A a \in DOMAIN h \ S : a \in DOMAIN g /\ g[a] = h[a]
      /\ \A a \in DOMAIN g : a \in S \/ a \in DOMAIN h \ S
  BY <1>1 DEF Changed, Extent
<1>3. QED
  BY <1>1, <1>2, HeldOther

LEMMA NoMemoryStep ==
    ASSUME HeapInv, ModesInv, LibSame,
           \/ pc = "insert" /\ UNCHANGED memory
           \/ pc = "insert.value" /\ heap' = Without(loc.ptr) /\ UNCHANGED q,
           Returns(FALSE)
    PROVE  HeapInv' /\ (q # NULL => Keeps)
<1>1. /\ op \in Insertions /\ Good /\ Shape /\ loc \in LocalTypes /\ HeapTyped(heap)
      /\ q # NULL => q \in Block /\ q \in DOMAIN heap /\ heap[q] \in QueueCells
      /\ pc \in AtInsertion \ {"ret"} /\ pc # "exit"
  BY InsertFacts DEF AtInsertion
<1>2. /\ pc' = "ret" /\ loc' = [loc EXCEPT !.rval = FALSE] /\ q' = q
  BY <1>1 DEF Returns, Goto, Insertions, memory
<1>3. /\ loc' \in LocalTypes /\ loc'.r = loc.r /\ loc'.ok = loc.ok
      /\ loc'.rval = FALSE /\ loc'.aux = loc.aux
  BY <1>1, <1>2, LocalFields, LocalsKept
<1>4. HeapTyped(heap')
  BY <1>1, WithoutFacts DEF memory
<1>5. CASE q = NULL
  <2>1. pc = "insert" /\ heap' = heap
    BY <1>5 DEF HeapInv, QueueThere, AtInsertion, memory
  <2>2. DOMAIN heap = {} /\ qcnt = 0
    BY <1>1, <1>5, <2>1 DEF Shape, NoQueueShape
  <2>3. Shape'
    BY <1>2, <1>5, <2>1, <2>2 DEF Shape, NoQueueShape, LibSame
  <2>4. Typed'
    BY <1>1, <1>2, <1>3, <1>4, <1>5, TypedLib DEF HeapInv
  <2>5. Phases'
    BY <1>1, <1>2, <1>3, <1>5, InsertPhase DEF AtInsertion
  <2>6. QED
    BY <1>5, <2>3, <2>4, <2>5 DEF HeapInv, Phases
<1>6. CASE q # NULL
  <2>1. PICK ch, vl, st : ShapeOf(ch, vl, st)
    BY <1>1, <1>6 DEF Shape
  <2>2. /\ Resting(ch, vl, st, {}, Len(ch))' /\ qcnt = Len(ch)
        /\ op = "ih" => loc.aux = NULL \/ \E i \in 1 .. Len(ch) : loc.aux = vl[i]
        /\ q \in DOMAIN heap' /\ heap'[q] \in QueueCells
    <3>1. CASE pc = "insert"
      <4>1. heap' = heap
        BY <3>1 DEF memory
      <4>2. /\ Resting(ch, vl, st, {}, Len(ch)) /\ qcnt = Len(ch)
            /\ op = "ih" => loc.aux = NULL \/ \E i \in 1 .. Len(ch) : loc.aux = vl[i]
        BY <2>1, <3>1, <1>1 DEF ShapeOf, Steady, InsertShape, Insertions
      <4>3. QED
        BY <4>1, <4>2, <1>1, <1>2, <1>6 DEF Resting
    <3>2. CASE pc = "insert.value"
      <4>1. /\ Resting(ch, vl, st, {loc.ptr}, Len(ch)) /\ qcnt = Len(ch)
            /\ loc.ptr # q
            /\ op = "ih" => loc.aux = NULL \/ \E i \in 1 .. Len(ch) : loc.aux = vl[i]
        BY <2>1, <3>2, <1>1 DEF ShapeOf, InsertShape
      <4>2. heap' = Without(loc.ptr)
        BY <3>2
      <4>3. Removed(heap, heap', loc.ptr)
        BY <4>2, <1>1, WithoutFacts
      <4>4. Held(heap', ch, vl, st, {q}, NULL)
        BY <4>1, <4>3, HeldRemoved DEF Resting
      <4>5. q \in DOMAIN heap' /\ heap'[q] = heap[q]
        BY <4>1, <4>3, <1>1, <1>6 DEF Removed
      <4>6. {q} \cup {} = {q}
        OBVIOUS
      <4>7. QED
        BY <4>1, <4>4, <4>5, <4>6, <1>1, <1>2, <1>6 DEF Resting
    <3>3. QED
      BY <3>1, <3>2
  <2>3. InsertShape(ch, vl, st)'
    BY <2>2, <1>2, <1>3 DEF InsertShape, LibSame
  <2>4. Shape'
    BY <2>3, <1>2, <1>6, InsertOnly DEF Shape, AtInsertion
  <2>5. Typed'
    BY <1>1, <1>2, <1>3, <1>4, TypedLib DEF HeapInv, Typed
  <2>6. Phases'
    BY <1>1, <1>2, <1>3, <2>2, InsertPhase DEF AtInsertion
  <2>7. IsList(st) /\ IsList(st)'
    BY <2>1, <2>3, <1>2, InsertOnly DEF IsList, AtInsertion
  <2>8. QED
    BY <2>4, <2>5, <2>6, <2>7 DEF HeapInv, Phases, Keeps
<1>7. QED
  BY <1>5, <1>6

\* A statement of an insertion that leaves the counters of the loop alone.
LEMMA InsertStep ==
    ASSUME HeapInv, ModesInv, LibSame, pc \in AtInsertion \ {"ret"},
           pc' \in AtInsertion \ {"insert"}, q # NULL, q' = q,
           HeapTyped(heap'), q \in DOMAIN heap', heap'[q] \in QueueCells,
           loc' \in LocalTypes, loc'.r = loc.r, loc'.ok = loc.ok,
           NEW ch, NEW vl, NEW st, InsertShape(ch, vl, st)'
    PROVE  HeapInv' /\ IsList(st)'
<1>1. op \in Insertions /\ pc # "exit"
  BY InsertFacts DEF AtInsertion
<1>2. Shape' /\ IsList(st)'
  BY InsertOnly DEF Shape, IsList
<1>3. Typed'
  BY <1>1, TypedLib DEF HeapInv, Typed
<1>4. Phases'
  BY <1>1, InsertPhase
<1>5. QED
  BY <1>2, <1>3, <1>4 DEF HeapInv, Phases

\* What an insertion works on: a list in an allocated queue.
LEMMA InsertList ==
    ASSUME HeapInv, ModesInv, pc \in AtInsertion \ {"ret"}, q # NULL
    PROVE  \E ch, vl, st : ShapeOf(ch, vl, st) /\ InsertShape(ch, vl, st)
BY InsertFacts DEF Shape, ShapeOf, AtInsertion

LEMMA AllocateElement ==
    ASSUME HeapInv, ModesInv, LibSame, pc = "insert", q # NULL,
           heap' = With(FreeBlock, [kind |-> "element", value |-> Wild, next |-> Wild]),
           loc' = [loc EXCEPT !.ptr = FreeBlock], pc' = "insert.value", q' = q
    PROVE  HeapInv' /\ Keeps
<1>1. pc \in AtInsertion \ {"ret"} /\ pc' \in AtInsertion \ {"insert"}
  BY DEF AtInsertion
<1>2. /\ op \in Insertions /\ HeapTyped(heap) /\ loc \in LocalTypes
      /\ q \in Block /\ q \in DOMAIN heap /\ heap[q] \in QueueCells
      /\ qcnt \in Nat /\ MaxLen \in Nat /\ qcnt + 1 <= MaxLen
  BY <1>1, InsertFacts
<1>3. PICK ch, vl, st : ShapeOf(ch, vl, st) /\ InsertShape(ch, vl, st)
  BY <1>1, InsertList
<1>4. /\ Resting(ch, vl, st, {}, Len(ch)) /\ qcnt = Len(ch)
      /\ op = "ih" => loc.aux = NULL \/ \E i \in 1 .. Len(ch) : loc.aux = vl[i]
  BY <1>2, <1>3 DEF ShapeOf, Steady, InsertShape, Insertions
<1>5. Held(heap, ch, vl, st, {q}, NULL)
  <2>1. {q} \cup {} = {q}
    OBVIOUS
  <2>2. QED
    BY <1>4, <2>1 DEF Resting
<1>6. PICK b \in Block : b = FreeBlock /\ b \notin DOMAIN heap
  <2>1. Room
    <3>1. Len(ch) < MaxLen
      BY <1>2, <1>4
    <3>2. IsFiniteSet({q}) /\ Cardinality({q}) = 1
      BY SmallSets
    <3>3. Cardinality({q}) <= 2
      BY <3>2
    <3>4. QED
      BY <1>5, <3>1, <3>2, <3>3, RestingRoom
  <2>2. QED
    BY <2>1, FreeBlockFacts
<1>7. HeapTyped(heap') /\ Added(heap, heap', b, Element(Wild, Wild))
  <2>1. Element(Wild, Wild) \in Cells
    BY CellTypes DEF Cells, Address
  <2>2. heap' = With(b, Element(Wild, Wild))
    BY <1>6 DEF Element
  <2>3. QED
    BY <1>2, <2>1, <2>2, WithFacts
<1>8. Held(heap', ch, vl, st, {q} \cup {b}, NULL)
  BY <1>5, <1>6, <1>7, HeldAdded
<1>9. /\ b # q /\ q \in DOMAIN heap' /\ heap'[q] = heap[q]
      /\ heap'[b] = Element(Wild, Wild)
  BY <1>2, <1>6, <1>7 DEF Added
<1>10. /\ loc' \in LocalTypes /\ loc'.r = loc.r /\ loc'.ok = loc.ok
       /\ loc'.ptr = b /\ loc'.aux = loc.aux
  <2>1. b \in Address
    BY DEF Address
  <2>2. QED
    BY <1>2, <1>6, <2>1, LocalFields, LocalsKept
<1>11. Resting(ch, vl, st, {b}, Len(ch))'
  BY <1>4, <1>8, <1>9 DEF Resting
<1>12. InsertShape(ch, vl, st)'
  BY <1>4, <1>9, <1>10, <1>11 DEF InsertShape, LibSame
<1>13. HeapInv' /\ IsList(st)'
  BY <1>1, <1>2, <1>7, <1>9, <1>10, <1>12, InsertStep
<1>14. IsList(st)
  BY <1>3 DEF IsList
<1>15. QED
  BY <1>13, <1>14 DEF Keeps

LEMMA AllocateString ==
    ASSUME HeapInv, ModesInv, LibSame, pc = "insert.value",
           heap' = [With(FreeBlock, [kind |-> "string", str |-> cmd.str])
                      EXCEPT ![loc.ptr].value = FreeBlock],
           loc' = loc, pc' = op, q' = q
    PROVE  HeapInv' /\ Keeps
<1>1. pc \in AtInsertion \ {"ret"}
  BY DEF AtInsertion
<1>2. /\ op \in Insertions /\ HeapTyped(heap) /\ loc \in LocalTypes
      /\ cmd.str \in Str
      /\ qcnt \in Nat /\ MaxLen \in Nat /\ qcnt + 1 <= MaxLen
  BY <1>1, InsertFacts
<1>3. pc' \in AtInsertion \ {"insert"} /\ pc' \in {"ih", "it"}
  BY <1>2 DEF AtInsertion, Insertions
<1>4. q # NULL
  BY DEF HeapInv, QueueThere, AtInsertion
<1>5. q \in Block /\ q \in DOMAIN heap /\ heap[q] \in QueueCells
  BY <1>1, <1>4, InsertFacts
<1>6. PICK ch, vl, st : ShapeOf(ch, vl, st) /\ InsertShape(ch, vl, st)
  BY <1>1, <1>4, InsertList
<1>7. /\ Resting(ch, vl, st, {loc.ptr}, Len(ch)) /\ qcnt = Len(ch)
      /\ loc.ptr \in Block /\ loc.ptr # q /\ heap[loc.ptr] = Element(Wild, Wild)
      /\ op = "ih" => loc.aux = NULL \/ \E i \in 1 .. Len(ch) : loc.aux = vl[i]
  BY <1>6 DEF InsertShape
<1>8. PICK p \in Block : p = loc.ptr
  BY <1>7
<1>9. Held(heap, ch, vl, st, {q, p}, NULL)
  <2>1. {q} \cup {p} = {q, p}
    OBVIOUS
  <2>2. QED
    BY <1>7, <1>8, <2>1 DEF Resting
<1>10. PICK b \in Block : b = FreeBlock /\ b \notin DOMAIN heap
  <2>1. Room
    <3>1. Len(ch) < MaxLen
      BY <1>2, <1>7
    <3>2. IsFiniteSet({q, p}) /\ Cardinality({q, p}) = 2
      BY <1>7, <1>8, SmallSets
    <3>3. QED
      BY <1>9, <3>1, <3>2, RestingRoom
  <2>2. QED
    BY <2>1, FreeBlockFacts
<1>11. /\ p \in DOMAIN heap /\ b # p /\ b # q /\ p # q
       /\ heap[p] = Element(Wild, Wild)
  BY <1>5, <1>7, <1>8, <1>9, <1>10 DEF Held, Extent
<1>12. heap' = [a \in DOMAIN heap \cup {b} |->
                  IF a = p THEN Element(b, Wild)
                  ELSE IF a = b THEN StringOf(cmd.str) ELSE heap[a]]
  <2>1. [Element(Wild, Wild) EXCEPT !.value = b] = Element(b, Wild)
    BY ElementWritten
  <2>2. With(b, StringOf(cmd.str))
          = [a \in DOMAIN heap \cup {b} |-> IF a = b THEN StringOf(cmd.str) ELSE heap[a]]
    BY DEF With
  <2>3. PICK g : g = With(b, StringOf(cmd.str))
    OBVIOUS
  <2>4. /\ DOMAIN g = DOMAIN heap \cup {b} /\ g[p] = Element(Wild, Wild)
        /\ g = [a \in DOMAIN heap \cup {b} |-> g[a]]
        /\ \A a \in DOMAIN heap \cup {b} :
              g[a] = IF a = b THEN StringOf(cmd.str) ELSE heap[a]
    BY <1>11, <2>2, <2>3
  <2>5. heap' = [g EXCEPT ![p] = [g[p] EXCEPT !.value = b]]
    BY <1>8, <1>10, <2>3 DEF StringOf
  <2>6. heap' = [g EXCEPT ![p] = Element(b, Wild)]
    BY <2>1, <2>4, <2>5
  <2>7. QED
    BY <2>4, <2>6
<1>13. /\ DOMAIN heap' = DOMAIN heap \cup {b}
       /\ heap'[p] = Element(b, Wild) /\ heap'[b] = StringOf(cmd.str)
       /\ \A a \in DOMAIN heap : a # p => heap'[a] = heap[a]
  <2>1. DOMAIN heap' = DOMAIN heap \cup {b}
    BY <1>12
  <2>2. heap'[p] = Element(b, Wild)
    BY <1>11, <1>12
  <2>3. heap'[b] = StringOf(cmd.str)
    BY <1>11, <1>12
  <2>4. \A a \in DOMAIN heap : a # p => heap'[a] = heap[a]
    BY <1>10, <1>12
  <2>5. QED
    BY <2>1, <2>2, <2>3, <2>4
<1>14. HeapTyped(heap')
  <2>1. Element(b, Wild) \in Cells /\ StringOf(cmd.str) \in Cells
    BY <1>2, CellTypes DEF Cells, Address
  <2>2. \A a \in DOMAIN heap' : heap'[a] \in Cells
    BY <1>2, <1>12, <2>1 DEF HeapTyped
  <2>3. heap' \in [DOMAIN heap' -> Cells]
    BY <1>12, <2>2
  <2>4. QED
    BY <1>2, <1>13, <2>3 DEF HeapTyped
<1>15. Held(heap', ch, vl, st, {q, p, b}, NULL)
  <2>1. Apart(ch, vl, {q, p}) /\ Extent(heap, ch, vl, {q, p})
    BY <1>9 DEF Held
  <2>2. Apart(ch, vl, {q, p, b})
    BY <1>10, <2>1 DEF Apart, Extent
  <2>3. /\ {q, p, b} \subseteq DOMAIN heap'
        /\ \A a \in DOMAIN heap \ {q, p} : a \in DOMAIN heap' /\ heap'[a] = heap[a]
        /\ \A a \in DOMAIN heap' : a \in {q, p, b} \/ a \in DOMAIN heap \ {q, p}
    BY <1>5, <1>11, <1>13
  <2>4. QED
    BY <1>9, <2>2, <2>3, HeldOther
<1>16. q \in DOMAIN heap' /\ heap'[q] = heap[q]
  BY <1>5, <1>11, <1>13
<1>17. Resting(ch, vl, st, {p, b}, Len(ch))'
  <2>1. {q} \cup {p, b} = {q, p, b}
    OBVIOUS
  <2>2. QED
    BY <1>7, <1>15, <1>16, <2>1 DEF Resting
<1>18. Element(b, Wild).value = b /\ loc'.ptr = p
  BY <1>8, QueueFields
<1>19. Fresh(p, Wild)'
  BY <1>11, <1>13, <1>18 DEF Fresh, LibSame
<1>20. InsertShape(ch, vl, st)'
  BY <1>3, <1>7, <1>13, <1>17, <1>18, <1>19 DEF InsertShape, LibSame
<1>21. HeapInv' /\ IsList(st)'
  BY <1>1, <1>2, <1>3, <1>4, <1>5, <1>14, <1>16, <1>20, InsertStep
<1>22. IsList(st)
  BY <1>6 DEF IsList
<1>23. QED
  BY <1>21, <1>22 DEF Keeps

\* The statements of q_insert_head.
LEMMA FirstTail ==
    ASSUME HeapInv, ModesInv, LibSame, SetFirstTail
    PROVE  HeapInv' /\ Keeps
<1>1. pc = "ih" /\ pc' = "ih.next" /\ loc' = loc /\ q' = q
  BY DEF SetFirstTail, Goto
<1>2. pc \in AtInsertion \ {"ret"} /\ pc' \in AtInsertion \ {"insert"} /\ q # NULL
  BY <1>1 DEF AtInsertion, HeapInv, QueueThere
<1>3. /\ HeapTyped(heap) /\ loc \in LocalTypes
      /\ q \in DOMAIN heap /\ heap[q] \in QueueCells
  BY <1>2, InsertFacts
<1>4. PICK ch, vl, st : ShapeOf(ch, vl, st) /\ InsertShape(ch, vl, st)
  BY <1>2, InsertList
<1>5. PICK p, v : p = loc.ptr /\ v = heap[p].value
  OBVIOUS
<1>6. /\ Resting(ch, vl, st, {p, v}, Len(ch)) /\ Fresh(p, Wild) /\ qcnt = Len(ch)
      /\ op = "ih" => loc.aux = NULL \/ \E i \in 1 .. Len(ch) : loc.aux = vl[i]
  BY <1>1, <1>4, <1>5 DEF InsertShape
<1>7. /\ heap[p] = Element(v, Wild) /\ heap[v] = StringOf(cmd.str)
      /\ p \in Block /\ v \in Block /\ p # q /\ v # q /\ v # p
  BY <1>5, <1>6 DEF Fresh
<1>8. /\ Held(heap, ch, vl, st, {q, p, v}, NULL)
      /\ heap[q] = Queue(FirstOf(ch, NULL), heap[q].tail, Len(ch))
      /\ TailOK(ch, heap[q].tail)
  <2>1. {q} \cup {p, v} = {q, p, v}
    OBVIOUS
  <2>2. QED
    BY <1>6, <2>1 DEF Resting
<1>9. heap[q].head = FirstOf(ch, NULL) /\ heap[q].size = Len(ch)
  BY <1>8, QueueFields
<1>10. /\ Lists(ch, vl, st) /\ Apart(ch, vl, {q, p, v})
       /\ Extent(heap, ch, vl, {q, p, v})
  BY <1>8 DEF Held
<1>11. /\ Len(ch) \in Nat /\ (ch # << >> <=> Len(ch) >= 1)
       /\ \A i \in 1 .. Len(ch) : ch[i] \in Block
  BY <1>10, ListLength
<1>12. p \in DOMAIN heap /\ v \in DOMAIN heap
  BY <1>10 DEF Extent
<1>13. /\ HeapTyped(heap')
       /\ Held(heap', ch, vl, st, {q, p, v}, NULL)
       /\ q \in DOMAIN heap'
       /\ heap'[q] = Queue(FirstOf(ch, NULL), IF ch = << >> THEN p ELSE ch[Len(ch)], Len(ch))
       /\ heap'[p] = heap[p] /\ heap'[v] = heap[v]
  <2>1. CASE heap[q].head = NULL
    <3>1. ch = << >>
      <4>1. SUFFICES ASSUME ch # << >> PROVE FALSE
        OBVIOUS
      <4>2. ch[1] \in Block /\ FirstOf(ch, NULL) = ch[1]
        BY <1>11, <4>1 DEF FirstOf
      <4>3. QED
        BY <1>9, <2>1, <4>2, BlockFinite DEF Block, NULL
    <3>2. WriteTail(p)
      BY <1>5, <2>1 DEF SetFirstTail
    <3>3. /\ HeapTyped(heap')
          /\ Changed(heap, heap', q, Queue(heap[q].head, p, heap[q].size))
      BY <1>3, <1>7, <3>2, WriteFacts DEF Address
    <3>4. Held(heap', ch, vl, st, {q, p, v}, NULL)
      BY <1>8, <3>3, HeldChanged
    <3>5. QED
      BY <1>3, <1>7, <1>9, <1>12, <3>1, <3>3, <3>4 DEF Changed
  <2>2. CASE heap[q].head # NULL
    <3>1. ch # << >>
      BY <1>9, <2>2 DEF FirstOf
    <3>2. heap' = heap
      BY <2>2 DEF SetFirstTail
    <3>3. QED
      BY <1>3, <1>8, <3>1, <3>2 DEF TailOK
  <2>3. QED
    BY <2>1, <2>2
<1>14. heap'[q] \in QueueCells /\ heap'[q].tail = IF ch = << >> THEN p ELSE ch[Len(ch)]
  <2>1. heap'[q].kind = "queue" /\ heap'[q].tail = IF ch = << >> THEN p ELSE ch[Len(ch)]
    BY <1>13, QueueFields
  <2>2. \A c \in Cells : c.kind = "queue" => c \in QueueCells
    BY CellKinds DEF Cells
  <2>3. QED
    BY <1>13, <2>1, <2>2 DEF HeapTyped
<1>15. Fresh(p, Wild)'
  BY <1>7, <1>13, <1>1, QueueFields DEF Fresh, LibSame
<1>16. heap'[p].value = v
  BY <1>5, <1>13
<1>17. InsertShape(ch, vl, st)'
  BY <1>1, <1>5, <1>6, <1>13, <1>14, <1>15, <1>16 DEF InsertShape, LibSame
<1>18. HeapInv' /\ IsList(st)'
  BY <1>1, <1>2, <1>3, <1>13, <1>14, <1>17, InsertStep
<1>19. IsList(st)
  BY <1>4 DEF IsList
<1>20. QED
  BY <1>18, <1>19 DEF Keeps

\* What both ih.next and ih.head find.
LEMMA NewFirst ==
    ASSUME HeapInv, ModesInv, pc \in {"ih.next", "ih.head"}
    PROVE  \E ch, vl, st, v, nx :
              /\ ShapeOf(ch, vl, st)
              /\ Held(heap, ch, vl, st, {q, loc.ptr, v}, NULL)
              /\ heap[q] = Queue(FirstOf(ch, NULL), heap[q].tail, Len(ch))
              /\ heap[q].tail = IF ch = << >> THEN loc.ptr ELSE ch[Len(ch)]
              /\ nx = IF pc = "ih.next" THEN Wild ELSE FirstOf(ch, NULL)
              /\ heap[loc.ptr] = Element(v, nx) /\ heap[v] = StringOf(cmd.str)
              /\ loc.ptr \in Block /\ v \in Block
              /\ loc.ptr # q /\ v # q /\ v # loc.ptr
              /\ q # NULL /\ q \in Block /\ q \in DOMAIN heap /\ heap[q] \in QueueCells
              /\ HeapTyped(heap) /\ loc \in LocalTypes /\ op \in Insertions
              /\ cmd.str \in Str /\ qcnt + 1 <= MaxLen /\ qcnt = Len(ch)
              /\ op = "ih" => loc.aux = NULL \/ \E i \in 1 .. Len(ch) : loc.aux = vl[i]
<1>1. pc \in AtInsertion \ {"ret"} /\ q # NULL
  BY DEF AtInsertion, HeapInv, QueueThere
<1>2. PICK ch, vl, st : ShapeOf(ch, vl, st) /\ InsertShape(ch, vl, st)
  BY <1>1, InsertList
<1>3. PICK v, nx : /\ v = heap[loc.ptr].value
                   /\ nx = IF pc = "ih.next" THEN Wild ELSE FirstOf(ch, NULL)
  OBVIOUS
<1>4. /\ Held(heap, ch, vl, st, {q, loc.ptr, v}, NULL)
      /\ heap[q] = Queue(FirstOf(ch, NULL), heap[q].tail, Len(ch))
      /\ heap[q].tail = IF ch = << >> THEN loc.ptr ELSE ch[Len(ch)]
      /\ Fresh(loc.ptr, nx) /\ qcnt = Len(ch)
      /\ op = "ih" => loc.aux = NULL \/ \E i \in 1 .. Len(ch) : loc.aux = vl[i]
  BY <1>2, <1>3 DEF InsertShape
<1>5. /\ heap[loc.ptr] = Element(v, nx) /\ heap[v] = StringOf(cmd.str)
      /\ loc.ptr \in Block /\ v \in Block
      /\ loc.ptr # q /\ v # q /\ v # loc.ptr
  BY <1>3, <1>4 DEF Fresh
<1>6. /\ q \in Block /\ q \in DOMAIN heap /\ heap[q] \in QueueCells
      /\ HeapTyped(heap) /\ loc \in LocalTypes /\ op \in Insertions
      /\ cmd.str \in Str /\ qcnt + 1 <= MaxLen
  BY <1>1, InsertFacts
<1>7. QED
  BY <1>1, <1>2, <1>3, <1>4, <1>5, <1>6

LEMMA LinkFirst ==
    ASSUME HeapInv, ModesInv, LibSame, pc = "ih.next",
           heap' = [heap EXCEPT ![loc.ptr].next = heap[q].head],
           pc' = "ih.head", q' = q, loc' = loc
    PROVE  HeapInv' /\ Keeps
<1>1. PICK ch, vl, st, v, nx :
         /\ ShapeOf(ch, vl, st)
         /\ Held(heap, ch, vl, st, {q, loc.ptr, v}, NULL)
         /\ heap[q] = Queue(FirstOf(ch, NULL), heap[q].tail, Len(ch))
         /\ heap[q].tail = IF ch = << >> THEN loc.ptr ELSE ch[Len(ch)]
         /\ nx = IF pc = "ih.next" THEN Wild ELSE FirstOf(ch, NULL)
         /\ heap[loc.ptr] = Element(v, nx) /\ heap[v] = StringOf(cmd.str)
         /\ loc.ptr \in Block /\ v \in Block
         /\ loc.ptr # q /\ v # q /\ v # loc.ptr
         /\ q # NULL /\ q \in Block /\ q \in DOMAIN heap /\ heap[q] \in QueueCells
         /\ HeapTyped(heap) /\ loc \in LocalTypes /\ op \in Insertions
         /\ cmd.str \in Str /\ qcnt + 1 <= MaxLen /\ qcnt = Len(ch)
         /\ op = "ih" => loc.aux = NULL \/ \E i \in 1 .. Len(ch) : loc.aux = vl[i]
  BY NewFirst
<1>2. PICK p : p = loc.ptr
  OBVIOUS
<1>3. p \in DOMAIN heap /\ v \in DOMAIN heap
  BY <1>1, <1>2 DEF Held, Extent
<1>4. heap[q].head = FirstOf(ch, NULL) /\ FirstOf(ch, NULL) \in Address
  BY <1>1, QueueFields, CellKinds
<1>5. heap' = [heap EXCEPT ![p] = Element(v, FirstOf(ch, NULL))]
  <2>1. heap' = [heap EXCEPT ![p] = [heap[p] EXCEPT !.next = FirstOf(ch, NULL)]]
    BY <1>2, <1>4
  <2>2. [Element(v, nx) EXCEPT !.next = FirstOf(ch, NULL)] = Element(v, FirstOf(ch, NULL))
    BY ElementWritten
  <2>3. QED
    BY <1>1, <1>2, <2>1, <2>2
<1>6. HeapTyped(heap') /\ Changed(heap, heap', p, Element(v, FirstOf(ch, NULL)))
  <2>1. Element(v, FirstOf(ch, NULL)) \in Cells
    BY <1>1, <1>4, CellTypes DEF Cells, Address
  <2>2. QED
    BY <1>1, <1>3, <1>5, <2>1, ChangedFacts
<1>7. Held(heap', ch, vl, st, {q, p, v}, NULL)
  BY <1>1, <1>2, <1>6, HeldChanged
<1>8. /\ q \in DOMAIN heap' /\ heap'[q] = heap[q] /\ heap'[v] = heap[v]
      /\ heap'[p] = Element(v, FirstOf(ch, NULL))
  BY <1>1, <1>2, <1>3, <1>6 DEF Changed
<1>9. heap'[p].value = v
  <2>1. Element(v, FirstOf(ch, NULL)).value = v
    BY QueueFields
  <2>2. QED
    BY <1>8, <2>1
<1>10. Fresh(p, FirstOf(ch, NULL))'
  BY <1>1, <1>2, <1>8, <1>9 DEF Fresh, LibSame
<1>11. InsertShape(ch, vl, st)'
  BY <1>1, <1>2, <1>7, <1>8, <1>9, <1>10 DEF InsertShape, LibSame
<1>12. pc \in AtInsertion \ {"ret"} /\ pc' \in AtInsertion \ {"insert"}
  BY DEF AtInsertion
<1>13. HeapInv' /\ IsList(st)'
  BY <1>1, <1>6, <1>8, <1>11, <1>12, InsertStep
<1>14. IsList(st)
  BY <1>1 DEF IsList
<1>15. QED
  BY <1>13, <1>14 DEF Keeps

LEMMA StoreHead ==
    ASSUME HeapInv, ModesInv, LibSame, pc = "ih.head",
           WriteHead(loc.ptr), pc' = "ih.size", q' = q, loc' = loc
    PROVE  HeapInv' /\ Prepends
<1>1. PICK ch, vl, st, v, nx :
         /\ ShapeOf(ch, vl, st)
         /\ Held(heap, ch, vl, st, {q, loc.ptr, v}, NULL)
         /\ heap[q] = Queue(FirstOf(ch, NULL), heap[q].tail, Len(ch))
         /\ heap[q].tail = IF ch = << >> THEN loc.ptr ELSE ch[Len(ch)]
         /\ nx = IF pc = "ih.next" THEN Wild ELSE FirstOf(ch, NULL)
         /\ heap[loc.ptr] = Element(v, nx) /\ heap[v] = StringOf(cmd.str)
         /\ loc.ptr \in Block /\ v \in Block
         /\ loc.ptr # q /\ v # q /\ v # loc.ptr
         /\ q # NULL /\ q \in Block /\ q \in DOMAIN heap /\ heap[q] \in QueueCells
         /\ HeapTyped(heap) /\ loc \in LocalTypes /\ op \in Insertions
         /\ cmd.str \in Str /\ qcnt + 1 <= MaxLen /\ qcnt = Len(ch)
         /\ op = "ih" => loc.aux = NULL \/ \E i \in 1 .. Len(ch) : loc.aux = vl[i]
  BY NewFirst
<1>2. PICK p : p = loc.ptr
  OBVIOUS
<1>3. p \in DOMAIN heap /\ v \in DOMAIN heap
  BY <1>1, <1>2 DEF Held, Extent
<1>4. HeapTyped(heap') /\ Changed(heap, heap', q, Queue(p, heap[q].tail, heap[q].size))
  BY <1>1, <1>2, WriteFacts DEF Address
<1>5. heap[q].size = Len(ch)
  BY <1>1, QueueFields
<1>6. Held(heap', ch, vl, st, {q, p, v}, NULL)
  BY <1>1, <1>2, <1>4, HeldChanged
<1>7. /\ q \in DOMAIN heap' /\ heap'[q] = Queue(p, heap[q].tail, Len(ch))
      /\ heap'[p] = Element(v, FirstOf(ch, NULL)) /\ heap'[v] = StringOf(cmd.str)
  BY <1>1, <1>2, <1>3, <1>4, <1>5 DEF Changed
<1>8. heap'[q].tail = heap[q].tail /\ heap'[q].kind = "queue"
  BY <1>7, QueueFields
<1>9. heap'[q] \in QueueCells
  <2>1. \A c \in Cells : c.kind = "queue" => c \in QueueCells
    BY CellKinds DEF Cells
  <2>2. QED
    BY <1>4, <1>7, <1>8, <2>1 DEF HeapTyped
<1>10. PICK c2, v2, s2 : /\ c2 = <<p>> \o ch /\ v2 = <<v>> \o vl
                         /\ s2 = <<cmd.str>> \o st
  OBVIOUS
<1>11. Held(heap', c2, v2, s2, {q}, NULL)
  <2>1. {q} \cup {p, v} = {q, p, v}
    OBVIOUS
  <2>2. Held(heap', ch, vl, st, {q} \cup {p, v}, NULL)
    BY <1>6, <2>1
  <2>3. p \notin {q} /\ v \notin {q} /\ p # v /\ p \in Block
    BY <1>1, <1>2
  <2>4. QED
    BY <1>1, <1>7, <1>10, <2>2, <2>3, PushFront
<1>12. Lists(ch, vl, st) /\ Apart(ch, vl, {q, p, v})
  BY <1>6 DEF Held
<1>13. /\ ch \in Seq(Block) /\ vl \in Seq(Block) /\ Len(ch) \in Nat /\ Len(vl) = Len(ch)
       /\ ch # << >> <=> Len(ch) >= 1
       /\ \A i \in 1 .. Len(ch) : vl[i] \in Block
  BY <1>12, ListLength DEF Lists
<1>14. /\ Len(c2) = Len(ch) + 1 /\ c2[1] = p
       /\ \A i \in 2 .. Len(ch) + 1 : c2[i] = ch[i - 1]
       /\ v2[1] = v
  BY <1>1, <1>2, <1>10, <1>13, Prepended
<1>15. c2[Len(c2)] = heap[q].tail
  <2>1. CASE ch = << >>
    BY <1>1, <1>2, <1>13, <1>14, <2>1
  <2>2. CASE ch # << >>
    <3>1. Len(ch) + 1 \in 2 .. Len(ch) + 1 /\ (Len(ch) + 1) - 1 = Len(ch)
      BY <1>13, <2>2
    <3>2. QED
      BY <1>1, <1>14, <2>2, <3>1
  <2>3. QED
    BY <2>1, <2>2
<1>16. Len(c2) >= 1 /\ Len(c2) - 1 = Len(ch) /\ c2 # << >>
  BY <1>10, <1>13, <1>14
<1>17. Resting(c2, v2, s2, {}, Len(c2) - 1)'
  <2>1. {q} \cup {} = {q}
    OBVIOUS
  <2>2. FirstOf(c2, NULL) = p
    BY <1>14, <1>16 DEF FirstOf
  <2>3. QED
    BY <1>1, <1>7, <1>8, <1>11, <1>15, <1>16, <2>1, <2>2 DEF Resting, TailOK
<1>18. op = "ih" => loc.aux # v2[1]
  <2>1. NULL \notin Block
    BY BlockFinite DEF Block, NULL
  <2>2. \A i \in 1 .. Len(ch) : vl[i] # v
    BY <1>12 DEF Apart
  <2>3. QED
    BY <1>1, <1>14, <2>1, <2>2
<1>19. InsertShape(c2, v2, s2)'
  BY <1>1, <1>16, <1>17, <1>18 DEF InsertShape, LibSame
<1>20. pc \in AtInsertion \ {"ret"} /\ pc' \in AtInsertion \ {"insert"}
  BY DEF AtInsertion
<1>21. HeapInv' /\ IsList(s2)'
  BY <1>1, <1>4, <1>7, <1>9, <1>19, <1>20, InsertStep
<1>22. IsList(st)
  BY <1>1 DEF IsList
<1>23. QED
  BY <1>21, <1>22, <1>10 DEF Prepends

\* q->size++ at the end of both insertions.
LEMMA GrowSize ==
    ASSUME HeapInv, ModesInv, LibSame, pc \in {"ih.size", "it.size"},
           WriteSize(heap[q].size + 1), Returns(TRUE), q' = q
    PROVE  HeapInv' /\ Keeps
<1>1. pc \in AtInsertion \ {"ret"} /\ q # NULL
  BY DEF AtInsertion, HeapInv, QueueThere
<1>2. /\ HeapTyped(heap) /\ loc \in LocalTypes /\ op \in Insertions
      /\ q \in DOMAIN heap /\ heap[q] \in QueueCells
      /\ qcnt \in Nat /\ MaxLen \in Nat /\ qcnt + 1 <= MaxLen
  BY <1>1, InsertFacts
<1>3. PICK ch, vl, st : ShapeOf(ch, vl, st) /\ InsertShape(ch, vl, st)
  BY <1>1, InsertList
<1>4. /\ Len(ch) >= 1 /\ Resting(ch, vl, st, {}, Len(ch) - 1) /\ qcnt = Len(ch) - 1
      /\ op = "ih" => loc.aux # vl[1]
  BY <1>3 DEF InsertShape
<1>5. {q} \cup {} = {q}
  OBVIOUS
<1>6. /\ Held(heap, ch, vl, st, {q}, NULL)
      /\ heap[q] = Queue(FirstOf(ch, NULL), heap[q].tail, Len(ch) - 1)
      /\ TailOK(ch, heap[q].tail)
  BY <1>4, <1>5 DEF Resting
<1>7. heap[q].head = FirstOf(ch, NULL) /\ heap[q].size = Len(ch) - 1
  BY <1>6, QueueFields
<1>8. Len(ch) \in Nat
  BY <1>6, ListLength DEF Held
<1>9. heap[q].size + 1 = Len(ch) /\ Len(ch) \in 0 .. MaxLen
  BY <1>2, <1>4, <1>7, <1>8
<1>10. HeapTyped(heap') /\ Changed(heap, heap', q, Queue(heap[q].head, heap[q].tail, Len(ch)))
  BY <1>2, <1>9, WriteFacts
<1>11. Held(heap', ch, vl, st, {q}, NULL)
  BY <1>6, <1>10, HeldChanged
<1>12. /\ q \in DOMAIN heap'
       /\ heap'[q] = Queue(FirstOf(ch, NULL), heap[q].tail, Len(ch))
  BY <1>2, <1>7, <1>10 DEF Changed
<1>13. heap'[q].tail = heap[q].tail /\ heap'[q].kind = "queue"
  BY <1>12, QueueFields
<1>14. heap'[q] \in QueueCells
  <2>1. \A c \in Cells : c.kind = "queue" => c \in QueueCells
    BY CellKinds DEF Cells
  <2>2. QED
    BY <1>10, <1>12, <1>13, <2>1 DEF HeapTyped
<1>15. Resting(ch, vl, st, {}, Len(ch))'
  BY <1>5, <1>6, <1>11, <1>12, <1>13 DEF Resting
<1>16. pc' = "ret" /\ loc' = [loc EXCEPT !.rval = TRUE]
  BY <1>2 DEF Returns, Goto, Insertions
<1>17. /\ loc' \in LocalTypes /\ loc'.r = loc.r /\ loc'.ok = loc.ok
       /\ loc'.rval = TRUE /\ loc'.aux = loc.aux
  BY <1>2, <1>16, LocalFields, LocalsKept
<1>18. InsertShape(ch, vl, st)'
  BY <1>4, <1>15, <1>16, <1>17 DEF InsertShape, LibSame
<1>19. pc' \in AtInsertion \ {"insert"}
  BY <1>16 DEF AtInsertion
<1>20. HeapInv' /\ IsList(st)'
  BY <1>1, <1>10, <1>12, <1>14, <1>17, <1>18, <1>19, InsertStep
<1>21. IsList(st)
  BY <1>3 DEF IsList
<1>22. QED
  BY <1>20, <1>21 DEF Keeps

\* The statements of q_insert_tail.
LEMMA LinkLast ==
    ASSUME HeapInv, ModesInv, LibSame, pc = "it",
           IF heap[q].size = 0
           THEN WriteHead(loc.ptr)
           ELSE heap' = [heap EXCEPT ![heap[q].tail].next = loc.ptr],
           pc' = "it.next", q' = q, loc' = loc
    PROVE  HeapInv' /\ Appends
<1>1. pc \in AtInsertion \ {"ret"} /\ pc' \in AtInsertion \ {"insert"} /\ q # NULL
  BY DEF AtInsertion, HeapInv, QueueThere
<1>2. /\ HeapTyped(heap) /\ loc \in LocalTypes /\ op \in Insertions
      /\ q \in DOMAIN heap /\ heap[q] \in QueueCells /\ cmd.str \in Str
  BY <1>1, InsertFacts
<1>3. PICK ch, vl, st : ShapeOf(ch, vl, st) /\ InsertShape(ch, vl, st)
  BY <1>1, InsertList
<1>4. PICK p, v : p = loc.ptr /\ v = heap[p].value
  OBVIOUS
<1>5. /\ Resting(ch, vl, st, {p, v}, Len(ch)) /\ Fresh(p, Wild) /\ qcnt = Len(ch)
  BY <1>3, <1>4 DEF InsertShape
<1>6. /\ heap[p] = Element(v, Wild) /\ heap[v] = StringOf(cmd.str)
      /\ p \in Block /\ v \in Block /\ p # q /\ v # q /\ v # p
  BY <1>4, <1>5 DEF Fresh
<1>7. /\ Held(heap, ch, vl, st, {q, p, v}, NULL)
      /\ heap[q] = Queue(FirstOf(ch, NULL), heap[q].tail, Len(ch))
      /\ TailOK(ch, heap[q].tail)
  <2>1. {q} \cup {p, v} = {q, p, v}
    OBVIOUS
  <2>2. QED
    BY <1>5, <2>1 DEF Resting
<1>8. heap[q].head = FirstOf(ch, NULL) /\ heap[q].size = Len(ch)
  BY <1>7, QueueFields
<1>9. /\ Lists(ch, vl, st) /\ Apart(ch, vl, {q, p, v})
      /\ Extent(heap, ch, vl, {q, p, v}) /\ Linked(heap, ch, vl, st, NULL)
  BY <1>7 DEF Held
<1>10. /\ Len(ch) \in Nat /\ (ch # << >> <=> Len(ch) >= 1)
       /\ \A i \in 1 .. Len(ch) : ch[i] \in Block /\ vl[i] \in Block
       /\ ch \in Seq(Block)
  BY <1>9, ListLength DEF Lists
<1>11. p \in DOMAIN heap /\ v \in DOMAIN heap
  BY <1>9 DEF Extent
<1>12. /\ HeapTyped(heap')
       /\ Held(heap', ch, vl, st, {q, p, v}, p)
       /\ q \in DOMAIN heap'
       /\ heap'[q] = Queue(IF ch = << >> THEN p ELSE ch[1], heap[q].tail, Len(ch))
       /\ heap'[p] = heap[p] /\ heap'[v] = heap[v]
  <2>1. CASE heap[q].size = 0
    <3>1. ch = << >>
      BY <1>8, <1>10, <2>1
    <3>2. WriteHead(p)
      BY <1>4, <2>1
    <3>3. /\ HeapTyped(heap')
          /\ Changed(heap, heap', q, Queue(p, heap[q].tail, heap[q].size))
      BY <1>2, <1>6, <3>2, WriteFacts DEF Address
    <3>4. Held(heap', ch, vl, st, {q, p, v}, NULL)
      BY <1>7, <3>3, HeldChanged
    <3>5. Held(heap', ch, vl, st, {q, p, v}, p)
      <4>1. 1 .. Len(ch) = {}
        BY <3>1
      <4>2. QED
        BY <3>4, <4>1 DEF Held, Linked
    <3>6. QED
      BY <1>2, <1>6, <1>8, <1>11, <3>1, <3>3, <3>5 DEF Changed
  <2>2. CASE heap[q].size # 0
    <3>1. ch # << >> /\ Len(ch) \in 1 .. Len(ch)
      BY <1>8, <1>10, <2>2
    <3>2. PICK t : t = ch[Len(ch)]
      OBVIOUS
    <3>3. /\ heap[q].tail = t /\ t \in DOMAIN heap /\ t \notin {q, p, v}
          /\ heap[t] = Element(vl[Len(ch)], NULL)
      BY <1>7, <1>9, <3>1, <3>2 DEF TailOK, Extent, Apart, Linked, NextOf
    <3>4. heap' = [heap EXCEPT ![t] = Element(vl[Len(ch)], p)]
      <4>1. [Element(vl[Len(ch)], NULL) EXCEPT !.next = p] = Element(vl[Len(ch)], p)
        BY ElementWritten
      <4>2. heap' = [heap EXCEPT ![t] = [heap[t] EXCEPT !.next = p]]
        BY <1>4, <2>2, <3>3
      <4>3. QED
        BY <3>3, <4>1, <4>2
    <3>5. HeapTyped(heap') /\ Changed(heap, heap', t, Element(vl[Len(ch)], p))
      <4>1. Element(vl[Len(ch)], p) \in Cells
        BY <1>6, <1>10, <3>1, CellTypes DEF Cells, Address
      <4>2. QED
        BY <1>2, <3>3, <3>4, <4>1, ChangedFacts
    <3>6. Held(heap', ch, vl, st, {q, p, v}, p)
      BY <1>7, <3>1, <3>2, <3>5, NewEnd DEF Changed
    <3>7. FirstOf(ch, NULL) = ch[1]
      BY <3>1 DEF FirstOf
    <3>8. QED
      BY <1>2, <1>7, <1>11, <3>1, <3>3, <3>5, <3>6, <3>7 DEF Changed
  <2>3. QED
    BY <2>1, <2>2
<1>13. PICK c2, v2, s2 : /\ c2 = Append(ch, p) /\ v2 = Append(vl, v)
                         /\ s2 = Append(st, cmd.str)
  OBVIOUS
<1>14. Held(heap', c2, v2, s2, {q}, Wild)
  <2>1. {q} \cup {p, v} = {q, p, v}
    OBVIOUS
  <2>2. Held(heap', ch, vl, st, {q} \cup {p, v}, p)
    BY <1>12, <2>1
  <2>3. p \notin {q} /\ v \notin {q} /\ p # v
    BY <1>6
  <2>4. heap'[p] = Element(v, Wild) /\ heap'[v] = StringOf(cmd.str)
    BY <1>6, <1>12
  <2>5. QED
    BY <1>2, <1>6, <1>13, <2>2, <2>3, <2>4, PushBack
<1>15. /\ Len(c2) = Len(ch) + 1 /\ c2[Len(ch) + 1] = p
       /\ \A i \in 1 .. Len(ch) : c2[i] = ch[i]
  BY <1>6, <1>10, <1>13, Appended
<1>16. FirstOf(c2, NULL) = IF ch = << >> THEN p ELSE ch[1]
  <2>1. c2 # << >> /\ FirstOf(c2, NULL) = c2[1]
    BY <1>10, <1>13, <1>15 DEF FirstOf
  <2>2. CASE ch = << >>
    BY <1>10, <1>15, <2>1, <2>2
  <2>3. CASE ch # << >>
    BY <1>10, <1>15, <2>1, <2>3
  <2>4. QED
    BY <2>2, <2>3
<1>17. /\ Len(c2) >= 1 /\ Len(c2) - 1 = Len(ch) /\ p = c2[Len(c2)]
  BY <1>10, <1>15
<1>18. heap'[q].tail = heap[q].tail /\ heap'[q].kind = "queue"
  BY <1>12, QueueFields
<1>19. heap'[q] \in QueueCells
  <2>1. \A c \in Cells : c.kind = "queue" => c \in QueueCells
    BY CellKinds DEF Cells
  <2>2. QED
    BY <1>12, <1>18, <2>1 DEF HeapTyped
<1>20. heap'[q] = Queue(FirstOf(c2, NULL), heap'[q].tail, Len(c2) - 1)
  BY <1>12, <1>16, <1>17, <1>18
<1>21. op # "ih"
  BY DEF ModesInv, OperationFits
<1>22. InsertShape(c2, v2, s2)'
  BY <1>4, <1>5, <1>14, <1>17, <1>20, <1>21 DEF InsertShape, LibSame
<1>23. HeapInv' /\ IsList(s2)'
  BY <1>1, <1>2, <1>12, <1>19, <1>22, InsertStep
<1>24. IsList(st)
  BY <1>3 DEF IsList
<1>25. QED
  BY <1>23, <1>24, <1>13 DEF Appends

\* What it.next and it.tail find.
LEMMA NewLast ==
    ASSUME HeapInv, ModesInv, pc \in {"it.next", "it.tail"}
    PROVE  \E ch, vl, st, e :
              /\ ShapeOf(ch, vl, st)
              /\ Held(heap, ch, vl, st, {q}, e)
              /\ e = IF pc = "it.next" THEN Wild ELSE NULL
              /\ Len(ch) >= 1 /\ Len(ch) \in Nat /\ loc.ptr = ch[Len(ch)] /\ loc.ptr \in Block
              /\ ch # << >>
              /\ heap[q] = Queue(FirstOf(ch, NULL), heap[q].tail, Len(ch) - 1)
              /\ q # NULL /\ q \in Block /\ q \in DOMAIN heap /\ heap[q] \in QueueCells
              /\ HeapTyped(heap) /\ loc \in LocalTypes /\ op = "it"
              /\ qcnt = Len(ch) - 1 /\ pc \in AtInsertion \ {"ret"}
<1>1. pc \in AtInsertion \ {"ret"} /\ q # NULL /\ op = "it"
  BY DEF AtInsertion, HeapInv, QueueThere, ModesInv, OperationFits
<1>2. PICK ch, vl, st : ShapeOf(ch, vl, st) /\ InsertShape(ch, vl, st)
  BY <1>1, InsertList
<1>3. PICK e : e = IF pc = "it.next" THEN Wild ELSE NULL
  OBVIOUS
<1>4. /\ Held(heap, ch, vl, st, {q}, e) /\ Len(ch) >= 1 /\ loc.ptr = ch[Len(ch)]
      /\ heap[q] = Queue(FirstOf(ch, NULL), heap[q].tail, Len(ch) - 1)
      /\ qcnt = Len(ch) - 1
  BY <1>2, <1>3 DEF InsertShape
<1>5. /\ q \in Block /\ q \in DOMAIN heap /\ heap[q] \in QueueCells
      /\ HeapTyped(heap) /\ loc \in LocalTypes
  BY <1>1, InsertFacts
<1>6. /\ Len(ch) \in Nat /\ ch # << >>
      /\ \A i \in 1 .. Len(ch) : ch[i] \in Block
  BY <1>4, ListLength DEF Held
<1>7. loc.ptr \in Block
  BY <1>4, <1>6
<1>8. QED
  BY <1>1, <1>2, <1>3, <1>4, <1>5, <1>6, <1>7

LEMMA EndLast ==
    ASSUME HeapInv, ModesInv, LibSame, pc = "it.next",
           heap' = [heap EXCEPT ![loc.ptr].next = NULL],
           pc' = "it.tail", q' = q, loc' = loc
    PROVE  HeapInv' /\ Keeps
<1>1. PICK ch, vl, st, e :
         /\ ShapeOf(ch, vl, st)
         /\ Held(heap, ch, vl, st, {q}, e)
         /\ e = IF pc = "it.next" THEN Wild ELSE NULL
         /\ Len(ch) >= 1 /\ Len(ch) \in Nat /\ loc.ptr = ch[Len(ch)] /\ loc.ptr \in Block
         /\ ch # << >>
         /\ heap[q] = Queue(FirstOf(ch, NULL), heap[q].tail, Len(ch) - 1)
         /\ q # NULL /\ q \in Block /\ q \in DOMAIN heap /\ heap[q] \in QueueCells
         /\ HeapTyped(heap) /\ loc \in LocalTypes /\ op = "it"
         /\ qcnt = Len(ch) - 1 /\ pc \in AtInsertion \ {"ret"}
  BY NewLast
<1>2. PICK p, v : p = ch[Len(ch)] /\ v = vl[Len(ch)]
  OBVIOUS
<1>3. Len(ch) \in 1 .. Len(ch)
  BY <1>1
<1>4. /\ p = loc.ptr /\ p \in DOMAIN heap /\ p # q /\ heap[p] = Element(v, e)
  BY <1>1, <1>2, <1>3 DEF Held, Extent, Apart, Linked, NextOf
<1>5. v \in Block
  BY <1>1, <1>2, <1>3, ListLength DEF Held
<1>6. heap' = [heap EXCEPT ![p] = Element(v, NULL)]
  <2>1. [Element(v, e) EXCEPT !.next = NULL] = Element(v, NULL)
    BY ElementWritten
  <2>2. heap' = [heap EXCEPT ![p] = [heap[p] EXCEPT !.next = NULL]]
    BY <1>4
  <2>3. QED
    BY <1>4, <2>1, <2>2
<1>7. HeapTyped(heap') /\ Changed(heap, heap', p, Element(v, NULL))
  <2>1. Element(v, NULL) \in Cells
    BY <1>5, CellTypes DEF Cells, Address
  <2>2. QED
    BY <1>1, <1>4, <1>6, <2>1, ChangedFacts
<1>8. Held(heap', ch, vl, st, {q}, NULL)
  BY <1>1, <1>2, <1>7, NewEnd DEF Changed
<1>9. q \in DOMAIN heap' /\ heap'[q] = heap[q]
  BY <1>1, <1>4, <1>7 DEF Changed
<1>10. InsertShape(ch, vl, st)'
  BY <1>1, <1>8, <1>9 DEF InsertShape, LibSame
<1>11. pc' \in AtInsertion \ {"insert"}
  BY DEF AtInsertion
<1>12. HeapInv' /\ IsList(st)'
  BY <1>1, <1>7, <1>9, <1>10, <1>11, InsertStep
<1>13. IsList(st)
  BY <1>1 DEF IsList
<1>14. QED
  BY <1>12, <1>13 DEF Keeps

LEMMA StoreTail ==
    ASSUME HeapInv, ModesInv, LibSame, pc = "it.tail",
           WriteTail(loc.ptr), pc' = "it.size", q' = q, loc' = loc
    PROVE  HeapInv' /\ Keeps
<1>1. PICK ch, vl, st, e :
         /\ ShapeOf(ch, vl, st)
         /\ Held(heap, ch, vl, st, {q}, e)
         /\ e = IF pc = "it.next" THEN Wild ELSE NULL
         /\ Len(ch) >= 1 /\ Len(ch) \in Nat /\ loc.ptr = ch[Len(ch)] /\ loc.ptr \in Block
         /\ ch # << >>
         /\ heap[q] = Queue(FirstOf(ch, NULL), heap[q].tail, Len(ch) - 1)
         /\ q # NULL /\ q \in Block /\ q \in DOMAIN heap /\ heap[q] \in QueueCells
         /\ HeapTyped(heap) /\ loc \in LocalTypes /\ op = "it"
         /\ qcnt = Len(ch) - 1 /\ pc \in AtInsertion \ {"ret"}
  BY NewLast
<1>2. /\ HeapTyped(heap')
      /\ Changed(heap, heap', q, Queue(heap[q].head, loc.ptr, heap[q].size))
  BY <1>1, WriteFacts DEF Address
<1>3. heap[q].head = FirstOf(ch, NULL) /\ heap[q].size = Len(ch) - 1
  BY <1>1, QueueFields
<1>4. Held(heap', ch, vl, st, {q}, NULL)
  BY <1>1, <1>2, HeldChanged
<1>5. /\ q \in DOMAIN heap'
      /\ heap'[q] = Queue(FirstOf(ch, NULL), loc.ptr, Len(ch) - 1)
  BY <1>1, <1>2, <1>3 DEF Changed
<1>6. heap'[q].tail = loc.ptr /\ heap'[q].kind = "queue"
  BY <1>5, QueueFields
<1>7. heap'[q] \in QueueCells
  <2>1. \A c \in Cells : c.kind = "queue" => c \in QueueCells
    BY CellKinds DEF Cells
  <2>2. QED
    BY <1>2, <1>5, <1>6, <2>1 DEF HeapTyped
<1>8. Resting(ch, vl, st, {}, Len(ch) - 1)'
  <2>1. {q} \cup {} = {q}
    OBVIOUS
  <2>2. QED
    BY <1>1, <1>4, <1>5, <1>6, <2>1 DEF Resting, TailOK
<1>9. InsertShape(ch, vl, st)'
  BY <1>1, <1>8 DEF InsertShape, LibSame
<1>10. pc' \in AtInsertion \ {"insert"}
  BY DEF AtInsertion
<1>11. HeapInv' /\ IsList(st)'
  BY <1>1, <1>2, <1>5, <1>7, <1>9, <1>10, InsertStep
<1>12. IsList(st)
  BY <1>1 DEF IsList
<1>13. QED
  BY <1>11, <1>12 DEF Keeps

\* All of them.
LEMMA InsertionStep ==
    ASSUME HeapInv, ModesInv, LibSame, NewElement \/ QInsertHead \/ QInsertTail
    PROVE  HeapInv' /\ InsertsList
<1>1. CASE NewElement
  <2>2. CASE /\ pc = "insert.value" /\ pc' = op
             /\ heap' = [With(FreeBlock, [kind |-> "string", str |-> cmd.str])
                            EXCEPT ![loc.ptr].value = FreeBlock]
             /\ UNCHANGED <<q, loc>>
    BY <2>2, AllocateString DEF InsertsList, AtInsertion
  <2>3. CASE \/ pc = "insert" /\ UNCHANGED memory /\ Returns(FALSE)
             \/ /\ pc = "insert.value" /\ heap' = Without(loc.ptr) /\ UNCHANGED q
                /\ Returns(FALSE)
    <3>1. HeapInv' /\ (q # NULL => Keeps)
      BY <2>3, NoMemoryStep
    <3>2. pc = "insert.value" => q # NULL
      BY DEF HeapInv, QueueThere, AtInsertion
    <3>3. QED
      BY <2>3, <3>1, <3>2 DEF InsertsList, AtInsertion, Untouched, memory
  <2>4. CASE /\ pc = "insert" /\ q # NULL
             /\ heap' = With(FreeBlock, [kind |-> "element", value |-> Wild, next |-> Wild])
             /\ loc' = [loc EXCEPT !.ptr = FreeBlock]
             /\ pc' = "insert.value" /\ q' = q
    BY <2>4, AllocateElement DEF InsertsList, AtInsertion
  <2>5. QED
    BY <1>1, <2>2, <2>3, <2>4 DEF NewElement, FreeNewElement, Goto
<1>2. CASE QInsertHead
  <2>1. CASE SetFirstTail
    BY <2>1, FirstTail DEF InsertsList, AtInsertion, SetFirstTail
  <2>2. CASE /\ pc = "ih.next"
             /\ heap' = [heap EXCEPT ![loc.ptr].next = heap[q].head]
             /\ pc' = "ih.head" /\ UNCHANGED <<q, loc>>
    BY <2>2, LinkFirst DEF InsertsList, AtInsertion
  <2>3. CASE pc = "ih.head" /\ WriteHead(loc.ptr) /\ pc' = "ih.size" /\ UNCHANGED <<q, loc>>
    BY <2>3, StoreHead DEF InsertsList, AtInsertion
  <2>4. CASE pc = "ih.size" /\ WriteSize(heap[q].size + 1) /\ Returns(TRUE) /\ UNCHANGED q
    BY <2>4, GrowSize DEF InsertsList, AtInsertion
  <2>5. QED
    BY <1>2, <2>1, <2>2, <2>3, <2>4 DEF QInsertHead, Goto
<1>3. CASE QInsertTail
  <2>1. CASE /\ pc = "it"
             /\ IF heap[q].size = 0
                THEN WriteHead(loc.ptr)
                ELSE heap' = [heap EXCEPT ![heap[q].tail].next = loc.ptr]
             /\ pc' = "it.next" /\ UNCHANGED <<q, loc>>
    BY <2>1, LinkLast DEF InsertsList, AtInsertion
  <2>2. CASE /\ pc = "it.next"
             /\ heap' = [heap EXCEPT ![loc.ptr].next = NULL]
             /\ pc' = "it.tail" /\ UNCHANGED <<q, loc>>
    BY <2>2, EndLast DEF InsertsList, AtInsertion
  <2>3. CASE pc = "it.tail" /\ WriteTail(loc.ptr) /\ pc' = "it.size" /\ UNCHANGED <<q, loc>>
    BY <2>3, StoreTail DEF InsertsList, AtInsertion
  <2>4. CASE pc = "it.size" /\ WriteSize(heap[q].size + 1) /\ Returns(TRUE) /\ UNCHANGED q
    BY <2>4, GrowSize DEF InsertsList, AtInsertion
  <2>5. QED
    BY <1>3, <2>1, <2>2, <2>3, <2>4 DEF QInsertTail, SetTail, Goto
<1>4. QED
  BY <1>1, <1>2, <1>3

\* The statements of q_remove_head, q_size and q_reverse.
LEMMA OtherPhase ==
    ASSUME HeapInv, ModesInv, LibSame, q' = q,
           pc \in AtRemoval \cup AtReverse \cup {"size"},
           pc' \in (AtRemoval \ {"remove"}) \cup {"reverse.loop", "cancel", "check"},
           pc' \in AtRemoval => pc \in AtRemoval,
           pc' = "reverse.loop" => pc \in AtReverse,
           pc' # "cancel" /\ pc # "size" => q # NULL,
           q # NULL => q \in DOMAIN heap' /\ heap'[q] \in QueueCells
    PROVE  Phases'
<1>1. op \in Removals \cup {"reverse", "size"}
  BY DEF ModesInv, OperationFits, AtRemoval, AtReverse
<1>2. CommandOK'
  <2>1. pc' \in Places
    BY DEF Places, AtReverse, AtRound
  <2>2. QED
    BY <1>1, <2>1 DEF HeapInv, CommandOK, LibSame, AtRemoval, AtReverse, Removals
<1>3. CountOK'
  BY <1>1 DEF CountOK, LibSame, Insertions, Removals
<1>4. CalmPlaces'
  BY <1>1 DEF HeapInv, CalmPlaces, LibSame, AtInsertion, AtRemoval, AtReverse, Calm,
     Insertions, Removals, ModesInv, OperationFits
<1>5. QueueThere'
  BY <1>1 DEF QueueThere, LibSame, AtInsertion, AtRemoval, AtFree, AtReverse, Removals
<1>6. RoomForNew'
  BY <1>1 DEF RoomForNew, LibSame, Removals
<1>7. QED
  BY <1>2, <1>3, <1>4, <1>5, <1>6 DEF Phases

LEMMA RemoveOnly ==
    ASSUME pc' \in AtRemoval \ {"remove", "remove.head"},
           NEW ch, NEW vl, NEW st, RemoveShape(ch, vl, st)'
    PROVE  ShapeOf(ch, vl, st)'
BY DEF ShapeOf, InsertShape, FreeShape, OtherShape, AtInsertion, AtRemoval, AtFree, Steady

LEMMA CancelOnly ==
    ASSUME pc' = "cancel", op' \notin {"free", "quit"},
           NEW ch, NEW vl, NEW st, Resting(ch, vl, st, {}, Len(ch))',
           qcnt' = IF op' \in Removals /\ loc'.rval THEN Len(ch) + 1 ELSE Len(ch),
           op' = "new" => ch = << >>
    PROVE  ShapeOf(ch, vl, st)'
BY DEF ShapeOf, InsertShape, RemoveShape, FreeShape, OtherShape, AtInsertion, AtRemoval,
   AtFree, Steady, Removals

\* The first element of a queue, and what is left without it.
LEMMA FirstElement ==
    \A h, ch, vl, st, S, e : Held(h, ch, vl, st, S, e) /\ ch # << >> =>
        /\ Held(h, Tail(ch), Tail(vl), Tail(st), S \cup {ch[1], vl[1]}, e)
        /\ h[ch[1]] = Element(vl[1], FirstOf(Tail(ch), e))
        /\ h[vl[1]] = StringOf(st[1])
        /\ ch[1] \in Block /\ vl[1] \in Block /\ st[1] \in Str
        /\ ch[1] # vl[1] /\ ch[1] \notin S /\ vl[1] \notin S
        /\ ch[1] \in DOMAIN h /\ vl[1] \in DOMAIN h
        /\ Len(Tail(ch)) = Len(ch) - 1
<1>1. TAKE h, ch, vl, st, S, e
<1>2. HAVE Held(h, ch, vl, st, S, e) /\ ch # << >>
<1>3. QED
  BY <1>2, PopFront

LEMMA NewHere == \A c \in Cells : c.kind = "queue" => c \in QueueCells
BY CellKinds DEF Cells

\* What the statements of a removal find.
LEMMA RemoveFacts ==
    ASSUME HeapInv, ModesInv, pc \in AtRemoval
    PROVE  /\ op \in Removals /\ Good /\ Shape /\ pc # "exit"
           /\ HeapTyped(heap) /\ loc \in LocalTypes /\ qcnt \in 0 .. MaxLen
           /\ q # NULL => q \in Block /\ q \in DOMAIN heap /\ heap[q] \in QueueCells
           /\ pc # "remove" => q # NULL
<1>1. op \in Removals /\ pc # "exit"
  BY DEF ModesInv, OperationFits, AtRemoval
<1>2. Good /\ Shape
  BY DEF Good, HeapInv, CalmPlaces
<1>3. q # NULL => q \in Block /\ q \in DOMAIN heap /\ heap[q] \in QueueCells
  BY <1>1 DEF HeapInv, Typed, QueueThere, Removals
<1>4. pc # "remove" => q # NULL
  BY DEF HeapInv, QueueThere
<1>5. QED
  BY <1>1, <1>2, <1>3, <1>4, HeapIsTyped DEF HeapInv, Typed

\* A statement of a removal after which the invariant holds of ch, vl, st.
LEMMA RemoveStep ==
    ASSUME HeapInv, ModesInv, LibSame, pc \in AtRemoval, q # NULL, q' = q,
           pc' \in (AtRemoval \ {"remove"}) \cup {"cancel"},
           HeapTyped(heap'), q \in DOMAIN heap', heap'[q] \in QueueCells,
           loc' \in LocalTypes, NEW ch, NEW vl, NEW st, ShapeOf(ch, vl, st)'
    PROVE  HeapInv' /\ IsList(st)'
<1>1. op \in Removals /\ pc # "exit"
  BY RemoveFacts
<1>2. Shape' /\ IsList(st)'
  BY DEF Shape, IsList
<1>3. Typed'
  BY <1>1, TypedLib DEF HeapInv, Typed
<1>4. Phases'
  BY OtherPhase DEF AtRemoval
<1>5. QED
  BY <1>2, <1>3, <1>4 DEF HeapInv, Phases

\* Nothing to remove.
LEMMA RemoveNothing ==
    ASSUME HeapInv, ModesInv, LibSame, pc = "remove", ~BadPointer,
           q = NULL \/ heap[q].head = NULL, Returns(FALSE), heap' = heap, q' = q
    PROVE  HeapInv'
<1>1. pc \in AtRemoval
  BY DEF AtRemoval
<1>2. /\ op \in Removals /\ Shape /\ pc # "exit"
      /\ HeapTyped(heap) /\ loc \in LocalTypes
      /\ q # NULL => q \in DOMAIN heap /\ heap[q] \in QueueCells
  BY <1>1, RemoveFacts
<1>3. pc' = "cancel" /\ loc' = [loc EXCEPT !.rval = FALSE]
  BY <1>2 DEF Returns, Goto, Removals
<1>4. loc' \in LocalTypes /\ loc'.rval = FALSE
  BY <1>2, <1>3, LocalFields, LocalsKept
<1>5. CASE q = NULL
  <2>1. DOMAIN heap = {} /\ qcnt = 0
    BY <1>2, <1>5 DEF Shape, NoQueueShape
  <2>2. Shape'
    <3>1. DOMAIN heap' = {} /\ qcnt' = 0 /\ q' = NULL /\ ~loc'.rval
      BY <1>4, <1>5, <2>1 DEF LibSame
    <3>2. NoQueueShape'
      BY <1>3, <3>1 DEF NoQueueShape
    <3>3. QED
      BY <3>1, <3>2 DEF Shape
  <2>3. Typed'
    BY <1>2, <1>4, <1>5, TypedLib DEF HeapInv
  <2>4. Phases'
    BY <1>1, <1>3, <1>5, OtherPhase
  <2>5. QED
    BY <2>2, <2>3, <2>4 DEF HeapInv, Phases
<1>6. CASE q # NULL
  <2>1. PICK ch, vl, st : ShapeOf(ch, vl, st)
    BY <1>2, <1>6 DEF Shape
  <2>2. Resting(ch, vl, st, {}, Len(ch)) /\ qcnt = Len(ch)
    BY <1>2, <2>1 DEF ShapeOf, Steady, Removals
  <2>3. Resting(ch, vl, st, {}, Len(ch))'
    BY <2>2 DEF Resting
  <2>4. ShapeOf(ch, vl, st)'
    BY <1>2, <1>3, <1>4, <2>2, <2>3, CancelOnly DEF LibSame, Removals
  <2>5. QED
    BY <1>1, <1>2, <1>3, <1>4, <1>6, <2>4, RemoveStep
<1>7. QED
  BY <1>5, <1>6

LEMMA TakeFirst ==
    ASSUME HeapInv, ModesInv, LibSame, pc = "remove",
           q # NULL, heap[q].head # NULL,
           loc' = [loc EXCEPT !.ptr = heap[q].head,
                              !.taken = heap[heap[heap[q].head].value].str],
           pc' = "remove.head", heap' = heap, q' = q
    PROVE  HeapInv' /\ Keeps
<1>1. pc \in AtRemoval
  BY DEF AtRemoval
<1>2. /\ op \in Removals /\ Shape /\ pc # "exit"
      /\ HeapTyped(heap) /\ loc \in LocalTypes
      /\ q \in DOMAIN heap /\ heap[q] \in QueueCells
  BY <1>1, RemoveFacts
<1>3. PICK ch, vl, st : ShapeOf(ch, vl, st)
  BY <1>2 DEF Shape
<1>4. Resting(ch, vl, st, {}, Len(ch)) /\ qcnt = Len(ch)
  BY <1>2, <1>3 DEF ShapeOf, Steady, Removals
<1>5. /\ Held(heap, ch, vl, st, {q}, NULL)
      /\ heap[q] = Queue(FirstOf(ch, NULL), heap[q].tail, Len(ch))
  <2>1. {q} \cup {} = {q}
    OBVIOUS
  <2>2. QED
    BY <1>4, <2>1 DEF Resting
<1>6. heap[q].head = FirstOf(ch, NULL)
  BY <1>5, QueueFields
<1>7. ch # << >> /\ heap[q].head = ch[1]
  BY <1>6 DEF FirstOf
<1>8. /\ ch[1] \in Block /\ st[1] \in Str
      /\ heap[ch[1]] = Element(vl[1], FirstOf(Tail(ch), NULL))
      /\ heap[vl[1]] = StringOf(st[1])
  <2>1. PICK S : S = {q}
    OBVIOUS
  <2>2. Held(heap, ch, vl, st, S, NULL) /\ ch # << >>
    BY <1>5, <1>7, <2>1
  <2>3. QED
    BY <2>2, FirstElement, ZenonT(60)
<1>9. heap[heap[heap[q].head].value].str = st[1]
  <2>1. heap[ch[1]].value = vl[1]
    BY <1>8, QueueFields
  <2>2. QED
    BY <1>7, <1>8, <2>1, QueueFields
<1>10. loc' \in LocalTypes /\ loc'.ptr = ch[1]
  BY <1>2, <1>7, <1>8, <1>9 DEF LocalTypes, Address
<1>11. Resting(ch, vl, st, {}, Len(ch))'
  BY <1>4 DEF Resting
<1>12. ShapeOf(ch, vl, st)'
  BY <1>2, <1>4, <1>7, <1>10, <1>11 DEF LibSame, ShapeOf, InsertShape, RemoveShape, FreeShape,
     OtherShape, AtInsertion, AtRemoval, AtFree, Steady, Removals
<1>13. /\ HeapTyped(heap') /\ q \in DOMAIN heap' /\ heap'[q] \in QueueCells
       /\ pc' \in (AtRemoval \ {"remove"}) \cup {"cancel"}
  BY <1>2 DEF AtRemoval
<1>14. HeapInv' /\ IsList(st)'
  BY <1>1, <1>10, <1>12, <1>13, RemoveStep
<1>15. IsList(st)
  BY <1>3 DEF IsList
<1>16. QED
  BY <1>14, <1>15 DEF Keeps

LEMMA UnlinkFirst ==
    ASSUME HeapInv, ModesInv, LibSame, pc = "remove.head",
           WriteHead(heap[loc.ptr].next), pc' = "remove.value", q' = q, loc' = loc
    PROVE  HeapInv' /\ Shortens
<1>1. pc \in AtRemoval /\ pc' \in AtRemoval
  BY DEF AtRemoval
<1>2. /\ op \in Removals /\ Shape /\ pc # "exit" /\ q # NULL
      /\ HeapTyped(heap) /\ loc \in LocalTypes
      /\ q \in DOMAIN heap /\ heap[q] \in QueueCells
  BY <1>1, RemoveFacts
<1>3. PICK ch, vl, st : ShapeOf(ch, vl, st)
  BY <1>2 DEF Shape
<1>4. /\ Resting(ch, vl, st, {}, Len(ch)) /\ qcnt = Len(ch)
      /\ ch # << >> /\ loc.ptr = ch[1]
  BY <1>2, <1>3 DEF ShapeOf, Steady, Removals, RemoveShape
<1>5. /\ Held(heap, ch, vl, st, {q}, NULL)
      /\ heap[q] = Queue(FirstOf(ch, NULL), heap[q].tail, Len(ch))
      /\ TailOK(ch, heap[q].tail)
  <2>1. {q} \cup {} = {q}
    OBVIOUS
  <2>2. QED
    BY <1>4, <2>1 DEF Resting
<1>6. heap[q].size = Len(ch)
  BY <1>5, QueueFields
<1>7. PICK c2, v2, s2, v : c2 = Tail(ch) /\ v2 = Tail(vl) /\ s2 = Tail(st) /\ v = vl[1]
  OBVIOUS
<1>8. PICK p : p = loc.ptr
  OBVIOUS
<1>9. /\ Held(heap, c2, v2, s2, {q} \cup {p, v}, NULL)
      /\ heap[p] = Element(v, FirstOf(c2, NULL)) /\ heap[v] = StringOf(st[1])
      /\ p \in Block /\ v \in Block /\ p # v /\ p # q /\ v # q
      /\ p \in DOMAIN heap /\ v \in DOMAIN heap
      /\ Len(c2) = Len(ch) - 1
  <2>1. p = ch[1]
    BY <1>4, <1>8
  <2>2. /\ Held(heap, Tail(ch), Tail(vl), Tail(st), {q} \cup {ch[1], vl[1]}, NULL)
        /\ heap[ch[1]] = Element(vl[1], FirstOf(Tail(ch), NULL))
        /\ heap[vl[1]] = StringOf(st[1])
        /\ ch[1] \in Block /\ vl[1] \in Block
        /\ ch[1] # vl[1] /\ ch[1] \notin {q} /\ vl[1] \notin {q}
        /\ ch[1] \in DOMAIN heap /\ vl[1] \in DOMAIN heap
        /\ Len(Tail(ch)) = Len(ch) - 1
    <3>1. PICK S : S = {q}
      OBVIOUS
    <3>4. Held(heap, ch, vl, st, S, NULL) /\ ch # << >>
      BY <1>4, <1>5, <3>1
    <3>2. /\ Held(heap, Tail(ch), Tail(vl), Tail(st), S \cup {ch[1], vl[1]}, NULL)
          /\ heap[ch[1]] = Element(vl[1], FirstOf(Tail(ch), NULL))
          /\ heap[vl[1]] = StringOf(st[1])
          /\ ch[1] \in Block /\ vl[1] \in Block /\ st[1] \in Str
          /\ ch[1] # vl[1] /\ ch[1] \notin S /\ vl[1] \notin S
          /\ ch[1] \in DOMAIN heap /\ vl[1] \in DOMAIN heap
          /\ Len(Tail(ch)) = Len(ch) - 1
      BY <3>4, FirstElement, Zenon
    <3>3. QED
      BY <3>1, <3>2
  <2>3. QED
    BY <1>7, <2>1, <2>2
<1>10. heap[p].next = FirstOf(c2, NULL) /\ heap[p].value = v
  BY <1>9, QueueFields
<1>11. heap[p].next \in Address
  <2>1. heap[p] \in Cells /\ heap[p].kind = "element"
    BY <1>2, <1>9, QueueFields DEF HeapTyped
  <2>2. QED
    BY <2>1, CellKinds DEF Cells
<1>12. /\ HeapTyped(heap')
       /\ Changed(heap, heap', q, Queue(heap[p].next, heap[q].tail, heap[q].size))
  BY <1>2, <1>8, <1>11, WriteFacts
<1>13. Held(heap', c2, v2, s2, {q} \cup {p, v}, NULL)
  <2>1. PICK S : S = {q} \cup {p, v}
    OBVIOUS
  <2>2. PICK cell : cell = Queue(heap[p].next, heap[q].tail, heap[q].size)
    OBVIOUS
  <2>3. Held(heap, c2, v2, s2, S, NULL) /\ Changed(heap, heap', q, cell) /\ q \in S
    BY <1>9, <1>12, <2>1, <2>2
  <2>4. Held(heap', c2, v2, s2, S, NULL)
    BY <2>3, HeldChanged, Zenon
  <2>5. QED
    BY <2>1, <2>4
<1>14. /\ q \in DOMAIN heap'
       /\ heap'[q] = Queue(FirstOf(c2, NULL), heap[q].tail, Len(ch))
       /\ heap'[p] = heap[p] /\ heap'[v] = heap[v]
  BY <1>2, <1>6, <1>9, <1>10, <1>12 DEF Changed
<1>15. heap'[q].tail = heap[q].tail /\ heap'[q].kind = "queue"
  BY <1>14, QueueFields
<1>16. heap'[q] \in QueueCells
  BY <1>12, <1>14, <1>15, NewHere DEF HeapTyped
<1>17. /\ ch \in Seq(Block) /\ Len(ch) \in Nat /\ Len(ch) >= 1
  BY <1>4, <1>5, ListLength DEF Held, Lists
<1>18. Len(c2) + 1 = Len(ch)
  BY <1>9, <1>17
<1>19. TailOK(c2, heap'[q].tail)
  <2>1. SUFFICES ASSUME c2 # << >> PROVE heap[q].tail = c2[Len(c2)]
    BY <1>15 DEF TailOK
  <2>2. /\ c2 \in Seq(Block) /\ \A i \in 1 .. Len(ch) - 1 : c2[i] = ch[i + 1]
    BY <1>4, <1>7, <1>17, Shortened
  <2>3. Len(c2) \in 1 .. Len(ch) - 1 /\ Len(c2) + 1 = Len(ch)
    BY <2>1, <2>2, <1>9, <1>17
  <2>4. QED
    BY <1>4, <1>5, <2>2, <2>3 DEF TailOK
<1>20. Resting(c2, v2, s2, {p, v}, Len(c2) + 1)'
  BY <1>13, <1>14, <1>15, <1>18, <1>19 DEF Resting
<1>21. heap'[p].value = v /\ heap'[p].kind = "element" /\ heap'[v].kind = "string"
  BY <1>9, <1>10, <1>14, QueueFields
<1>22. RemoveShape(c2, v2, s2)'
  BY <1>4, <1>8, <1>9, <1>18, <1>20, <1>21 DEF RemoveShape, LibSame
<1>23. ShapeOf(c2, v2, s2)'
  BY <1>22, RemoveOnly DEF AtRemoval
<1>24. HeapInv' /\ IsList(s2)'
  BY <1>1, <1>2, <1>12, <1>14, <1>16, <1>23, RemoveStep DEF AtRemoval
<1>25. IsList(st)
  BY <1>3 DEF IsList
<1>26. st # << >>
  BY <1>5, <1>17 DEF Held, Lists
<1>27. QED
  BY <1>7, <1>24, <1>25, <1>26 DEF Shortens

\* Freeing a block outside of the list.
LEMMA RestingRemoved ==
    ASSUME NEW ch, NEW vl, NEW st, NEW S, NEW m, NEW b,
           Resting(ch, vl, st, S \cup {b}, m), Removed(heap, heap', b),
           b \notin S, b # q, q \in DOMAIN heap, q' = q
    PROVE  /\ Resting(ch, vl, st, S, m)'
           /\ q \in DOMAIN heap' /\ heap'[q] = heap[q]
<1>1. {q} \cup (S \cup {b}) = ({q} \cup S) \cup {b} /\ b \notin {q} \cup S
  OBVIOUS
<1>2. Held(heap, ch, vl, st, ({q} \cup S) \cup {b}, NULL)
  BY <1>1 DEF Resting
<1>3. Held(heap', ch, vl, st, {q} \cup S, NULL)
  <2>1. PICK T : T = {q} \cup S
    OBVIOUS
  <2>2. Held(heap, ch, vl, st, T \cup {b}, NULL) /\ b \notin T
    BY <1>1, <1>2, <2>1
  <2>3. Held(heap', ch, vl, st, T, NULL)
    BY <2>2, HeldRemoved
  <2>4. QED
    BY <2>1, <2>3
<1>4. q \in DOMAIN heap' /\ heap'[q] = heap[q]
  BY DEF Removed
<1>5. QED
  BY <1>3, <1>4 DEF Resting

LEMMA FreeRemovedValue ==
    ASSUME HeapInv, ModesInv, LibSame, pc = "remove.value",
           heap' = Without(heap[loc.ptr].value),
           pc' = "remove.element", q' = q, loc' = loc
    PROVE  HeapInv' /\ Keeps
<1>1. pc \in AtRemoval /\ pc' \in AtRemoval \ {"remove", "remove.head"}
  BY DEF AtRemoval
<1>2. /\ op \in Removals /\ Shape /\ pc # "exit" /\ q # NULL
      /\ HeapTyped(heap) /\ loc \in LocalTypes
      /\ q \in DOMAIN heap /\ heap[q] \in QueueCells
  BY <1>1, RemoveFacts
<1>3. PICK ch, vl, st : ShapeOf(ch, vl, st)
  BY <1>2 DEF Shape
<1>4. PICK p, v : p = loc.ptr /\ v = heap[p].value
  OBVIOUS
<1>5. /\ Resting(ch, vl, st, {p, v}, Len(ch) + 1) /\ qcnt = Len(ch) + 1
      /\ heap[p].kind = "element" /\ p \in Block /\ p # q /\ v # q /\ v # p
  BY <1>3, <1>4 DEF ShapeOf, RemoveShape, AtRemoval
<1>6. HeapTyped(heap') /\ Removed(heap, heap', v)
  BY <1>2, <1>4, WithoutFacts
<1>7. /\ Resting(ch, vl, st, {p}, Len(ch) + 1)'
      /\ q \in DOMAIN heap' /\ heap'[q] = heap[q]
  <2>1. PICK S : S = {p}
    OBVIOUS
  <2>2. Resting(ch, vl, st, S \cup {v}, Len(ch) + 1)
    <3>1. S \cup {v} = {p, v}
      BY <2>1
    <3>2. QED
      BY <1>5, <3>1
  <2>3. v \notin S /\ v # q
    BY <1>5, <2>1
  <2>4. Resting(ch, vl, st, S, Len(ch) + 1)' /\ q \in DOMAIN heap' /\ heap'[q] = heap[q]
    BY <1>2, <1>6, <2>2, <2>3, RestingRemoved
  <2>5. QED
    BY <2>1, <2>4
<1>8. heap'[p] = heap[p]
  <2>1. {p, v} \subseteq DOMAIN heap
    BY <1>5 DEF Resting, Held, Extent
  <2>2. QED
    BY <1>5, <1>6, <2>1 DEF Removed
<1>9. RemoveShape(ch, vl, st)'
  BY <1>4, <1>5, <1>7, <1>8 DEF RemoveShape, LibSame
<1>10. ShapeOf(ch, vl, st)'
  BY <1>1, <1>9, RemoveOnly
<1>11. HeapInv' /\ IsList(st)'
  BY <1>1, <1>2, <1>6, <1>7, <1>10, RemoveStep
<1>12. IsList(st)
  BY <1>3 DEF IsList
<1>13. QED
  BY <1>11, <1>12 DEF Keeps

LEMMA FreeRemovedElement ==
    ASSUME HeapInv, ModesInv, LibSame, pc = "remove.element",
           heap' = Without(loc.ptr), pc' = "remove.size", q' = q, loc' = loc
    PROVE  HeapInv' /\ Keeps
<1>1. pc \in AtRemoval /\ pc' \in AtRemoval \ {"remove", "remove.head"}
  BY DEF AtRemoval
<1>2. /\ op \in Removals /\ Shape /\ pc # "exit" /\ q # NULL
      /\ HeapTyped(heap) /\ loc \in LocalTypes
      /\ q \in DOMAIN heap /\ heap[q] \in QueueCells
  BY <1>1, RemoveFacts
<1>3. PICK ch, vl, st : ShapeOf(ch, vl, st)
  BY <1>2 DEF Shape
<1>4. PICK p : p = loc.ptr
  OBVIOUS
<1>5. /\ Resting(ch, vl, st, {p}, Len(ch) + 1) /\ qcnt = Len(ch) + 1 /\ p # q
  BY <1>3, <1>4 DEF ShapeOf, RemoveShape, AtRemoval
<1>6. HeapTyped(heap') /\ Removed(heap, heap', p)
  BY <1>2, <1>4, WithoutFacts
<1>7. /\ Resting(ch, vl, st, {}, Len(ch) + 1)'
      /\ q \in DOMAIN heap' /\ heap'[q] = heap[q]
  <2>1. PICK S : S = {}
    OBVIOUS
  <2>2. Resting(ch, vl, st, S \cup {p}, Len(ch) + 1) /\ p \notin S
    <3>1. S \cup {p} = {p}
      BY <2>1
    <3>2. QED
      BY <1>5, <2>1, <3>1
  <2>3. Resting(ch, vl, st, S, Len(ch) + 1)' /\ q \in DOMAIN heap' /\ heap'[q] = heap[q]
    BY <1>2, <1>5, <1>6, <2>2, RestingRemoved
  <2>4. QED
    BY <2>1, <2>3
<1>8. RemoveShape(ch, vl, st)'
  BY <1>5, <1>7 DEF RemoveShape, LibSame
<1>9. ShapeOf(ch, vl, st)'
  BY <1>1, <1>8, RemoveOnly
<1>10. HeapInv' /\ IsList(st)'
  BY <1>1, <1>2, <1>6, <1>7, <1>9, RemoveStep
<1>11. IsList(st)
  BY <1>3 DEF IsList
<1>12. QED
  BY <1>10, <1>11 DEF Keeps

\* q->size-- at the end of a removal.
LEMMA ShrinkSizeStep ==
    ASSUME HeapInv, ModesInv, LibSame, ShrinkSize
    PROVE  HeapInv' /\ Keeps
<1>1. pc = "remove.size" /\ q' = q /\ WriteSize(heap[q].size - 1) /\ Returns(TRUE)
  BY DEF ShrinkSize
<1>2. pc \in AtRemoval
  BY <1>1 DEF AtRemoval
<1>3. /\ op \in Removals /\ Shape /\ pc # "exit" /\ q # NULL
      /\ HeapTyped(heap) /\ loc \in LocalTypes /\ qcnt \in 0 .. MaxLen
      /\ q \in DOMAIN heap /\ heap[q] \in QueueCells
  BY <1>1, <1>2, RemoveFacts
<1>4. PICK ch, vl, st : ShapeOf(ch, vl, st)
  BY <1>3 DEF Shape
<1>5. Resting(ch, vl, st, {}, Len(ch) + 1) /\ qcnt = Len(ch) + 1
  BY <1>1, <1>4 DEF ShapeOf, RemoveShape, AtRemoval
<1>6. {q} \cup {} = {q}
  OBVIOUS
<1>7. /\ Held(heap, ch, vl, st, {q}, NULL)
      /\ heap[q] = Queue(FirstOf(ch, NULL), heap[q].tail, Len(ch) + 1)
      /\ TailOK(ch, heap[q].tail)
  BY <1>5, <1>6 DEF Resting
<1>8. heap[q].head = FirstOf(ch, NULL) /\ heap[q].size = Len(ch) + 1
  BY <1>7, QueueFields
<1>9. Len(ch) \in Nat
  BY <1>7, ListLength DEF Held
<1>10. heap[q].size - 1 = Len(ch) /\ Len(ch) \in 0 .. MaxLen
  BY <1>3, <1>5, <1>8, <1>9, BlockFinite
<1>11. HeapTyped(heap') /\ Changed(heap, heap', q, Queue(heap[q].head, heap[q].tail, Len(ch)))
  BY <1>1, <1>3, <1>10, WriteFacts
<1>12. Held(heap', ch, vl, st, {q}, NULL)
  BY <1>7, <1>11, HeldChanged
<1>13. /\ q \in DOMAIN heap'
       /\ heap'[q] = Queue(FirstOf(ch, NULL), heap[q].tail, Len(ch))
  BY <1>3, <1>8, <1>11 DEF Changed
<1>14. heap'[q].tail = heap[q].tail /\ heap'[q].kind = "queue"
  BY <1>13, QueueFields
<1>15. heap'[q] \in QueueCells
  BY <1>11, <1>13, <1>14, NewHere DEF HeapTyped
<1>16. Resting(ch, vl, st, {}, Len(ch))'
  BY <1>1, <1>6, <1>7, <1>12, <1>13, <1>14 DEF Resting
<1>17. pc' = "cancel" /\ loc' = [loc EXCEPT !.rval = TRUE]
  BY <1>1, <1>3 DEF Returns, Goto, Removals
<1>18. loc' \in LocalTypes /\ loc'.rval = TRUE
  BY <1>3, <1>17, LocalFields, LocalsKept
<1>19. ShapeOf(ch, vl, st)'
  BY <1>3, <1>5, <1>16, <1>17, <1>18, CancelOnly DEF LibSame, Removals
<1>20. HeapInv' /\ IsList(st)'
  BY <1>1, <1>2, <1>3, <1>11, <1>13, <1>15, <1>17, <1>18, <1>19, RemoveStep
<1>21. IsList(st)
  BY <1>4 DEF IsList
<1>22. QED
  BY <1>20, <1>21 DEF Keeps

LEMMA RemovalStep ==
    ASSUME HeapInv, ModesInv, LibSame, ~BadPointer, QRemoveHead
    PROVE  HeapInv' /\ RemovesList
<1>1. CASE pc = "remove" /\ (q = NULL \/ heap[q].head = NULL) /\ Returns(FALSE)
           /\ heap' = heap /\ q' = q
  BY <1>1, RemoveNothing DEF RemovesList, AtRemoval, Untouched
<1>2. CASE /\ pc = "remove" /\ q # NULL /\ heap[q].head # NULL
           /\ loc' = [loc EXCEPT !.ptr = heap[q].head,
                                 !.taken = heap[heap[heap[q].head].value].str]
           /\ pc' = "remove.head" /\ heap' = heap /\ q' = q
  BY <1>2, TakeFirst DEF RemovesList, AtRemoval
<1>3. CASE /\ pc = "remove.head" /\ WriteHead(heap[loc.ptr].next)
           /\ pc' = "remove.value" /\ q' = q /\ loc' = loc
  BY <1>3, UnlinkFirst DEF RemovesList, AtRemoval
<1>4. CASE /\ pc = "remove.value" /\ heap' = Without(heap[loc.ptr].value)
           /\ pc' = "remove.element" /\ q' = q /\ loc' = loc
  BY <1>4, FreeRemovedValue DEF RemovesList, AtRemoval
<1>5. CASE /\ pc = "remove.element" /\ heap' = Without(loc.ptr)
           /\ pc' = "remove.size" /\ q' = q /\ loc' = loc
  BY <1>5, FreeRemovedElement DEF RemovesList, AtRemoval
<1>6. CASE ShrinkSize
  BY <1>6, ShrinkSizeStep DEF RemovesList, AtRemoval, ShrinkSize
<1>7. QED
  BY <1>1, <1>2, <1>3, <1>4, <1>5, <1>6 DEF QRemoveHead, Goto, memory

\* Where the list is at rest, the insertions apart.
LEMMA SteadyOnly ==
    ASSUME pc' \in Steady \ {"show.loop", "remove.head"}, op' \notin {"ih", "quit"},
           pc' \in {"free", "after"} => op' # "free",
           NEW ch, NEW vl, NEW st, Resting(ch, vl, st, {}, Len(ch))', qcnt' = Len(ch)
    PROVE  ShapeOf(ch, vl, st)'
<1>1. InsertShape(ch, vl, st)'
  BY DEF InsertShape, Steady
<1>2. RemoveShape(ch, vl, st)'
  BY DEF RemoveShape, AtRemoval, Steady
<1>3. FreeShape(ch, vl, st)' /\ OtherShape(ch, vl, st)'
  BY DEF FreeShape, OtherShape, Steady
<1>4. QED
  BY <1>1, <1>2, <1>3 DEF ShapeOf

\* q_size leaves everything but the size that it returns.
LEMMA SizeStep ==
    ASSUME HeapInv, ModesInv, LibSame, QSize
    PROVE  HeapInv'
<1>1. /\ pc = "size" /\ pc' = "check" /\ heap' = heap /\ q' = q
      /\ loc' = [loc EXCEPT !.seen = IF q # NULL /\ heap[q].head # NULL
                                     THEN heap[q].size ELSE 0]
  BY DEF QSize, Goto, memory
<1>2. op = "size"
  BY <1>1 DEF ModesInv, OperationFits
<1>3. /\ HeapTyped(heap) /\ loc \in LocalTypes
      /\ q # NULL => q \in DOMAIN heap /\ heap[q] \in QueueCells
  BY <1>1, <1>2, HeapIsTyped DEF HeapInv, Typed, QueueThere
<1>4. PICK x \in Nat : loc' = [loc EXCEPT !.seen = x]
  <2>1. q # NULL => heap[q].size \in Nat
    BY <1>3, CellKinds, BlockFinite
  <2>2. (IF q # NULL /\ heap[q].head # NULL THEN heap[q].size ELSE 0) \in Nat
    BY <2>1
  <2>3. QED
    BY <1>1, <2>2
<1>5. loc' \in LocalTypes
  BY <1>3, <1>4 DEF LocalTypes
<1>6. Typed'
  <2>1. q' \in Block \cup {NULL} /\ HeapTyped(heap') /\ pc # "exit"
    BY <1>1, <1>3 DEF HeapInv, Typed
  <2>2. QED
    BY <1>5, <2>1, TypedLib DEF HeapInv
<1>7. Phases'
  BY <1>1, <1>3, OtherPhase DEF AtRemoval
<1>8. Good' => Shape'
  <2>1. SUFFICES ASSUME Good' PROVE Shape'
    OBVIOUS
  <2>2. Shape
    BY <1>1, <1>2, <2>1 DEF HeapInv, Good, AtInsertion, LibSame, Insertions, Calm
  <2>3. CASE q = NULL
    <3>1. NoQueueShape'
      BY <1>1, <2>2, <2>3 DEF Shape, NoQueueShape, LibSame
    <3>2. QED
      BY <1>1, <2>3, <3>1 DEF Shape
  <2>4. CASE q # NULL
    <3>1. PICK ch, vl, st : ShapeOf(ch, vl, st)
      BY <1>1, <2>2, <2>4 DEF Shape
    <3>2. Resting(ch, vl, st, {}, Len(ch)) /\ qcnt = Len(ch)
      BY <1>1, <1>2, <3>1 DEF ShapeOf, Steady
    <3>3. Resting(ch, vl, st, {}, Len(ch))' /\ qcnt' = Len(ch)
      BY <1>1, <3>2 DEF Resting, LibSame
    <3>4. pc' = "check" /\ op' = "size"
      BY <1>1, <1>2 DEF LibSame
    <3>5. QED
      BY <1>1, <2>4, <3>3, <3>4, SteadyOnly DEF Shape, Steady
  <2>5. QED
    BY <2>3, <2>4
<1>9. QED
  BY <1>6, <1>7, <1>8 DEF HeapInv, Phases

LEMMA ReverseFacts ==
    ASSUME HeapInv, ModesInv, pc \in AtReverse
    PROVE  /\ op = "reverse" /\ Shape /\ pc # "exit"
           /\ HeapTyped(heap) /\ loc \in LocalTypes
           /\ q # NULL => q \in Block /\ q \in DOMAIN heap /\ heap[q] \in QueueCells
           /\ pc = "reverse.loop" => q # NULL
           /\ pc = "reverse" => loc.aux = NULL
<1>1. op = "reverse" /\ pc # "exit"
  BY DEF ModesInv, OperationFits, AtReverse
<1>2. Shape
  BY DEF Good, HeapInv, CalmPlaces
<1>3. q # NULL => q \in Block /\ q \in DOMAIN heap /\ heap[q] \in QueueCells
  BY <1>1 DEF HeapInv, Typed, QueueThere
<1>4. pc = "reverse.loop" => q # NULL
  BY DEF HeapInv, QueueThere
<1>5. pc = "reverse" => loc.aux = NULL
  BY <1>1 DEF HeapInv, CommandOK
<1>6. QED
  BY <1>1, <1>2, <1>3, <1>4, <1>5, HeapIsTyped DEF HeapInv, Typed

LEMMA ReverseStep ==
    ASSUME HeapInv, ModesInv, LibSame, pc \in AtReverse, q # NULL, q' = q,
           pc' \in {"reverse.loop", "cancel"},
           HeapTyped(heap'), q \in DOMAIN heap', heap'[q] \in QueueCells,
           loc' \in LocalTypes, NEW ch, NEW vl, NEW st, ShapeOf(ch, vl, st)'
    PROVE  HeapInv' /\ IsList(st)'
<1>1. op = "reverse" /\ pc # "exit"
  BY ReverseFacts
<1>2. Shape' /\ IsList(st)'
  BY DEF Shape, IsList
<1>3. Typed'
  BY <1>1, TypedLib DEF HeapInv, Typed
<1>4. Phases'
  BY OtherPhase DEF AtRemoval
<1>5. QED
  BY <1>2, <1>3, <1>4 DEF HeapInv, Phases

\* A queue that is not reversed.
LEMMA ReverseNothing ==
    ASSUME HeapInv, ModesInv, LibSame, pc = "reverse",
           heap' = heap, q' = q, loc' = loc, pc' = "cancel"
    PROVE  HeapInv'
<1>1. pc \in AtReverse
  BY DEF AtReverse
<1>2. /\ op = "reverse" /\ Shape /\ pc # "exit"
      /\ HeapTyped(heap) /\ loc \in LocalTypes
      /\ q # NULL => q \in DOMAIN heap /\ heap[q] \in QueueCells
  BY <1>1, ReverseFacts
<1>3. CASE q = NULL
  <2>1. DOMAIN heap = {} /\ qcnt = 0
    BY <1>2, <1>3 DEF Shape, NoQueueShape
  <2>2. NoQueueShape'
    BY <1>2, <2>1 DEF NoQueueShape, LibSame, Removals
  <2>3. Shape'
    BY <1>3, <2>2 DEF Shape
  <2>4. Typed'
    BY <1>2, <1>3, TypedLib DEF HeapInv
  <2>5. Phases'
    BY <1>1, <1>3, OtherPhase DEF AtRemoval
  <2>6. QED
    BY <2>3, <2>4, <2>5 DEF HeapInv, Phases
<1>4. CASE q # NULL
  <2>1. PICK ch, vl, st : ShapeOf(ch, vl, st)
    BY <1>2, <1>4 DEF Shape
  <2>2. Resting(ch, vl, st, {}, Len(ch)) /\ qcnt = Len(ch)
    BY <1>2, <2>1 DEF ShapeOf, Steady
  <2>3. Resting(ch, vl, st, {}, Len(ch))'
    BY <2>2 DEF Resting
  <2>4. ShapeOf(ch, vl, st)'
    BY <1>2, <2>2, <2>3, CancelOnly DEF LibSame, Removals
  <2>5. HeapTyped(heap') /\ q \in DOMAIN heap' /\ heap'[q] \in QueueCells /\ loc' \in LocalTypes
    BY <1>2, <1>4
  <2>6. QED
    BY <1>1, <1>4, <2>4, <2>5, ReverseStep
<1>5. QED
  BY <1>3, <1>4

LEMMA LoopOnly ==
    ASSUME pc' = "reverse.loop", op' = "reverse",
           NEW ch, NEW vl, NEW st, NEW k \in 0 .. Len(ch),
           Turned(heap', ch, vl, st, {q'}, k),
           heap'[q'] = Queue(heap'[q'].head, heap'[q'].tail, Len(ch)),
           Len(ch) >= 1, heap'[q'].tail = ch[1], qcnt' = Len(ch),
           loc'.aux = IF k = 0 THEN NULL ELSE ch[k],
           loc'.ptr = IF k = Len(ch) THEN NULL ELSE ch[k + 1]
    PROVE  ShapeOf(ch, vl, st)'
<1>1. OtherShape(ch, vl, st)'
  BY DEF OtherShape
<1>2. QED
  BY <1>1 DEF ShapeOf, InsertShape, RemoveShape, FreeShape, AtInsertion, AtRemoval,
     AtFree, Steady

LEMMA BeginTurning ==
    ASSUME HeapInv, ModesInv, LibSame, pc = "reverse", q # NULL, heap[q].size > 1,
           loc' = [loc EXCEPT !.ptr = heap[q].head], WriteTail(heap[q].head),
           pc' = "reverse.loop", q' = q
    PROVE  HeapInv' /\ Keeps
<1>1. pc \in AtReverse
  BY DEF AtReverse
<1>2. /\ op = "reverse" /\ Shape /\ pc # "exit"
      /\ HeapTyped(heap) /\ loc \in LocalTypes /\ loc.aux = NULL
      /\ q \in DOMAIN heap /\ heap[q] \in QueueCells
  BY <1>1, ReverseFacts
<1>3. PICK ch, vl, st : ShapeOf(ch, vl, st)
  BY <1>2 DEF Shape
<1>4. Resting(ch, vl, st, {}, Len(ch)) /\ qcnt = Len(ch)
  BY <1>2, <1>3 DEF ShapeOf, Steady
<1>5. {q} \cup {} = {q}
  OBVIOUS
<1>6. /\ Held(heap, ch, vl, st, {q}, NULL)
      /\ heap[q] = Queue(FirstOf(ch, NULL), heap[q].tail, Len(ch))
  BY <1>4, <1>5 DEF Resting
<1>7. heap[q].head = FirstOf(ch, NULL) /\ heap[q].size = Len(ch)
  BY <1>6, QueueFields
<1>8. Len(ch) \in Nat /\ Len(ch) > 1 /\ ch # << >> /\ ch[1] \in Block
  BY <1>6, <1>7, ListLength DEF Held
<1>9. heap[q].head = ch[1]
  BY <1>7, <1>8 DEF FirstOf
<1>10. HeapTyped(heap') /\ Changed(heap, heap', q, Queue(ch[1], ch[1], Len(ch)))
  BY <1>2, <1>7, <1>8, <1>9, WriteFacts DEF Address
<1>11. Held(heap', ch, vl, st, {q}, NULL)
  BY <1>6, <1>10, HeldChanged
<1>12. Turned(heap', ch, vl, st, {q}, 0)
  BY <1>11, TurnedStart
<1>13. q \in DOMAIN heap' /\ heap'[q] = Queue(ch[1], ch[1], Len(ch))
  BY <1>2, <1>10 DEF Changed
<1>14. heap'[q].head = ch[1] /\ heap'[q].tail = ch[1] /\ heap'[q].kind = "queue"
  BY <1>13, QueueFields
<1>15. heap'[q] \in QueueCells
  BY <1>10, <1>13, <1>14, NewHere DEF HeapTyped
<1>16. loc' \in LocalTypes /\ loc'.ptr = ch[1] /\ loc'.aux = NULL
  BY <1>2, <1>8, <1>9, LocalFields, LocalsKept DEF Address
<1>17. ShapeOf(ch, vl, st)'
  <2>1. 0 \in 0 .. Len(ch) /\ 0 # Len(ch) /\ 0 + 1 = 1 /\ Len(ch) >= 1
    BY <1>8
  <2>2. PICK k : k = 0
    OBVIOUS
  <2>3. /\ op' = "reverse" /\ qcnt' = Len(ch)
        /\ k \in 0 .. Len(ch) /\ Turned(heap', ch, vl, st, {q'}, k)
        /\ heap'[q'] = Queue(heap'[q'].head, heap'[q'].tail, Len(ch))
        /\ heap'[q'].tail = ch[1]
        /\ loc'.aux = IF k = 0 THEN NULL ELSE ch[k]
        /\ loc'.ptr = IF k = Len(ch) THEN NULL ELSE ch[k + 1]
    BY <1>2, <1>4, <1>12, <1>13, <1>14, <1>16, <2>1, <2>2 DEF LibSame
  <2>4. QED
    BY <2>1, <2>3, LoopOnly
<1>18. HeapInv' /\ IsList(st)'
  BY <1>1, <1>10, <1>13, <1>15, <1>16, <1>17, ReverseStep
<1>19. IsList(st)
  BY <1>3 DEF IsList
<1>20. QED
  BY <1>18, <1>19 DEF Keeps

\* What the loop of q_reverse finds after k elements.
LEMMA LoopFacts ==
    ASSUME HeapInv, ModesInv, pc = "reverse.loop"
    PROVE  \E ch, vl, st, k :
              /\ ShapeOf(ch, vl, st)
              /\ k \in 0 .. Len(ch) /\ Turned(heap, ch, vl, st, {q}, k)
              /\ heap[q] = Queue(heap[q].head, ch[1], Len(ch))
              /\ Len(ch) \in Nat /\ Len(ch) >= 1 /\ qcnt = Len(ch)
              /\ loc.aux = IF k = 0 THEN NULL ELSE ch[k]
              /\ loc.ptr = IF k = Len(ch) THEN NULL ELSE ch[k + 1]
              /\ \A i \in 1 .. Len(ch) : ch[i] \in Block /\ vl[i] \in Block
<1>1. Shape /\ q # NULL
  BY ReverseFacts DEF AtReverse
<1>2. PICK ch, vl, st : ShapeOf(ch, vl, st)
  BY <1>1 DEF Shape
<1>3. PICK k \in 0 .. Len(ch) :
         /\ Turned(heap, ch, vl, st, {q}, k)
         /\ heap[q] = Queue(heap[q].head, heap[q].tail, Len(ch))
         /\ Len(ch) >= 1 /\ heap[q].tail = ch[1] /\ qcnt = Len(ch)
         /\ loc.aux = IF k = 0 THEN NULL ELSE ch[k]
         /\ loc.ptr = IF k = Len(ch) THEN NULL ELSE ch[k + 1]
  BY <1>2 DEF ShapeOf, OtherShape
<1>4. /\ Len(ch) \in Nat
      /\ \A i \in 1 .. Len(ch) : ch[i] \in Block /\ vl[i] \in Block
  BY <1>3, ListLength DEF Turned
<1>5. heap[q] = Queue(heap[q].head, ch[1], Len(ch))
  BY <1>3
<1>6. QED
  BY <1>2, <1>3, <1>4, <1>5

LEMMA TurnStep ==
    ASSUME HeapInv, ModesInv, LibSame, TurnElement
    PROVE  HeapInv' /\ Keeps
<1>1. /\ pc = "reverse.loop" /\ loc.ptr # NULL /\ q' = q /\ pc' = pc
      /\ heap' = [heap EXCEPT ![loc.ptr].next = loc.aux]
      /\ loc' = [loc EXCEPT !.aux = loc.ptr, !.ptr = heap[loc.ptr].next]
  BY DEF TurnElement
<1>2. pc \in AtReverse
  BY <1>1 DEF AtReverse
<1>3. /\ op = "reverse" /\ HeapTyped(heap) /\ loc \in LocalTypes
      /\ q # NULL /\ q \in DOMAIN heap /\ heap[q] \in QueueCells
  BY <1>1, <1>2, ReverseFacts
<1>4. PICK ch, vl, st, k :
         /\ ShapeOf(ch, vl, st)
         /\ k \in 0 .. Len(ch) /\ Turned(heap, ch, vl, st, {q}, k)
         /\ heap[q] = Queue(heap[q].head, ch[1], Len(ch))
         /\ Len(ch) \in Nat /\ Len(ch) >= 1 /\ qcnt = Len(ch)
         /\ loc.aux = IF k = 0 THEN NULL ELSE ch[k]
         /\ loc.ptr = IF k = Len(ch) THEN NULL ELSE ch[k + 1]
         /\ \A i \in 1 .. Len(ch) : ch[i] \in Block /\ vl[i] \in Block
  BY <1>1, LoopFacts
<1>5. /\ k \in Nat /\ k < Len(ch) /\ k + 1 \in 1 .. Len(ch) /\ k + 1 \in 0 .. Len(ch)
      /\ k + 1 # 0 /\ ~(k + 1 <= k)
  BY <1>1, <1>4
<1>6. PICK p, v, a, nx : /\ p = ch[k + 1] /\ v = vl[k + 1]
                         /\ a = (IF k = 0 THEN NULL ELSE ch[k])
                         /\ nx = NextOf(ch, k + 1, NULL)
  OBVIOUS
<1>7. p = loc.ptr /\ a = loc.aux /\ p \in Block /\ v \in Block
  BY <1>4, <1>5, <1>6
<1>8. /\ heap[p] = Element(v, nx)
      /\ p \in DOMAIN heap /\ p # q
  <2>1. heap[ch[k + 1]] = Element(vl[k + 1], TurnedNext(ch, k + 1, k))
    BY <1>4, <1>5 DEF Turned
  <2>2. TurnedNext(ch, k + 1, k) = NextOf(ch, k + 1, NULL)
    BY <1>5 DEF TurnedNext
  <2>3. ch[k + 1] \in DOMAIN heap /\ ch[k + 1] # q
    BY <1>4, <1>5 DEF Turned, Extent, Apart
  <2>4. QED
    BY <1>6, <2>1, <2>2, <2>3
<1>9. heap[p].next = nx
  BY <1>8, QueueFields
<1>10. heap' = [heap EXCEPT ![p] = Element(v, a)]
  <2>1. heap' = [heap EXCEPT ![p] = [heap[p] EXCEPT !.next = a]]
    BY <1>1, <1>7
  <2>2. [Element(v, nx) EXCEPT !.next = a] = Element(v, a)
    BY ElementWritten
  <2>3. QED
    BY <1>8, <2>1, <2>2
<1>11. HeapTyped(heap') /\ Changed(heap, heap', p, Element(v, a))
  <2>1. a \in Address
    BY <1>3, <1>7, LocalFields
  <2>2. Element(v, a) \in Cells
    BY <1>7, <2>1, CellTypes DEF Cells, Address
  <2>3. QED
    BY <1>3, <1>8, <1>10, <2>2, ChangedFacts
<1>12. Turned(heap', ch, vl, st, {q}, k + 1)
  BY <1>4, <1>5, <1>6, <1>11, TurnedMore DEF Changed
<1>13. q \in DOMAIN heap' /\ heap'[q] = heap[q]
  BY <1>3, <1>8, <1>11 DEF Changed
<1>14. nx = IF k + 1 = Len(ch) THEN NULL ELSE ch[(k + 1) + 1]
  BY <1>6 DEF NextOf
<1>15. nx \in Address
  <2>1. CASE k + 1 = Len(ch)
    BY <1>14, <2>1 DEF Address
  <2>2. CASE k + 1 # Len(ch)
    <3>1. (k + 1) + 1 \in 1 .. Len(ch)
      BY <1>4, <1>5, <2>2
    <3>2. QED
      BY <1>4, <1>14, <2>2, <3>1 DEF Address
  <2>3. QED
    BY <2>1, <2>2
<1>16. loc' = [[loc EXCEPT !.aux = p] EXCEPT !.ptr = nx]
  BY <1>1, <1>3, <1>7, <1>9 DEF LocalTypes
<1>17. loc' \in LocalTypes /\ loc'.aux = p /\ loc'.ptr = nx
  BY <1>3, <1>7, <1>15, <1>16 DEF LocalTypes, Address
<1>18. ShapeOf(ch, vl, st)'
  <2>1. PICK m : m = k + 1
    OBVIOUS
  <2>2. heap[q].tail = ch[1]
    BY <1>4, QueueFields
  <2>3. /\ pc' = "reverse.loop" /\ op' = "reverse" /\ qcnt' = Len(ch) /\ Len(ch) >= 1
        /\ m \in 0 .. Len(ch) /\ Turned(heap', ch, vl, st, {q'}, m)
        /\ heap'[q'] = Queue(heap'[q'].head, heap'[q'].tail, Len(ch))
        /\ heap'[q'].tail = ch[1]
        /\ loc'.aux = IF m = 0 THEN NULL ELSE ch[m]
        /\ loc'.ptr = IF m = Len(ch) THEN NULL ELSE ch[m + 1]
    BY <1>1, <1>3, <1>4, <1>5, <1>6, <1>12, <1>13, <1>14, <1>17, <2>1, <2>2 DEF LibSame
  <2>4. QED
    BY <2>3, LoopOnly
<1>19. HeapInv' /\ IsList(st)'
  BY <1>1, <1>2, <1>3, <1>11, <1>13, <1>17, <1>18, ReverseStep
<1>20. IsList(st)
  BY <1>4 DEF IsList
<1>21. QED
  BY <1>19, <1>20 DEF Keeps

LEMMA StoreTurned ==
    ASSUME HeapInv, ModesInv, LibSame, pc = "reverse.loop", loc.ptr = NULL,
           WriteHead(loc.aux), pc' = "cancel", q' = q, loc' = loc
    PROVE  HeapInv' /\ Reverses
<1>1. pc \in AtReverse
  BY DEF AtReverse
<1>2. /\ op = "reverse" /\ HeapTyped(heap) /\ loc \in LocalTypes
      /\ q # NULL /\ q \in DOMAIN heap /\ heap[q] \in QueueCells
  BY <1>1, ReverseFacts
<1>3. PICK ch, vl, st, k :
         /\ ShapeOf(ch, vl, st)
         /\ k \in 0 .. Len(ch) /\ Turned(heap, ch, vl, st, {q}, k)
         /\ heap[q] = Queue(heap[q].head, ch[1], Len(ch))
         /\ Len(ch) \in Nat /\ Len(ch) >= 1 /\ qcnt = Len(ch)
         /\ loc.aux = IF k = 0 THEN NULL ELSE ch[k]
         /\ loc.ptr = IF k = Len(ch) THEN NULL ELSE ch[k + 1]
         /\ \A i \in 1 .. Len(ch) : ch[i] \in Block /\ vl[i] \in Block
  BY LoopFacts
<1>4. k = Len(ch)
  <2>1. SUFFICES ASSUME k # Len(ch) PROVE FALSE
    OBVIOUS
  <2>2. k + 1 \in 1 .. Len(ch)
    BY <1>3, <2>1
  <2>3. ch[k + 1] = NULL /\ ch[k + 1] \in Block
    BY <1>3, <2>1, <2>2
  <2>4. QED
    BY <2>3, BlockFinite DEF Block, NULL
<1>5. PICK c2, v2, s2 : c2 = Reverse(ch) /\ v2 = Reverse(vl) /\ s2 = Reverse(st)
  OBVIOUS
<1>6. Held(heap, c2, v2, s2, {q}, NULL)
  BY <1>3, <1>4, <1>5, TurnedEnd
<1>7. ch \in Seq(Block)
  BY <1>3 DEF Turned, Lists
<1>8. /\ Len(c2) = Len(ch)
      /\ \A i \in 1 .. Len(ch) : c2[i] = ch[Len(ch) - i + 1]
  BY <1>5, <1>7, Reversed
<1>9. c2[1] = ch[Len(ch)] /\ c2[Len(c2)] = ch[1] /\ c2 # << >>
  <2>1. 1 \in 1 .. Len(ch) /\ Len(ch) \in 1 .. Len(ch) /\ Len(ch) - 1 + 1 = Len(ch)
        /\ Len(ch) - Len(ch) + 1 = 1
    BY <1>3
  <2>2. c2[1] = ch[Len(ch)]
    BY <1>8, <2>1
  <2>3. c2[Len(c2)] = ch[1]
    BY <1>8, <2>1
  <2>4. c2 # << >>
    BY <1>3, <1>6, <1>8, ListLength DEF Held
  <2>5. QED
    BY <2>2, <2>3, <2>4
<1>10. loc.aux = c2[1] /\ loc.aux \in Address /\ FirstOf(c2, NULL) = c2[1]
  BY <1>2, <1>3, <1>4, <1>9, LocalFields DEF FirstOf
<1>11. heap[q].tail = ch[1] /\ heap[q].size = Len(ch)
  BY <1>3, QueueFields
<1>12. HeapTyped(heap') /\ Changed(heap, heap', q, Queue(c2[1], ch[1], Len(ch)))
  BY <1>2, <1>10, <1>11, WriteFacts
<1>13. Held(heap', c2, v2, s2, {q}, NULL)
  BY <1>6, <1>12, HeldChanged
<1>14. q \in DOMAIN heap' /\ heap'[q] = Queue(c2[1], ch[1], Len(ch))
  BY <1>2, <1>12 DEF Changed
<1>15. heap'[q].tail = ch[1] /\ heap'[q].kind = "queue"
  BY <1>14, QueueFields
<1>16. heap'[q] \in QueueCells
  BY <1>12, <1>14, <1>15, NewHere DEF HeapTyped
<1>17. Resting(c2, v2, s2, {}, Len(c2))'
  <2>1. {q} \cup {} = {q}
    OBVIOUS
  <2>2. QED
    BY <1>8, <1>9, <1>10, <1>13, <1>14, <1>15, <2>1 DEF Resting, TailOK
<1>18. ShapeOf(c2, v2, s2)'
  BY <1>2, <1>3, <1>8, <1>17, CancelOnly DEF LibSame, Removals
<1>19. HeapInv' /\ IsList(s2)'
  BY <1>1, <1>2, <1>12, <1>14, <1>16, <1>18, ReverseStep
<1>20. IsList(st)
  BY <1>3 DEF IsList
<1>21. QED
  BY <1>19, <1>20, <1>5 DEF Reverses

LEMMA ReversalStep ==
    ASSUME HeapInv, ModesInv, LibSame, QReverse
    PROVE  HeapInv' /\ TurnsList
<1>1. CASE pc = "reverse" /\ heap' = heap /\ q' = q /\ loc' = loc /\ pc' = "cancel"
  BY <1>1, ReverseNothing DEF TurnsList, Untouched
<1>2. CASE /\ pc = "reverse" /\ q # NULL /\ heap[q].size > 1
           /\ loc' = [loc EXCEPT !.ptr = heap[q].head] /\ WriteTail(heap[q].head)
           /\ pc' = "reverse.loop" /\ q' = q
  BY <1>2, BeginTurning DEF TurnsList
<1>3. CASE TurnElement
  BY <1>3, TurnStep DEF TurnsList, TurnElement
<1>4. CASE /\ pc = "reverse.loop" /\ loc.ptr = NULL
           /\ WriteHead(loc.aux) /\ pc' = "cancel" /\ q' = q /\ loc' = loc
  BY <1>4, StoreTurned DEF TurnsList
<1>5. QED
  BY <1>1, <1>2, <1>3, <1>4 DEF QReverse, BeginReverse, Goto

-----------------------------------------------------------------------------
(* q_free, which also works on what an exception has left.                   *)

LEMMA FreePhase ==
    ASSUME HeapInv, ModesInv, LibSame, q' = q, pc \in AtFree,
           pc' \in (AtFree \ {"free"}) \cup {"cancel"},
           pc' # "cancel" => q # NULL, DOMAIN heap' \subseteq DOMAIN heap
    PROVE  Phases'
<1>1. op \in {"free", "quit"}
  BY DEF ModesInv, OperationFits
<1>2. CommandOK'
  <2>1. pc' \in Places
    BY DEF Places
  <2>2. QED
    BY <1>1, <2>1 DEF HeapInv, CommandOK, LibSame, AtFree
<1>3. CountOK'
  BY <1>1 DEF CountOK, LibSame, Insertions
<1>4. CalmPlaces'
  BY <1>1 DEF CalmPlaces, LibSame, AtInsertion, AtRemoval, AtFree, AtReverse, Insertions,
     Removals
<1>5. QueueThere'
  BY <1>1 DEF QueueThere, LibSame, AtInsertion, AtRemoval, AtFree
<1>6. RoomForNew'
  BY <1>1 DEF HeapInv, RoomForNew, Room, LibSame
<1>7. QED
  BY <1>2, <1>3, <1>4, <1>5, <1>6 DEF Phases

LEMMA FreeOnly ==
    ASSUME pc' \in (AtFree \ {"free"}) \cup {"cancel"}, op' \in {"free", "quit"},
           NEW ch, NEW vl, NEW st, FreeShape(ch, vl, st)'
    PROVE  ShapeOf(ch, vl, st)'
<1>1. InsertShape(ch, vl, st)' /\ RemoveShape(ch, vl, st)'
  BY DEF InsertShape, RemoveShape, AtFree, AtRemoval
<1>2. OtherShape(ch, vl, st)'
  BY DEF OtherShape, AtFree
<1>3. pc' \notin Steady \cup {"setup", "free"}
  BY DEF AtFree, Steady
<1>4. QED
  BY <1>1, <1>2, <1>3 DEF ShapeOf

LEMMA FreeFacts ==
    ASSUME HeapInv, ModesInv, pc \in AtFree
    PROVE  /\ op \in {"free", "quit"} /\ pc # "exit"
           /\ HeapTyped(heap) /\ loc \in LocalTypes
           /\ q # NULL /\ pc = "free" => q \in DOMAIN heap /\ heap[q] \in QueueCells
           /\ pc # "free" => q # NULL
           /\ Calm => Shape
<1>1. op \in {"free", "quit"} /\ pc # "exit"
  BY DEF ModesInv, OperationFits, AtFree
<1>2. q # NULL /\ pc = "free" => q \in DOMAIN heap /\ heap[q] \in QueueCells
  BY DEF HeapInv, QueueThere
<1>3. pc # "free" => q # NULL
  BY DEF HeapInv, QueueThere
<1>4. Calm => Shape
  BY DEF HeapInv, Good
<1>5. QED
  BY <1>1, <1>2, <1>3, <1>4, HeapIsTyped DEF HeapInv, Typed

\* A statement of q_free; what it leaves matters if there was no alarm.
LEMMA FreeStep ==
    ASSUME HeapInv, ModesInv, LibSame, pc \in AtFree, q # NULL, q' = q,
           pc' \in (AtFree \ {"free"}) \cup {"cancel"},
           HeapTyped(heap'), DOMAIN heap' \subseteq DOMAIN heap, loc' \in LocalTypes,
           Calm => \E ch, vl, st : FreeShape(ch, vl, st)'
    PROVE  HeapInv'
<1>1. op \in {"free", "quit"} /\ pc # "exit"
  BY FreeFacts
<1>2. Good' => Shape'
  <2>1. SUFFICES ASSUME Good' PROVE Shape'
    OBVIOUS
  <2>2. Calm
    BY <1>1, <2>1 DEF Good, LibSame, Insertions, AtInsertion, AtFree, Calm
  <2>3. PICK ch, vl, st : FreeShape(ch, vl, st)'
    BY <2>2
  <2>4. ShapeOf(ch, vl, st)'
    BY <1>1, <2>3, FreeOnly DEF LibSame
  <2>5. QED
    BY <2>4 DEF Shape
<1>3. Typed'
  BY <1>1, TypedLib DEF HeapInv, Typed
<1>4. Phases'
  BY FreePhase
<1>5. QED
  BY <1>2, <1>3, <1>4 DEF HeapInv, Phases

LEMMA FreeNothing ==
    ASSUME HeapInv, ModesInv, LibSame, pc = "free", q = NULL,
           heap' = heap, q' = q, loc' = loc, pc' = "cancel"
    PROVE  HeapInv'
<1>1. pc \in AtFree
  BY DEF AtFree
<1>2. /\ op \in {"free", "quit"} /\ HeapTyped(heap) /\ loc \in LocalTypes /\ pc # "exit"
      /\ Calm => Shape
  BY <1>1, FreeFacts
<1>3. Good' => Shape'
  <2>1. SUFFICES ASSUME Good' PROVE Shape'
    OBVIOUS
  <2>2. Shape
    BY <1>2, <2>1 DEF Good, LibSame, Insertions, AtInsertion, Calm
  <2>3. NoQueueShape'
    BY <1>2, <2>2 DEF Shape, NoQueueShape, LibSame, Removals
  <2>4. QED
    BY <2>3 DEF Shape
<1>4. Typed'
  BY <1>2, TypedLib DEF HeapInv
<1>5. Phases'
  BY <1>1, FreePhase
<1>6. QED
  BY <1>3, <1>4, <1>5 DEF HeapInv, Phases

LEMMA BeginFreeing ==
    ASSUME HeapInv, ModesInv, LibSame, pc = "free", q # NULL,
           loc' = [loc EXCEPT !.ptr = heap[q].head],
           heap' = heap, q' = q, pc' = "free.next"
    PROVE  HeapInv'
<1>1. pc \in AtFree /\ pc' \in AtFree \ {"free"}
  BY DEF AtFree
<1>2. /\ op \in {"free", "quit"} /\ HeapTyped(heap) /\ loc \in LocalTypes
      /\ q \in DOMAIN heap /\ heap[q] \in QueueCells
      /\ Calm => Shape
  BY <1>1, FreeFacts
<1>3. loc' \in LocalTypes /\ loc'.ptr = heap[q].head
  BY <1>2, CellKinds, LocalFields, LocalsKept
<1>4. Calm => \E ch, vl, st : FreeShape(ch, vl, st)'
  <2>1. SUFFICES ASSUME Calm PROVE \E ch, vl, st : FreeShape(ch, vl, st)'
    OBVIOUS
  <2>2. PICK ch, vl, st : ShapeOf(ch, vl, st)
    BY <1>1, <1>2, <2>1 DEF Shape
  <2>3. Resting(ch, vl, st, {}, Len(ch))
    BY <1>2, <2>2 DEF ShapeOf, Steady
  <2>4. {q} \cup {} = {q}
    OBVIOUS
  <2>5. /\ Held(heap, ch, vl, st, {q}, NULL)
        /\ heap[q] = Queue(FirstOf(ch, NULL), heap[q].tail, Len(ch))
    BY <2>3, <2>4 DEF Resting
  <2>6. heap[q].head = FirstOf(ch, NULL)
    BY <2>5, QueueFields
  <2>7. FreeShape(ch, vl, st)'
    BY <1>3, <2>5, <2>6 DEF FreeShape
  <2>8. QED
    BY <2>7
<1>5. HeapTyped(heap') /\ DOMAIN heap' \subseteq DOMAIN heap
  BY <1>2
<1>6. QED
  BY <1>1, <1>3, <1>4, <1>5, FreeStep

\* What the loop of q_free finds if there was no alarm.
LEMMA FreeList ==
    ASSUME HeapInv, ModesInv, Calm, pc \in AtFree \ {"free"}
    PROVE  \E ch, vl, st : FreeShape(ch, vl, st)
<1>1. q # NULL /\ Shape /\ pc # "exit"
  BY FreeFacts
<1>2. QED
  BY <1>1 DEF Shape, ShapeOf

LEMMA NextToFree ==
    ASSUME HeapInv, ModesInv, LibSame, ~BadPointer, pc = "free.next", loc.ptr # NULL,
           loc' = [loc EXCEPT !.aux = heap[loc.ptr].next],
           heap' = heap, q' = q, pc' = "free.value"
    PROVE  HeapInv'
<1>1. pc \in AtFree \ {"free"} /\ pc' \in AtFree \ {"free"}
  BY DEF AtFree
<1>2. /\ op \in {"free", "quit"} /\ HeapTyped(heap) /\ loc \in LocalTypes /\ q # NULL
  BY <1>1, FreeFacts
<1>3. PICK p : p = loc.ptr
  OBVIOUS
<1>4. p \in DOMAIN heap /\ heap[p].kind = "element"
  BY <1>3 DEF BadPointer, IsElement
<1>5. heap[p].next \in Address
  BY <1>2, <1>4, CellKinds DEF HeapTyped, Cells
<1>6. loc' \in LocalTypes /\ loc'.ptr = p /\ loc'.aux = heap[p].next
  BY <1>2, <1>3, <1>5, LocalFields, LocalsKept
<1>7. Calm => \E ch, vl, st : FreeShape(ch, vl, st)'
  <2>1. SUFFICES ASSUME Calm PROVE \E ch, vl, st : FreeShape(ch, vl, st)'
    OBVIOUS
  <2>2. PICK ch, vl, st : FreeShape(ch, vl, st)
    BY <1>1, <2>1, FreeList
  <2>3. Held(heap, ch, vl, st, {q}, NULL) /\ p = FirstOf(ch, NULL)
    BY <1>3, <2>2 DEF FreeShape
  <2>4. ch # << >>
    BY <1>3, <2>3 DEF FirstOf
  <2>5. PICK S : S = {q}
    OBVIOUS
  <2>6. Held(heap, ch, vl, st, S, NULL) /\ ch # << >>
    BY <2>3, <2>4, <2>5
  <2>7. heap[ch[1]] = Element(vl[1], FirstOf(Tail(ch), NULL))
    BY <2>6, FirstElement, Zenon
  <2>8. p = ch[1]
    BY <2>3, <2>4 DEF FirstOf
  <2>9. heap[p].next = FirstOf(Tail(ch), NULL)
    BY <2>7, <2>8, QueueFields
  <2>10. FreeShape(ch, vl, st)'
    BY <1>6, <2>3, <2>4, <2>9 DEF FreeShape
  <2>11. QED
    BY <2>10
<1>8. HeapTyped(heap') /\ DOMAIN heap' \subseteq DOMAIN heap
  BY <1>2
<1>9. QED
  BY <1>1, <1>2, <1>6, <1>7, <1>8, FreeStep

LEMMA AllFreed ==
    ASSUME HeapInv, ModesInv, LibSame, pc = "free.next", loc.ptr = NULL,
           loc' = loc, heap' = heap, q' = q, pc' = "free.queue"
    PROVE  HeapInv'
<1>1. pc \in AtFree \ {"free"} /\ pc' \in AtFree \ {"free"}
  BY DEF AtFree
<1>2. /\ op \in {"free", "quit"} /\ HeapTyped(heap) /\ loc \in LocalTypes /\ q # NULL
  BY <1>1, FreeFacts
<1>3. Calm => \E ch, vl, st : FreeShape(ch, vl, st)'
  <2>1. SUFFICES ASSUME Calm PROVE \E ch, vl, st : FreeShape(ch, vl, st)'
    OBVIOUS
  <2>2. PICK ch, vl, st : FreeShape(ch, vl, st)
    BY <1>1, <2>1, FreeList
  <2>3. Held(heap, ch, vl, st, {q}, NULL) /\ FirstOf(ch, NULL) = NULL
    BY <2>2 DEF FreeShape
  <2>4. Lists(ch, vl, st) /\ Extent(heap, ch, vl, {q})
    BY <2>3 DEF Held
  <2>5. ch = << >>
    <3>1. SUFFICES ASSUME ch # << >> PROVE FALSE
      OBVIOUS
    <3>2. ch[1] \in Block
      BY <2>4, <3>1, ListLength
    <3>3. ch[1] = NULL
      BY <2>3, <3>1 DEF FirstOf
    <3>4. QED
      BY <3>2, <3>3, BlockFinite DEF Block, NULL
  <2>6. Len(ch) = 0 /\ 1 .. 0 = {}
    BY <2>5
  <2>7. DOMAIN heap = {q}
    BY <2>4, <2>6 DEF Extent
  <2>8. FreeShape(ch, vl, st)'
    BY <2>7 DEF FreeShape
  <2>9. QED
    BY <2>8
<1>4. HeapTyped(heap') /\ DOMAIN heap' \subseteq DOMAIN heap
  BY <1>2
<1>5. QED
  BY <1>1, <1>2, <1>3, <1>4, FreeStep

LEMMA FreeValue ==
    ASSUME HeapInv, ModesInv, LibSame, pc = "free.value",
           heap' = Without(heap[loc.ptr].value),
           q' = q, loc' = loc, pc' = "free.element"
    PROVE  HeapInv'
<1>1. pc \in AtFree \ {"free"} /\ pc' \in AtFree \ {"free"}
  BY DEF AtFree
<1>2. /\ op \in {"free", "quit"} /\ HeapTyped(heap) /\ loc \in LocalTypes /\ q # NULL
  BY <1>1, FreeFacts
<1>3. PICK p, v : p = loc.ptr /\ v = heap[p].value
  OBVIOUS
<1>4. HeapTyped(heap') /\ Removed(heap, heap', v)
  BY <1>2, <1>3, WithoutFacts
<1>5. Calm => \E ch, vl, st : FreeShape(ch, vl, st)'
  <2>1. SUFFICES ASSUME Calm PROVE \E ch, vl, st : FreeShape(ch, vl, st)'
    OBVIOUS
  <2>2. PICK ch, vl, st : FreeShape(ch, vl, st)
    BY <1>1, <2>1, FreeList
  <2>3. /\ Held(heap, ch, vl, st, {q}, NULL) /\ p = FirstOf(ch, NULL)
        /\ ch # << >> /\ loc.aux = FirstOf(Tail(ch), NULL)
    BY <1>3, <2>2 DEF FreeShape
  <2>4. PICK S : S = {q}
    OBVIOUS
  <2>5. Held(heap, ch, vl, st, S, NULL) /\ ch # << >>
    BY <2>3, <2>4
  <2>6. /\ Held(heap, Tail(ch), Tail(vl), Tail(st), S \cup {ch[1], vl[1]}, NULL)
        /\ heap[ch[1]] = Element(vl[1], FirstOf(Tail(ch), NULL))
        /\ heap[vl[1]] = StringOf(st[1])
        /\ ch[1] \in Block /\ vl[1] \in Block /\ st[1] \in Str
        /\ ch[1] # vl[1] /\ ch[1] \notin S /\ vl[1] \notin S
        /\ ch[1] \in DOMAIN heap /\ vl[1] \in DOMAIN heap
        /\ Len(Tail(ch)) = Len(ch) - 1
    BY <2>5, FirstElement, Zenon
  <2>7. p = ch[1]
    BY <2>3 DEF FirstOf
  <2>8. heap[ch[1]].value = vl[1] /\ heap[ch[1]].kind = "element"
    BY <2>6, QueueFields
  <2>9. v = vl[1] /\ heap[p].kind = "element"
    BY <1>3, <2>7, <2>8
  <2>10. PICK c2, v2, s2 : c2 = Tail(ch) /\ v2 = Tail(vl) /\ s2 = Tail(st)
    OBVIOUS
  <2>11. Held(heap, c2, v2, s2, {q, p} \cup {v}, NULL)
    <3>1. S \cup {ch[1], vl[1]} = {q, p} \cup {v}
      BY <2>4, <2>7, <2>9
    <3>2. QED
      BY <2>6, <2>10, <3>1
  <2>12. v \notin {q, p} /\ p # q /\ p \in Block /\ p \in DOMAIN heap
    BY <2>4, <2>6, <2>7, <2>9
  <2>13. Held(heap', c2, v2, s2, {q, p}, NULL)
    <3>1. PICK T : T = {q, p}
      OBVIOUS
    <3>2. Held(heap, c2, v2, s2, T \cup {v}, NULL) /\ v \notin T
      BY <2>11, <2>12, <3>1
    <3>3. Held(heap', c2, v2, s2, T, NULL)
      BY <1>4, <3>2, HeldRemoved
    <3>4. QED
      BY <3>1, <3>3
  <2>14. heap'[p].kind = "element"
    BY <1>4, <2>9, <2>12 DEF Removed
  <2>15. FreeShape(c2, v2, s2)'
    BY <1>3, <2>3, <2>10, <2>12, <2>13, <2>14 DEF FreeShape
  <2>16. QED
    BY <2>15
<1>6. DOMAIN heap' \subseteq DOMAIN heap
  BY <1>4 DEF Removed
<1>7. QED
  BY <1>1, <1>2, <1>4, <1>5, <1>6, FreeStep

LEMMA FreeElement ==
    ASSUME HeapInv, ModesInv, LibSame, pc = "free.element",
           heap' = Without(loc.ptr), loc' = [loc EXCEPT !.ptr = loc.aux],
           q' = q, pc' = "free.next"
    PROVE  HeapInv'
<1>1. pc \in AtFree \ {"free"} /\ pc' \in AtFree \ {"free"}
  BY DEF AtFree
<1>2. /\ op \in {"free", "quit"} /\ HeapTyped(heap) /\ loc \in LocalTypes /\ q # NULL
  BY <1>1, FreeFacts
<1>3. PICK p : p = loc.ptr
  OBVIOUS
<1>4. HeapTyped(heap') /\ Removed(heap, heap', p)
  BY <1>2, <1>3, WithoutFacts
<1>5. loc' \in LocalTypes /\ loc'.ptr = loc.aux
  BY <1>2, LocalFields, LocalsKept
<1>6. Calm => \E ch, vl, st : FreeShape(ch, vl, st)'
  <2>1. SUFFICES ASSUME Calm PROVE \E ch, vl, st : FreeShape(ch, vl, st)'
    OBVIOUS
  <2>2. PICK ch, vl, st : FreeShape(ch, vl, st)
    BY <1>1, <2>1, FreeList
  <2>3. /\ Held(heap, ch, vl, st, {q, p}, NULL) /\ p # q
        /\ loc.aux = FirstOf(ch, NULL)
    BY <1>3, <2>2 DEF FreeShape
  <2>4. Held(heap', ch, vl, st, {q}, NULL)
    <3>1. PICK T : T = {q}
      OBVIOUS
    <3>2. T \cup {p} = {q, p} /\ p \notin T
      BY <2>3, <3>1
    <3>3. Held(heap, ch, vl, st, T \cup {p}, NULL)
      BY <2>3, <3>2
    <3>4. Held(heap', ch, vl, st, T, NULL)
      BY <1>4, <3>2, <3>3, HeldRemoved
    <3>5. QED
      BY <3>1, <3>4
  <2>5. FreeShape(ch, vl, st)'
    BY <1>5, <2>3, <2>4 DEF FreeShape
  <2>6. QED
    BY <2>5
<1>7. DOMAIN heap' \subseteq DOMAIN heap
  BY <1>4 DEF Removed
<1>8. QED
  BY <1>1, <1>2, <1>4, <1>5, <1>6, <1>7, FreeStep

LEMMA FreeQueue ==
    ASSUME HeapInv, ModesInv, LibSame, pc = "free.queue",
           heap' = Without(q), loc' = loc, q' = q, pc' = "cancel"
    PROVE  HeapInv'
<1>1. pc \in AtFree \ {"free"}
  BY DEF AtFree
<1>2. /\ op \in {"free", "quit"} /\ HeapTyped(heap) /\ loc \in LocalTypes /\ q # NULL
  BY <1>1, FreeFacts
<1>3. PICK b : b = q
  OBVIOUS
<1>4. HeapTyped(heap') /\ Removed(heap, heap', b)
  BY <1>2, <1>3, WithoutFacts
<1>5. Calm => \E ch, vl, st : FreeShape(ch, vl, st)'
  <2>1. SUFFICES ASSUME Calm PROVE \E ch, vl, st : FreeShape(ch, vl, st)'
    OBVIOUS
  <2>2. PICK ch, vl, st : FreeShape(ch, vl, st)
    BY <1>1, <2>1, FreeList
  <2>3. DOMAIN heap = {b}
    BY <1>3, <2>2 DEF FreeShape
  <2>4. DOMAIN heap' = {}
    BY <1>4, <2>3 DEF Removed
  <2>5. FreeShape(ch, vl, st)'
    BY <2>4 DEF FreeShape
  <2>6. QED
    BY <2>5
<1>6. DOMAIN heap' \subseteq DOMAIN heap
  BY <1>4 DEF Removed
<1>7. QED
  BY <1>1, <1>2, <1>4, <1>5, <1>6, FreeStep

LEMMA FreeingStep ==
    ASSUME HeapInv, ModesInv, LibSame, ~BadPointer, QFree
    PROVE  HeapInv'
<1>1. CASE pc = "free" /\ q = NULL /\ pc' = "cancel" /\ loc' = loc /\ heap' = heap /\ q' = q
  BY <1>1, FreeNothing
<1>2. CASE /\ pc = "free" /\ q # NULL /\ pc' = "free.next" /\ heap' = heap /\ q' = q
           /\ loc' = [loc EXCEPT !.ptr = heap[q].head]
  BY <1>2, BeginFreeing
<1>3. CASE /\ pc = "free.next" /\ loc.ptr = NULL /\ pc' = "free.queue"
           /\ loc' = loc /\ heap' = heap /\ q' = q
  BY <1>3, AllFreed
<1>4. CASE /\ pc = "free.next" /\ loc.ptr # NULL /\ pc' = "free.value"
           /\ loc' = [loc EXCEPT !.aux = heap[loc.ptr].next] /\ heap' = heap /\ q' = q
  BY <1>4, NextToFree
<1>5. CASE /\ pc = "free.value" /\ heap' = Without(heap[loc.ptr].value)
           /\ pc' = "free.element" /\ q' = q /\ loc' = loc
  BY <1>5, FreeValue
<1>6. CASE /\ pc = "free.element" /\ heap' = Without(loc.ptr)
           /\ loc' = [loc EXCEPT !.ptr = loc.aux] /\ pc' = "free.next" /\ q' = q
  BY <1>6, FreeElement
<1>7. CASE /\ pc = "free.queue" /\ heap' = Without(q) /\ pc' = "cancel"
           /\ q' = q /\ loc' = loc
  BY <1>7, FreeQueue
<1>8. QED
  BY <1>1, <1>2, <1>3, <1>4, <1>5, <1>6, <1>7 DEF QFree, Goto, memory

-----------------------------------------------------------------------------
(* q_new.                                                                    *)

LEMMA NewFacts ==
    ASSUME HeapInv, ModesInv, pc \in AtNew
    PROVE  /\ op = "new" /\ q = NULL /\ pc # "exit"
           /\ HeapTyped(heap) /\ loc \in LocalTypes
           /\ pc = "new" => Room
           /\ Calm => NoQueueShape
           /\ pc = "new.ret" => /\ loc.ptr \in Block /\ loc.ptr \in DOMAIN heap
                                /\ heap[loc.ptr] \in QueueCells
<1>1. op = "new" /\ pc # "exit"
  BY DEF ModesInv, OperationFits, AtNew
<1>2. q = NULL
  BY <1>1 DEF HeapInv, QueueThere, AtNew
<1>3. pc = "new" => Room
  BY <1>1 DEF HeapInv, RoomForNew
<1>4. Calm => NoQueueShape
  BY <1>1, <1>2 DEF HeapInv, Good, Shape
<1>5. pc = "new.ret" => /\ loc.ptr \in Block /\ loc.ptr \in DOMAIN heap
                        /\ heap[loc.ptr] \in QueueCells
  BY DEF HeapInv, QueueThere
<1>6. QED
  BY <1>1, <1>2, <1>3, <1>4, <1>5, HeapIsTyped DEF HeapInv, Typed

LEMMA NewPhase ==
    ASSUME HeapInv, ModesInv, LibSame, pc \in AtNew, pc' \in {"new.ret", "cancel"},
           pc' = "new.ret" => /\ q' = NULL /\ loc'.ptr \in Block /\ loc'.ptr \in DOMAIN heap'
                              /\ heap'[loc'.ptr] \in QueueCells,
           q' # NULL => q' \in DOMAIN heap' /\ heap'[q'] \in QueueCells
    PROVE  Phases'
<1>1. op = "new"
  BY DEF ModesInv, OperationFits
<1>2. CommandOK'
  <2>1. pc' \in Places
    BY DEF Places, AtNew
  <2>2. QED
    BY <1>1, <2>1 DEF HeapInv, CommandOK, LibSame, AtNew
<1>3. CountOK'
  BY <1>1 DEF CountOK, LibSame, Insertions
<1>4. CalmPlaces'
  BY <1>1 DEF CalmPlaces, LibSame, AtInsertion, AtRemoval, AtReverse, Insertions, Removals
<1>5. QueueThere'
  BY <1>1 DEF QueueThere, LibSame, AtInsertion, AtRemoval, AtFree
<1>6. RoomForNew'
  BY <1>1 DEF RoomForNew, LibSame
<1>7. QED
  BY <1>2, <1>3, <1>4, <1>5, <1>6 DEF Phases

LEMMA MakeQueue ==
    ASSUME HeapInv, ModesInv, LibSame, pc = "new",
           heap' = With(FreeBlock, [kind |-> "queue", head |-> NULL,
                                    tail |-> NULL, size |-> 0]),
           loc' = [loc EXCEPT !.ptr = FreeBlock], pc' = "new.ret", q' = q
    PROVE  HeapInv'
<1>1. pc \in AtNew
  BY DEF AtNew
<1>2. /\ op = "new" /\ q = NULL /\ pc # "exit"
      /\ HeapTyped(heap) /\ loc \in LocalTypes /\ Room
      /\ Calm => NoQueueShape
  BY <1>1, NewFacts
<1>3. PICK b : b = FreeBlock
  OBVIOUS
<1>4. b \in Block /\ b \notin DOMAIN heap
  BY <1>2, <1>3, FreeBlockFacts
<1>5. heap' = With(b, Queue(NULL, NULL, 0))
  BY <1>3 DEF Queue
<1>6. Queue(NULL, NULL, 0) \in QueueCells
  <2>1. 0 \in 0 .. MaxLen /\ NULL \in Address
    BY BlockFinite DEF Address
  <2>2. QED
    BY <2>1, CellTypes
<1>7. HeapTyped(heap') /\ Added(heap, heap', b, Queue(NULL, NULL, 0))
  BY <1>2, <1>4, <1>5, <1>6, WithFacts DEF Cells
<1>8. loc' \in LocalTypes /\ loc'.ptr = b
  BY <1>2, <1>3, <1>4, LocalFields, LocalsKept DEF Address
<1>9. b \in DOMAIN heap' /\ heap'[b] = Queue(NULL, NULL, 0)
  BY <1>7 DEF Added
<1>10. Good' => Shape'
  <2>1. SUFFICES ASSUME Good' PROVE Shape'
    OBVIOUS
  <2>2. NoQueueShape
    BY <1>2, <2>1 DEF Good, LibSame, Insertions, AtInsertion, Calm
  <2>3. DOMAIN heap' = {b} /\ qcnt = 0
    BY <1>7, <2>2 DEF Added, NoQueueShape
  <2>4. NoQueueShape'
    BY <1>8, <1>9, <2>3 DEF NoQueueShape, LibSame
  <2>5. QED
    BY <1>2, <2>4 DEF Shape
<1>11. Typed'
  BY <1>2, <1>7, <1>8, TypedLib DEF HeapInv
<1>12. Phases'
  BY <1>1, <1>2, <1>4, <1>6, <1>8, <1>9, NewPhase
<1>13. QED
  BY <1>10, <1>11, <1>12 DEF HeapInv, Phases

LEMMA MakeNothing ==
    ASSUME HeapInv, ModesInv, LibSame, pc = "new", Returns(FALSE), heap' = heap, q' = q
    PROVE  HeapInv'
<1>1. pc \in AtNew
  BY DEF AtNew
<1>2. /\ op = "new" /\ q = NULL /\ pc # "exit"
      /\ HeapTyped(heap) /\ loc \in LocalTypes
      /\ Calm => NoQueueShape
  BY <1>1, NewFacts
<1>3. pc' = "cancel" /\ loc' = [loc EXCEPT !.rval = FALSE]
  BY <1>2 DEF Returns, Goto
<1>4. loc' \in LocalTypes /\ loc'.rval = FALSE
  BY <1>2, <1>3, LocalFields, LocalsKept
<1>5. Good' => Shape'
  <2>1. SUFFICES ASSUME Good' PROVE Shape'
    OBVIOUS
  <2>2. NoQueueShape
    BY <1>2, <1>3, <2>1 DEF Good, LibSame, Insertions, AtInsertion, Calm
  <2>3. NoQueueShape'
    BY <1>3, <1>4, <2>2 DEF NoQueueShape, LibSame
  <2>4. QED
    BY <1>2, <2>3 DEF Shape
<1>6. Typed'
  BY <1>2, <1>4, TypedLib DEF HeapInv
<1>7. Phases'
  BY <1>1, <1>2, <1>3, NewPhase
<1>8. QED
  BY <1>5, <1>6, <1>7 DEF HeapInv, Phases

LEMMA KeepQueue ==
    ASSUME HeapInv, ModesInv, LibSame, pc = "new.ret", q' = loc.ptr,
           Returns(TRUE), heap' = heap
    PROVE  HeapInv'
<1>1. pc \in AtNew
  BY DEF AtNew
<1>2. /\ op = "new" /\ q = NULL /\ pc # "exit"
      /\ HeapTyped(heap) /\ loc \in LocalTypes
      /\ Calm => NoQueueShape
      /\ loc.ptr \in Block /\ loc.ptr \in DOMAIN heap /\ heap[loc.ptr] \in QueueCells
  BY <1>1, NewFacts
<1>3. pc' = "cancel" /\ loc' = [loc EXCEPT !.rval = TRUE]
  BY <1>2 DEF Returns, Goto
<1>4. loc' \in LocalTypes
  BY <1>2, <1>3, LocalFields
<1>5. q' # NULL /\ q' \in Block /\ q' \in DOMAIN heap' /\ heap'[q'] \in QueueCells
  BY <1>2, BlockFinite DEF Block, NULL
<1>6. Good' => Shape'
  <2>1. SUFFICES ASSUME Good' PROVE Shape'
    OBVIOUS
  <2>2. NoQueueShape
    BY <1>2, <1>3, <2>1 DEF Good, LibSame, Insertions, AtInsertion, Calm
  <2>3. DOMAIN heap = {loc.ptr} /\ heap[loc.ptr] = Queue(NULL, NULL, 0) /\ qcnt = 0
    BY <2>2 DEF NoQueueShape
  <2>4. PICK S : S = {loc.ptr}
    OBVIOUS
  <2>5. Held(heap, << >>, << >>, << >>, S, NULL)
    BY <2>3, <2>4, EmptyHeld
  <2>6. heap[loc.ptr].tail = NULL /\ Len(<< >>) = 0
    BY <2>3, QueueFields
  <2>7. {loc.ptr} \cup {} = {loc.ptr}
    OBVIOUS
  <2>8. PICK c : c = << >>
    OBVIOUS
  <2>9. Resting(c, c, c, {}, Len(c))'
    BY <2>3, <2>4, <2>5, <2>6, <2>7, <2>8 DEF Resting, TailOK, FirstOf
  <2>10. ShapeOf(c, c, c)'
    BY <1>2, <1>3, <2>3, <2>6, <2>8, <2>9, CancelOnly DEF LibSame, Removals
  <2>11. QED
    BY <1>5, <2>10 DEF Shape
<1>7. Typed'
  BY <1>2, <1>4, <1>5, TypedLib DEF HeapInv
<1>8. Phases'
  BY <1>1, <1>3, <1>5, NewPhase
<1>9. QED
  BY <1>6, <1>7, <1>8 DEF HeapInv, Phases

LEMMA NewQueueStep ==
    ASSUME HeapInv, ModesInv, LibSame, QNew
    PROVE  HeapInv'
<1>1. CASE /\ pc = "new"
           /\ heap' = With(FreeBlock, [kind |-> "queue", head |-> NULL,
                                       tail |-> NULL, size |-> 0])
           /\ loc' = [loc EXCEPT !.ptr = FreeBlock] /\ pc' = "new.ret" /\ q' = q
  BY <1>1, MakeQueue
<1>2. CASE pc = "new" /\ Returns(FALSE) /\ heap' = heap /\ q' = q
  BY <1>2, MakeNothing
<1>3. CASE pc = "new.ret" /\ q' = loc.ptr /\ Returns(TRUE) /\ heap' = heap
  BY <1>3, KeepQueue
<1>4. QED
  BY <1>1, <1>2, <1>3 DEF QNew, Goto, memory

\* Every statement of queue.c.
LEMMA LibraryStep ==
    ASSUME HeapInv, ModesInv, ~BadPointer, Library
    PROVE  HeapInv'
<1>1. LibSame
  BY LibraryLeaves
<1>2. CASE NewElement \/ QInsertHead \/ QInsertTail
  BY <1>1, <1>2, InsertionStep
<1>3. CASE QRemoveHead
  BY <1>1, <1>3, RemovalStep
<1>4. CASE QSize
  BY <1>1, <1>4, SizeStep
<1>5. CASE QReverse
  BY <1>1, <1>5, ReversalStep
<1>6. CASE QFree
  BY <1>1, <1>6, FreeingStep
<1>7. CASE QNew
  BY <1>1, <1>7, NewQueueStep
<1>8. QED
  BY <1>2, <1>3, <1>4, <1>5, <1>6, <1>7 DEF Library

-----------------------------------------------------------------------------
(***************************************************************************)
(* The statements of qtest.c.                                              *)
(***************************************************************************)
\* Those of them that go from one place where the list is at rest to another.
Looking == {"setup", "loop", "insert", "check"}

LEMMA SteadyKept ==
    ASSUME Shape, pc \in Steady, op # "quit", heap' = heap, q' = q, qcnt' = qcnt,
           pc' \in Steady \ {"show.loop", "remove.head"}, op' # "quit",
           op' = "ih" /\ pc' \in Looking =>
               loc'.aux = NULL \/ (op = "ih" /\ pc \in Looking /\ loc'.aux = loc.aux),
           pc' = "after" /\ op' = "free" => q = NULL
    PROVE  Shape'
<1>1. pc # "exit" /\ pc # "new.ret" /\ pc' # "new.ret" /\ pc' # "cancel"
  BY DEF Steady
<1>2. CASE q = NULL
  <2>1. NoQueueShape'
    BY <1>1, <1>2 DEF Shape, NoQueueShape
  <2>2. QED
    BY <1>2, <2>1 DEF Shape
<1>3. CASE q # NULL
  <2>1. PICK ch, vl, st : ShapeOf(ch, vl, st)
    BY <1>1, <1>3 DEF Shape
  <2>2. Resting(ch, vl, st, {}, Len(ch)) /\ qcnt = Len(ch) /\ InsertShape(ch, vl, st)
    BY <2>1 DEF ShapeOf
  <2>3. Resting(ch, vl, st, {}, Len(ch))' /\ qcnt' = Len(ch)
    BY <2>2 DEF Resting
  <2>4. InsertShape(ch, vl, st)'
    <3>1. op = "ih" /\ pc \in Looking =>
              loc.aux = NULL \/ \E i \in 1 .. Len(ch) : loc.aux = vl[i]
      BY <2>2 DEF InsertShape, Looking
    <3>2. QED
      BY <3>1 DEF InsertShape, Steady, Looking
  <2>5. RemoveShape(ch, vl, st)'
    BY DEF RemoveShape, AtRemoval, Steady
  <2>6. FreeShape(ch, vl, st)' /\ OtherShape(ch, vl, st)'
    BY <1>3 DEF FreeShape, OtherShape, Steady
  <2>7. ShapeOf(ch, vl, st)'
    BY <2>3, <2>4, <2>5, <2>6 DEF ShapeOf
  <2>8. QED
    BY <1>3, <2>7 DEF Shape
<1>4. QED
  BY <1>2, <1>3

LEMMA CommandTypes ==
    \A c \in Command : /\ c.n \in Nat /\ c.n >= 1
                       /\ c.op \in Operations \ {"none", "quit"}
                       /\ c.op \in Insertions => c.str \in Str
<1>1. MaxReps \in Nat /\ MaxReps >= 1
  BY TesterAssumption
<1>2. QED
  BY <1>1, CommandOps DEF Command, Insertions

LEMMA SetupStep ==
    ASSUME HeapInv, ModesInv, ExceptionSetup
    PROVE  HeapInv'
<1>1. /\ pc = "setup" /\ pc' = First /\ jmp_ready' = TRUE /\ time_limited' = TRUE
      /\ heap' = heap /\ q' = q /\ qcnt' = qcnt /\ fail_count' = fail_count
      /\ error_occurred' = error_occurred
      /\ cautious_mode' = cautious_mode /\ noallocate_mode' = noallocate_mode
      /\ err_cnt' = err_cnt /\ exit' = exit /\ cmd' = cmd /\ op' = op /\ loc' = loc
      /\ verbose' = verbose /\ alarms' = alarms
  BY DEF ExceptionSetup, ArmedSetup, Goto, memory, tally, modes, console, history
<1>2. /\ op \in {"ih", "it", "size", "rh", "rhq", "free", "quit", "new", "reverse"}
      /\ op \in {"ih", "it", "size"} => pc' = "loop"
      /\ op \in {"rh", "rhq"} => pc' = "remove"
      /\ op \in {"free", "quit"} => pc' = "free"
      /\ op = "new" => pc' = "new"
      /\ op = "reverse" => pc' = "reverse"
  BY <1>1 DEF First, ModesInv, OperationFits, Operations
<1>3. Typed'
  BY <1>1, <1>2 DEF HeapInv, Typed
<1>4. CommandOK'
  <2>1. pc' \in Places
    BY <1>2 DEF Places, AtRound, AtRemoval, AtFree, AtReverse, AtNew
  <2>2. QED
    BY <1>1, <1>2, <2>1 DEF HeapInv, CommandOK
<1>5. CountOK'
  BY <1>1, <1>2 DEF HeapInv, CountOK, AtInsertion, Insertions
<1>6. CalmPlaces'
  BY <1>1, <1>2 DEF HeapInv, CalmPlaces, AtInsertion, AtRemoval, AtReverse, Insertions,
     Removals, Calm
<1>7. QueueThere'
  BY <1>1, <1>2 DEF HeapInv, QueueThere, AtInsertion, AtRemoval, AtFree
<1>8. RoomForNew'
  BY <1>1, <1>2 DEF HeapInv, RoomForNew, Room
<1>9. Good' => Shape'
  <2>1. SUFFICES ASSUME Good' PROVE Shape'
    OBVIOUS
  <2>2. Calm
    BY <1>1, <1>2, <2>1 DEF HeapInv, CalmPlaces, Good, AtInsertion, Insertions, Calm
  <2>3. Shape
    BY <2>2 DEF HeapInv, Good
  <2>4. CASE op # "quit" /\ pc' # "new"
    BY <1>1, <1>2, <2>3, <2>4, SteadyKept DEF Steady, Looking
  <2>5. CASE op = "new"
    <3>1. q = NULL
      BY <1>1, <2>5 DEF HeapInv, QueueThere
    <3>2. NoQueueShape'
      BY <1>1, <1>2, <2>3, <2>5, <3>1 DEF Shape, NoQueueShape
    <3>3. QED
      BY <1>1, <3>1, <3>2 DEF Shape
  <2>6. CASE op = "quit" /\ q = NULL
    <3>1. NoQueueShape'
      BY <1>1, <1>2, <2>3, <2>6 DEF Shape, NoQueueShape
    <3>2. QED
      BY <1>1, <2>6, <3>1 DEF Shape
  <2>7. CASE op = "quit" /\ q # NULL
    <3>1. PICK ch, vl, st : ShapeOf(ch, vl, st)
      BY <1>1, <2>3, <2>7 DEF Shape
    <3>2. Resting(ch, vl, st, {}, Len(ch))
      BY <1>1, <2>7, <3>1 DEF ShapeOf
    <3>3. Resting(ch, vl, st, {}, Len(ch))'
      BY <1>1, <3>2 DEF Resting
    <3>4. pc' = "free" /\ op' = "quit"
      BY <1>1, <1>2, <2>7
    <3>5. ShapeOf(ch, vl, st)'
      BY <3>3, <3>4 DEF ShapeOf, InsertShape, RemoveShape, FreeShape, OtherShape,
         AtInsertion, AtRemoval, AtFree, Steady
    <3>6. QED
      BY <1>1, <2>7, <3>5 DEF Shape
  <2>8. QED
    BY <1>2, <2>4, <2>5, <2>6, <2>7
<1>10. QED
  BY <1>3, <1>4, <1>5, <1>6, <1>7, <1>8, <1>9 DEF HeapInv

LEMMA LoopStep ==
    ASSUME HeapInv, ModesInv, Loop
    PROVE  HeapInv'
<1>1. /\ pc = "loop"
      /\ heap' = heap /\ q' = q /\ qcnt' = qcnt /\ fail_count' = fail_count
      /\ error_occurred' = error_occurred
      /\ cautious_mode' = cautious_mode /\ noallocate_mode' = noallocate_mode
      /\ jmp_ready' = jmp_ready /\ time_limited' = time_limited
      /\ err_cnt' = err_cnt /\ exit' = exit /\ cmd' = cmd /\ op' = op /\ loc' = loc
      /\ verbose' = verbose /\ alarms' = alarms
  BY DEF Loop, memory, tally, modes, recovery, console, history
<1>2. /\ op \in {"ih", "it", "size"}
      /\ ~loc.ok \/ loc.r = cmd.n => pc' = "cancel"
      /\ ~(~loc.ok \/ loc.r = cmd.n) /\ op = "size" => pc' = "size"
      /\ ~(~loc.ok \/ loc.r = cmd.n) /\ op # "size" => pc' = "insert"
      /\ pc' \in {"cancel", "size", "insert"}
      /\ loc.ok \in BOOLEAN
  BY <1>1 DEF Loop, Goto, HeapInv, Typed, LocalTypes, ModesInv, OperationFits, AtRound,
     Insertions
<1>3. Typed'
  BY <1>1, <1>2 DEF HeapInv, Typed
<1>4. CommandOK'
  <2>1. pc' \in Places
    BY <1>2 DEF Places, AtInsertion
  <2>2. QED
    BY <1>1, <1>2, <2>1 DEF HeapInv, CommandOK
<1>5. CountOK'
  <2>1. SUFFICES ASSUME op \in Insertions, pc' = "insert"
                 PROVE  loc.r < cmd.n /\ qcnt + (cmd.n - loc.r) <= MaxLen
    BY <1>1, <1>2 DEF CountOK, AtInsertion
  <2>2. loc.r <= cmd.n /\ qcnt + (cmd.n - loc.r) <= MaxLen /\ loc.r # cmd.n
    BY <1>1, <1>2, <2>1 DEF HeapInv, CountOK
  <2>3. cmd \in Command /\ cmd.op = op
    BY <1>1, <1>2 DEF HeapInv, CommandOK
  <2>4. cmd.n \in Nat /\ loc.r \in Nat
    BY <2>3, CommandTypes DEF HeapInv, Typed, LocalTypes
  <2>5. QED
    BY <2>2, <2>4
<1>6. CalmPlaces'
  BY <1>1, <1>2 DEF HeapInv, CalmPlaces, AtInsertion, AtRemoval, AtReverse, Insertions,
     Removals, Calm
<1>7. QueueThere'
  BY <1>1, <1>2 DEF HeapInv, QueueThere, AtInsertion, AtRemoval, AtFree
<1>8. RoomForNew'
  BY <1>1, <1>2 DEF RoomForNew
<1>9. Good' => Shape'
  <2>1. SUFFICES ASSUME Good' PROVE Shape'
    OBVIOUS
  <2>2. Shape
    BY <1>1, <1>2, <2>1 DEF HeapInv, Good, AtInsertion, Insertions, Calm
  <2>3. CASE pc' # "cancel"
    BY <1>1, <1>2, <2>2, <2>3, SteadyKept DEF Steady, Looking
  <2>4. CASE pc' = "cancel" /\ q = NULL
    <3>1. NoQueueShape'
      BY <1>1, <1>2, <2>2, <2>4 DEF Shape, NoQueueShape, Removals
    <3>2. QED
      BY <1>1, <2>4, <3>1 DEF Shape
  <2>5. CASE pc' = "cancel" /\ q # NULL
    <3>1. PICK ch, vl, st : ShapeOf(ch, vl, st)
      BY <1>1, <2>2, <2>5 DEF Shape
    <3>2. Resting(ch, vl, st, {}, Len(ch)) /\ qcnt = Len(ch)
      BY <1>1, <1>2, <3>1 DEF ShapeOf, Steady
    <3>3. Resting(ch, vl, st, {}, Len(ch))'
      BY <1>1, <3>2 DEF Resting
    <3>4. ShapeOf(ch, vl, st)'
      BY <1>1, <1>2, <2>5, <3>2, <3>3, CancelOnly DEF Removals
    <3>5. QED
      BY <1>1, <2>5, <3>4 DEF Shape
  <2>6. QED
    BY <2>3, <2>4, <2>5
<1>10. QED
  BY <1>3, <1>4, <1>5, <1>6, <1>7, <1>8, <1>9 DEF HeapInv

\* What AfterInsertion does to the local variables.
LEMMA InsertionLocals ==
    ASSUME HeapInv, ModesInv, ~BadPointer, AfterInsertion
    PROVE  /\ loc' \in LocalTypes /\ loc'.r = loc.r /\ loc'.rval = loc.rval
           /\ loc.rval => /\ qcnt' = qcnt + 1 /\ fail_count' = fail_count
                          /\ loc'.aux = IF op = "ih" THEN heap[heap[q].head].value
                                        ELSE loc.aux
           /\ ~loc.rval => /\ qcnt' = qcnt /\ fail_count' = fail_count + 1
                           /\ loc'.aux = loc.aux
                           /\ loc'.ok => loc.ok
<1>1. pc = "ret" /\ loc \in LocalTypes /\ HeapTyped(heap) /\ fail_count \in Nat
  BY HeapIsTyped DEF AfterInsertion, HeapInv, Typed
<1>2. CASE loc.rval
  <2>1. PICK copy : copy = heap[heap[q].head].value
    OBVIOUS
  <2>2. heap[q].head \in DOMAIN heap /\ heap[heap[q].head].kind = "element"
    BY <1>1, <1>2 DEF BadPointer, IsElement
  <2>3. copy \in Address
    BY <1>1, <2>1, <2>2, CellKinds DEF HeapTyped, Cells
  <2>4. PICK ok, aux : /\ ok = (copy # NULL /\ ~(op = "ih" /\ loc.r = 1 /\ loc.aux = copy))
                       /\ aux = IF op = "ih" THEN copy ELSE loc.aux
    OBVIOUS
  <2>5. ok \in BOOLEAN /\ aux \in Address
    BY <1>1, <2>3, <2>4 DEF LocalTypes
  <2>6. loc' = [loc EXCEPT !.ok = ok, !.aux = aux] /\ qcnt' = qcnt + 1 /\ fail_count' = fail_count
    BY <1>1, <1>2, <2>1, <2>4 DEF AfterInsertion, LocalTypes
  <2>7. loc' \in LocalTypes /\ loc'.r = loc.r /\ loc'.rval = loc.rval /\ loc'.aux = aux
    BY <1>1, <2>5, <2>6 DEF LocalTypes
  <2>8. QED
    BY <1>2, <2>1, <2>4, <2>6, <2>7
<1>3. CASE ~loc.rval
  <2>1. /\ fail_count' = fail_count + 1 /\ qcnt' = qcnt
        /\ loc' = [loc EXCEPT !.ok = loc.ok /\ fail_count' < FailLimit]
    BY <1>1, <1>3 DEF AfterInsertion
  <2>2. PICK ok : ok = (loc.ok /\ fail_count' < FailLimit)
    OBVIOUS
  <2>3. ok \in BOOLEAN /\ (ok => loc.ok)
    BY <2>2
  <2>4. loc' = [loc EXCEPT !.ok = ok]
    BY <2>1, <2>2
  <2>5. /\ loc' \in LocalTypes /\ loc'.r = loc.r /\ loc'.rval = loc.rval
        /\ loc'.aux = loc.aux /\ loc'.ok = ok
    BY <1>1, <2>3, <2>4 DEF LocalTypes
  <2>6. QED
    BY <1>3, <2>1, <2>3, <2>5
<1>4. QED
  BY <1>2, <1>3

LEMMA InsertionCounted ==
    ASSUME HeapInv, ModesInv, ~BadPointer, AfterInsertion
    PROVE  HeapInv'
<1>1. /\ pc = "ret" /\ pc' = "check"
      /\ heap' = heap /\ q' = q /\ error_occurred' = error_occurred
      /\ cautious_mode' = cautious_mode /\ noallocate_mode' = noallocate_mode
      /\ jmp_ready' = jmp_ready /\ time_limited' = time_limited
      /\ err_cnt' = err_cnt /\ exit' = exit /\ cmd' = cmd /\ op' = op
      /\ verbose' = verbose /\ alarms' = alarms
  BY DEF AfterInsertion, Goto, memory, modes, recovery, console, history
<1>2. /\ op \in Insertions /\ loc \in LocalTypes /\ loc.rval \in BOOLEAN
      /\ qcnt \in Nat /\ fail_count \in Nat /\ MaxLen \in Nat /\ loc.r \in Nat
      /\ loc.r < cmd.n
      /\ loc.rval => qcnt + (cmd.n - loc.r) <= MaxLen
      /\ ~loc.rval => qcnt + (cmd.n - loc.r) <= MaxLen + 1
  <2>1. op \in Insertions
    BY <1>1 DEF ModesInv, OperationFits, AtInsertion
  <2>2. QED
    BY <1>1, <2>1, BlockFinite DEF HeapInv, Typed, LocalTypes, CountOK, AtInsertion
<1>3. cmd.n \in Nat
  BY <1>1, <1>2, CommandTypes DEF HeapInv, CommandOK, Insertions
<1>4. /\ loc' \in LocalTypes /\ loc'.r = loc.r /\ loc'.rval = loc.rval
      /\ loc.rval => /\ qcnt' = qcnt + 1 /\ fail_count' = fail_count
                     /\ loc'.aux = IF op = "ih" THEN heap[heap[q].head].value
                                   ELSE loc.aux
      /\ ~loc.rval => /\ qcnt' = qcnt /\ fail_count' = fail_count + 1
                      /\ loc'.aux = loc.aux /\ (loc'.ok => loc.ok)
  BY InsertionLocals
<1>5. qcnt' \in 0 .. MaxLen /\ qcnt' + (cmd.n - loc.r) <= MaxLen + 1 /\ fail_count' \in Nat
  <2>1. CASE loc.rval
    BY <1>2, <1>3, <1>4, <2>1
  <2>2. CASE ~loc.rval
    BY <1>2, <1>4, <2>2 DEF HeapInv, Typed
  <2>3. QED
    BY <2>1, <2>2
<1>6. Typed'
  BY <1>1, <1>4, <1>5 DEF HeapInv, Typed
<1>7. CommandOK'
  BY <1>1, <1>2 DEF HeapInv, CommandOK, Places, AtRound, Insertions
<1>8. CountOK'
  BY <1>1, <1>2, <1>4, <1>5 DEF CountOK, AtInsertion
<1>9. CalmPlaces'
  <2>1. Calm \/ error_occurred \/ ~loc'.ok
    <3>1. Calm \/ error_occurred \/ ~loc.ok
      BY <1>1, <1>2 DEF HeapInv, CalmPlaces, AtInsertion
    <3>2. loc.rval => loc.ok
      BY <1>1, <1>2 DEF HeapInv, CalmPlaces
    <3>3. QED
      BY <1>2, <1>4, <3>1, <3>2
  <2>2. QED
    BY <1>1, <2>1 DEF CalmPlaces, AtInsertion, AtRemoval, AtReverse, Insertions,
       Removals, Calm
<1>10. QueueThere'
  BY <1>1, <1>2 DEF HeapInv, QueueThere, AtInsertion, AtRemoval, AtFree, Insertions
<1>11. RoomForNew'
  BY <1>1, <1>2 DEF RoomForNew, Insertions
<1>12. Good' => Shape'
  <2>1. SUFFICES ASSUME Good' PROVE Shape'
    OBVIOUS
  <2>2. Shape
    BY <1>1, <2>1 DEF HeapInv, Good, AtInsertion, Calm
  <2>3. CASE q = NULL
    <3>1. ~loc.rval
      BY <1>1, <1>2, <2>3 DEF HeapInv, QueueThere
    <3>2. NoQueueShape'
      BY <1>1, <1>4, <2>2, <2>3, <3>1 DEF Shape, NoQueueShape
    <3>3. QED
      BY <1>1, <2>3, <3>2 DEF Shape
  <2>4. CASE q # NULL
    <3>1. PICK ch, vl, st : ShapeOf(ch, vl, st)
      BY <1>1, <2>2, <2>4 DEF Shape
    <3>2. /\ Resting(ch, vl, st, {}, Len(ch))
          /\ loc.rval => Len(ch) >= 1 /\ qcnt = Len(ch) - 1
          /\ ~loc.rval => qcnt = Len(ch)
          /\ op = "ih" /\ ~loc.rval =>
                 loc.aux = NULL \/ \E i \in 1 .. Len(ch) : loc.aux = vl[i]
      BY <1>1, <1>2, <3>1 DEF ShapeOf, InsertShape
    <3>3. Resting(ch, vl, st, {}, Len(ch))'
      BY <1>1, <3>2 DEF Resting
    <3>4. {q} \cup {} = {q}
      OBVIOUS
    <3>5. /\ Held(heap, ch, vl, st, {q}, NULL)
          /\ heap[q] = Queue(FirstOf(ch, NULL), heap[q].tail, Len(ch))
      BY <3>2, <3>4 DEF Resting
    <3>6. Len(ch) \in Nat /\ (ch # << >> <=> Len(ch) >= 1)
      BY <3>5, ListLength DEF Held
    <3>7. qcnt' = Len(ch)
      BY <1>2, <1>4, <3>2, <3>6
    <3>8. op = "ih" => loc'.aux = NULL \/ \E i \in 1 .. Len(ch) : loc'.aux = vl[i]
      <4>1. SUFFICES ASSUME op = "ih", loc.rval
                     PROVE  \E i \in 1 .. Len(ch) : loc'.aux = vl[i]
        BY <1>4, <3>2
      <4>2. 1 \in 1 .. Len(ch) /\ ch # << >>
        BY <3>2, <3>6, <4>1
      <4>3. heap[q].head = ch[1]
        <5>1. heap[q].head = FirstOf(ch, NULL)
          BY <3>5, QueueFields
        <5>2. QED
          BY <4>2, <5>1 DEF FirstOf
      <4>4. heap[ch[1]] = Element(vl[1], NextOf(ch, 1, NULL))
        BY <3>5, <4>2 DEF Held, Linked
      <4>5. heap[ch[1]].value = vl[1]
        BY <4>4, QueueFields
      <4>6. loc'.aux = vl[1]
        BY <1>4, <4>1, <4>3, <4>5
      <4>7. QED
        BY <4>2, <4>6
    <3>9. InsertShape(ch, vl, st)'
      BY <1>1, <3>8 DEF InsertShape
    <3>10. RemoveShape(ch, vl, st)'
      BY <1>1 DEF RemoveShape, AtRemoval
    <3>11. FreeShape(ch, vl, st)' /\ OtherShape(ch, vl, st)'
      BY <1>1 DEF FreeShape, OtherShape
    <3>12. ShapeOf(ch, vl, st)'
      BY <1>1, <3>3, <3>7, <3>9, <3>10, <3>11 DEF ShapeOf
    <3>13. QED
      BY <1>1, <2>4, <3>12 DEF Shape
  <2>5. QED
    BY <2>3, <2>4
<1>13. QED
  BY <1>6, <1>7, <1>8, <1>9, <1>10, <1>11, <1>12 DEF HeapInv

LEMMA NextRoundStep ==
    ASSUME HeapInv, ModesInv, NextRound
    PROVE  HeapInv'
<1>1. /\ pc = "check" /\ pc' = "loop"
      /\ heap' = heap /\ q' = q /\ qcnt' = qcnt /\ fail_count' = fail_count
      /\ error_occurred' = (error_occurred /\ ~loc.ok)
      /\ cautious_mode' = cautious_mode /\ noallocate_mode' = noallocate_mode
      /\ jmp_ready' = jmp_ready /\ time_limited' = time_limited
      /\ err_cnt' = err_cnt /\ exit' = exit /\ cmd' = cmd /\ op' = op
      /\ verbose' = verbose /\ alarms' = alarms
  BY DEF NextRound, Goto, memory, tally, modes, recovery, console, history
<1>2. op \in {"ih", "it", "size"} /\ loc \in LocalTypes /\ error_occurred \in BOOLEAN
  BY <1>1 DEF ModesInv, OperationFits, AtRound, Insertions, HeapInv, Typed
<1>3. PICK ok, r : ok = (loc.ok /\ ~error_occurred) /\ r = loc.r + 1
  OBVIOUS
<1>4. ok \in BOOLEAN /\ r \in Nat
  BY <1>2, <1>3 DEF LocalTypes
<1>5. loc' = [loc EXCEPT !.ok = ok, !.r = r]
  BY <1>3 DEF NextRound
<1>6. loc' \in LocalTypes /\ loc'.ok = ok /\ loc'.r = r /\ loc'.aux = loc.aux
      /\ loc'.rval = loc.rval
  BY <1>2, <1>4, <1>5 DEF LocalTypes
<1>7. error_occurred' \in BOOLEAN
  BY <1>1
<1>8. Typed'
  BY <1>1, <1>6, <1>7 DEF HeapInv, Typed
<1>9. CommandOK'
  BY <1>1, <1>2 DEF HeapInv, CommandOK, Places, AtRound
<1>10. CountOK'
  <2>1. SUFFICES ASSUME op \in Insertions
                 PROVE  r <= cmd.n /\ qcnt + (cmd.n - r) <= MaxLen
    BY <1>1, <1>6 DEF CountOK, AtInsertion
  <2>2. loc.r < cmd.n /\ qcnt + (cmd.n - loc.r) <= MaxLen + 1
    BY <1>1, <2>1 DEF HeapInv, CountOK
  <2>3. cmd.n \in Nat
    BY <1>1, <1>2, CommandTypes DEF HeapInv, CommandOK
  <2>4. loc.r \in Nat /\ qcnt \in Nat /\ MaxLen \in Nat
    BY <1>2, BlockFinite DEF HeapInv, Typed, LocalTypes
  <2>5. QED
    BY <1>3, <2>2, <2>3, <2>4
<1>11. CalmPlaces'
  <2>1. op \in Insertions => Calm \/ error_occurred \/ ~loc.ok
    BY <1>1 DEF HeapInv, CalmPlaces
  <2>2. ok => loc.ok /\ ~error_occurred
    BY <1>3
  <2>3. QED
    BY <1>1, <1>6, <2>1, <2>2 DEF CalmPlaces, AtInsertion, AtRemoval, AtReverse, Calm
<1>12. QueueThere'
  BY <1>1, <1>2 DEF HeapInv, QueueThere, AtInsertion, AtRemoval, AtFree
<1>13. RoomForNew'
  BY <1>1, <1>2 DEF RoomForNew
<1>14. Good' => Shape'
  <2>1. SUFFICES ASSUME Good' PROVE Shape'
    OBVIOUS
  <2>2. Calm
    <3>1. op \in Insertions => Calm \/ error_occurred \/ ~loc.ok
      BY <1>1 DEF HeapInv, CalmPlaces
    <3>2. Calm' \/ (op \in Insertions /\ ok)
      BY <1>1, <1>6, <2>1 DEF Good, AtInsertion
    <3>3. ok => loc.ok /\ ~error_occurred
      BY <1>3
    <3>4. QED
      BY <1>1, <3>1, <3>2, <3>3 DEF Calm
  <2>3. Shape
    BY <2>2 DEF HeapInv, Good
  <2>4. QED
    BY <1>1, <1>2, <1>6, <2>3, SteadyKept DEF Steady, Looking
<1>15. QED
  BY <1>8, <1>9, <1>10, <1>11, <1>12, <1>13, <1>14 DEF HeapInv

\* What Judge does to the local variables: only ok is written.
LEMMA JudgeFacts ==
    ASSUME HeapInv, Judge
    PROVE  /\ \E ok \in BOOLEAN : loc' = [loc EXCEPT !.ok = ok]
           /\ loc' \in LocalTypes /\ fail_count' \in Nat
           /\ op \in {"new", "free"} => qcnt' = 0
           /\ op \in Removals => qcnt' = IF loc.rval THEN qcnt - 1 ELSE qcnt
           /\ op \notin {"new", "free"} \cup Removals => qcnt' = qcnt
<1>1. loc \in LocalTypes /\ fail_count \in Nat
  BY DEF HeapInv, Typed
<1>2. PICK ok : ok = CASE op = "size"                  -> loc.ok /\ qcnt = loc.seen
                       [] Counted /\ ~loc.rval         -> fail_count' < FailLimit
                                                          /\ cmd.str = NoStr
                       [] Counted /\ loc.rval /\ cmd.str # NoStr
                                                       -> loc.taken = cmd.str
                       [] OTHER                        -> loc.ok
  OBVIOUS
<1>3. loc' = [loc EXCEPT !.ok = ok]
  BY <1>2 DEF Judge
<1>4. ok \in BOOLEAN
  <2>1. CASE op = "size"
    BY <1>2, <2>1 DEF Counted
  <2>2. CASE op # "size" /\ Counted /\ ~loc.rval
    BY <1>2, <2>2
  <2>3. CASE op # "size" /\ Counted /\ loc.rval /\ cmd.str # NoStr
    BY <1>2, <2>3
  <2>4. CASE op # "size" /\ ~(Counted /\ ~loc.rval) /\ ~(Counted /\ loc.rval /\ cmd.str # NoStr)
    <3>1. ok = loc.ok
      BY <1>2, <2>4
    <3>2. QED
      BY <1>1, <3>1 DEF LocalTypes
  <2>5. QED
    BY <2>1, <2>2, <2>3, <2>4
<1>5. loc' \in LocalTypes
  BY <1>1, <1>3, <1>4 DEF LocalTypes
<1>6. fail_count' \in Nat
  <2>1. CASE Counted /\ ~loc.rval
    <3>1. fail_count' = fail_count + 1
      BY <2>1 DEF Judge
    <3>2. QED
      BY <1>1, <3>1
  <2>2. CASE ~(Counted /\ ~loc.rval)
    <3>1. fail_count' = fail_count
      BY <2>2 DEF Judge
    <3>2. QED
      BY <1>1, <3>1
  <2>3. QED
    BY <2>1, <2>2
<1>7. op \in {"new", "free"} => qcnt' = 0
  BY DEF Judge, Counted
<1>8. op \in Removals => qcnt' = IF loc.rval THEN qcnt - 1 ELSE qcnt
  BY DEF Judge, Counted, Removals
<1>9. op \notin {"new", "free"} \cup Removals => qcnt' = qcnt
  BY DEF Judge, Counted, Removals
<1>10. QED
  BY <1>3, <1>4, <1>5, <1>6, <1>7, <1>8, <1>9

LEMMA CancelStep ==
    ASSUME HeapInv, ModesInv, ExceptionCancel
    PROVE  HeapInv'
<1>1. /\ pc = "cancel" /\ pc' = IF op = "quit" THEN "after" ELSE "show"
      /\ heap' = heap /\ error_occurred' = error_occurred
      /\ q' = IF op = "free" THEN NULL ELSE q
      /\ cautious_mode' = TRUE /\ noallocate_mode' = FALSE
      /\ jmp_ready' = FALSE /\ time_limited' = FALSE
      /\ err_cnt' = err_cnt /\ exit' = exit /\ cmd' = cmd /\ op' = op
      /\ verbose' = verbose /\ alarms' = alarms
  BY DEF ExceptionCancel, RestoreModes, Goto, console, history
<1>2. /\ loc' \in LocalTypes /\ fail_count' \in Nat
      /\ op \in {"new", "free"} => qcnt' = 0
      /\ op \in Removals => qcnt' = IF loc.rval THEN qcnt - 1 ELSE qcnt
      /\ op \notin {"new", "free"} \cup Removals => qcnt' = qcnt
  BY JudgeFacts DEF ExceptionCancel
<1>3. qcnt \in 0 .. MaxLen /\ MaxLen \in Nat
  BY BlockFinite DEF HeapInv, Typed
<1>4. op \in Removals /\ loc.rval => Calm
  BY <1>1 DEF HeapInv, CalmPlaces
<1>5. Calm => Shape
  BY DEF HeapInv, Good
\* What is known of the list here.
<1>6. ASSUME Calm, q # NULL, op \notin {"free", "quit"}
      PROVE  \E ch, vl, st : /\ Resting(ch, vl, st, {}, Len(ch)) /\ Len(ch) \in Nat
                             /\ qcnt = IF op \in Removals /\ loc.rval
                                       THEN Len(ch) + 1 ELSE Len(ch)
                             /\ op = "new" => ch = << >>
  <2>1. PICK ch, vl, st : ShapeOf(ch, vl, st)
    BY <1>1, <1>5, <1>6 DEF Shape
  <2>2. /\ Resting(ch, vl, st, {}, Len(ch))
        /\ qcnt = IF op \in Removals /\ loc.rval THEN Len(ch) + 1 ELSE Len(ch)
        /\ op = "new" => ch = << >>
    BY <1>1, <1>6, <2>1 DEF ShapeOf, OtherShape
  <2>3. Len(ch) \in Nat
    BY <2>2, ListLength DEF Resting, Held
  <2>4. QED
    BY <2>2, <2>3
<1>7. ASSUME op \in Removals, loc.rval
      PROVE  qcnt \in 1 .. MaxLen
  <2>1. q # NULL
    BY <1>1, <1>4, <1>5, <1>7 DEF Shape, NoQueueShape
  <2>2. PICK ch, vl, st : /\ Resting(ch, vl, st, {}, Len(ch)) /\ Len(ch) \in Nat
                          /\ qcnt = IF op \in Removals /\ loc.rval
                                    THEN Len(ch) + 1 ELSE Len(ch)
    BY <1>4, <1>6, <1>7, <2>1 DEF Removals
  <2>3. QED
    BY <1>3, <1>7, <2>2
<1>8. qcnt' \in 0 .. MaxLen
  <2>1. CASE op \in {"new", "free"}
    BY <1>2, <1>3, <2>1
  <2>2. CASE op \in Removals
    BY <1>2, <1>3, <1>7, <2>2
  <2>3. CASE op \notin {"new", "free"} \cup Removals
    BY <1>2, <1>3, <2>3
  <2>4. QED
    BY <2>1, <2>2, <2>3
<1>9. Typed'
  BY <1>1, <1>2, <1>8 DEF HeapInv, Typed
<1>10. CommandOK'
  BY <1>1 DEF HeapInv, CommandOK, Places
<1>11. CountOK'
  BY <1>1 DEF CountOK, AtInsertion
<1>12. CalmPlaces'
  BY <1>1 DEF CalmPlaces, AtInsertion, AtRemoval, AtReverse
<1>13. QueueThere'
  BY <1>1 DEF HeapInv, QueueThere, AtInsertion, AtRemoval, AtFree
<1>14. RoomForNew'
  BY <1>1 DEF HeapInv, RoomForNew, Room
<1>15. Good' => Shape'
  <2>1. SUFFICES ASSUME Good' PROVE Shape'
    OBVIOUS
  <2>2. Calm
    BY <1>1, <2>1 DEF Good, AtInsertion, Calm
  <2>3. CASE q = NULL
    <3>1. DOMAIN heap = {} /\ qcnt = 0 /\ (op \in Removals => ~loc.rval)
      BY <1>1, <1>5, <2>2, <2>3 DEF Shape, NoQueueShape
    <3>2. qcnt' = 0
      BY <1>2, <3>1
    <3>3. NoQueueShape'
      BY <1>1, <3>1, <3>2 DEF NoQueueShape
    <3>4. QED
      BY <1>1, <2>3, <3>3 DEF Shape
  <2>4. CASE q # NULL /\ op \in {"free", "quit"}
    <3>1. PICK ch, vl, st : ShapeOf(ch, vl, st)
      BY <1>1, <1>5, <2>2, <2>4 DEF Shape
    <3>2. DOMAIN heap = {}
      BY <1>1, <2>4, <3>1 DEF ShapeOf, FreeShape
    <3>3. CASE op = "free"
      <4>1. NoQueueShape'
        BY <1>1, <1>2, <3>2, <3>3 DEF NoQueueShape
      <4>2. QED
        BY <1>1, <3>3, <4>1 DEF Shape
    <3>4. CASE op = "quit"
      <4>1. ShapeOf(ch, vl, st)'
        BY <1>1, <3>2, <3>4 DEF ShapeOf, InsertShape, RemoveShape, FreeShape, OtherShape,
           AtRemoval, Steady
      <4>2. QED
        BY <1>1, <2>4, <3>4, <4>1 DEF Shape
    <3>5. QED
      BY <2>4, <3>3, <3>4
  <2>5. CASE q # NULL /\ op \notin {"free", "quit"}
    <3>1. PICK ch, vl, st : /\ Resting(ch, vl, st, {}, Len(ch)) /\ Len(ch) \in Nat
                            /\ qcnt = IF op \in Removals /\ loc.rval
                                      THEN Len(ch) + 1 ELSE Len(ch)
                            /\ op = "new" => ch = << >>
      BY <1>6, <2>2, <2>5
    <3>2. Resting(ch, vl, st, {}, Len(ch))'
      BY <1>1, <2>5, <3>1 DEF Resting
    <3>3. qcnt' = Len(ch)
      <4>1. CASE op = "new"
        <5>1. Len(ch) = 0
          BY <3>1, <4>1
        <5>2. QED
          BY <1>2, <4>1, <5>1
      <4>2. CASE op \in Removals
        BY <1>2, <3>1, <4>2
      <4>3. CASE op \notin {"new"} \cup Removals
        BY <1>2, <2>5, <3>1, <4>3
      <4>4. QED
        BY <4>1, <4>2, <4>3
    <3>4. InsertShape(ch, vl, st)'
      BY <1>1, <2>5 DEF InsertShape
    <3>5. RemoveShape(ch, vl, st)' /\ FreeShape(ch, vl, st)' /\ OtherShape(ch, vl, st)'
      BY <1>1, <2>5 DEF RemoveShape, FreeShape, OtherShape, AtRemoval
    <3>6. ShapeOf(ch, vl, st)'
      BY <1>1, <2>5, <3>2, <3>3, <3>4, <3>5 DEF ShapeOf
    <3>7. QED
      BY <1>1, <2>5, <3>6 DEF Shape
  <2>6. QED
    BY <2>3, <2>4, <2>5
<1>16. QED
  BY <1>9, <1>10, <1>11, <1>12, <1>13, <1>14, <1>15 DEF HeapInv

\* show_queue, which looks at the list only.
LEMMA BeginShowStep ==
    ASSUME HeapInv, ModesInv, BeginShow
    PROVE  HeapInv'
<1>1. /\ pc = "show" /\ pc' \in {"after", "show.loop"}
      /\ heap' = heap /\ q' = q /\ qcnt' = qcnt /\ fail_count' = fail_count
      /\ error_occurred' = error_occurred
      /\ cautious_mode' = cautious_mode /\ noallocate_mode' = noallocate_mode
      /\ err_cnt' = err_cnt /\ exit' = exit /\ cmd' = cmd /\ op' = op
      /\ verbose' = verbose /\ alarms' = alarms
      /\ pc' = "after" => loc' = loc /\ jmp_ready' = jmp_ready /\ time_limited' = time_limited
      /\ pc' = "show.loop" =>
            /\ q # NULL /\ jmp_ready' = TRUE /\ time_limited' = TRUE
            /\ loc' = [loc EXCEPT !.ptr = heap[q].head, !.seen = 0, !.rval = TRUE]
  BY DEF BeginShow, ArmedSetup, Goto, memory, tally, modes, recovery, console, history
<1>2. op # "quit" /\ (op = "free" => q = NULL) /\ loc \in LocalTypes
  BY <1>1 DEF HeapInv, CommandOK, QueueThere, Typed
<1>3. q # NULL => q \in DOMAIN heap /\ heap[q] \in QueueCells
  BY <1>1, <1>2 DEF HeapInv, QueueThere
<1>4. pc' = "show.loop" =>
        /\ loc' \in LocalTypes /\ loc'.ptr = heap[q].head /\ loc'.seen = 0
        /\ loc'.rval = TRUE
  <2>1. SUFFICES ASSUME pc' = "show.loop" PROVE /\ loc' \in LocalTypes /\ loc'.ptr = heap[q].head
                                                /\ loc'.seen = 0 /\ loc'.rval = TRUE
    OBVIOUS
  <2>2. PICK p : p = heap[q].head
    OBVIOUS
  <2>3. p \in Address
    BY <1>1, <1>3, <2>1, <2>2, CellKinds
  <2>4. loc' = [loc EXCEPT !.ptr = p, !.seen = 0, !.rval = TRUE]
    BY <1>1, <2>1, <2>2
  <2>5. loc' \in LocalTypes /\ loc'.ptr = p /\ loc'.seen = 0 /\ loc'.rval = TRUE
    BY <1>2, <2>3, <2>4 DEF LocalTypes
  <2>6. QED
    BY <2>2, <2>5
<1>5. loc' \in LocalTypes
  BY <1>1, <1>2, <1>4
<1>6. Typed'
  BY <1>1, <1>5 DEF HeapInv, Typed
<1>7. CommandOK'
  BY <1>1, <1>2 DEF HeapInv, CommandOK, Places
<1>8. CountOK'
  BY <1>1 DEF CountOK, AtInsertion
<1>9. CalmPlaces'
  BY <1>1 DEF CalmPlaces, AtInsertion, AtRemoval, AtReverse
<1>10. QueueThere'
  BY <1>1, <1>2, <1>3 DEF QueueThere, AtInsertion, AtRemoval, AtFree
<1>11. RoomForNew'
  BY <1>1 DEF HeapInv, RoomForNew, Room
<1>12. Good' => Shape'
  <2>1. SUFFICES ASSUME Good' PROVE Shape'
    OBVIOUS
  <2>2. Shape
    BY <1>1, <2>1 DEF HeapInv, Good, AtInsertion, Calm
  <2>3. CASE pc' = "after"
    BY <1>1, <1>2, <2>2, <2>3, SteadyKept DEF Steady, Looking
  <2>4. CASE pc' = "show.loop"
    <3>1. PICK ch, vl, st : ShapeOf(ch, vl, st)
      BY <1>1, <2>2, <2>4 DEF Shape
    <3>2. Resting(ch, vl, st, {}, Len(ch)) /\ qcnt = Len(ch)
      BY <1>1, <1>2, <3>1 DEF ShapeOf, Steady
    <3>3. Resting(ch, vl, st, {}, Len(ch))'
      BY <1>1, <3>2 DEF Resting
    <3>4. Len(ch) \in Nat /\ (ch # << >> <=> Len(ch) >= 1)
      BY <3>2, ListLength DEF Resting, Held
    <3>5. heap[q].head = FirstOf(ch, NULL)
      BY <3>2, QueueFields DEF Resting
    <3>6. loc'.seen <= Len(ch)
      BY <1>4, <2>4, <3>4
    <3>7. loc'.ptr = IF loc'.seen = Len(ch) THEN NULL ELSE ch[loc'.seen + 1]
      BY <1>4, <2>4, <3>4, <3>5 DEF FirstOf
    <3>8. OtherShape(ch, vl, st)'
      BY <2>4, <3>6, <3>7 DEF OtherShape
    <3>9. InsertShape(ch, vl, st)' /\ RemoveShape(ch, vl, st)' /\ FreeShape(ch, vl, st)'
      BY <2>4 DEF InsertShape, RemoveShape, FreeShape, AtRemoval
    <3>10. ShapeOf(ch, vl, st)'
      BY <1>1, <2>4, <3>2, <3>3, <3>8, <3>9 DEF ShapeOf
    <3>11. QED
      BY <1>1, <2>4, <3>10 DEF Shape
  <2>5. QED
    BY <1>1, <2>3, <2>4
<1>13. QED
  BY <1>6, <1>7, <1>8, <1>9, <1>10, <1>11, <1>12 DEF HeapInv

LEMMA ShowNextStep ==
    ASSUME HeapInv, ModesInv, ~BadPointer, ShowNext
    PROVE  HeapInv'
<1>1. /\ pc = "show.loop" /\ pc' = pc
      /\ heap' = heap /\ q' = q /\ qcnt' = qcnt /\ fail_count' = fail_count
      /\ error_occurred' = FALSE
      /\ cautious_mode' = cautious_mode /\ noallocate_mode' = noallocate_mode
      /\ jmp_ready' = jmp_ready /\ time_limited' = time_limited
      /\ err_cnt' = err_cnt /\ exit' = exit /\ cmd' = cmd /\ op' = op
      /\ verbose' = verbose /\ alarms' = alarms
      /\ loc.rval /\ loc.ptr # NULL /\ loc.seen < qcnt
  BY DEF ShowNext, memory, tally, modes, recovery, console, history
<1>2. op # "quit" /\ op # "free" /\ q # NULL /\ loc \in LocalTypes /\ HeapTyped(heap)
      /\ error_occurred \in BOOLEAN /\ loc.seen \in Nat
  BY <1>1, HeapIsTyped DEF HeapInv, CommandOK, QueueThere, Typed, LocalTypes
<1>3. loc.ptr \in DOMAIN heap /\ heap[loc.ptr].kind = "element"
  BY <1>1 DEF BadPointer, IsElement
<1>4. PICK p, s, v : p = heap[loc.ptr].next /\ s = loc.seen + 1 /\ v = ~error_occurred
  OBVIOUS
<1>5. p \in Address /\ s \in Nat /\ v \in BOOLEAN
  BY <1>2, <1>3, <1>4, CellKinds DEF HeapTyped, Cells
<1>6. loc' = [loc EXCEPT !.ptr = p, !.seen = s, !.rval = v]
  BY <1>4 DEF ShowNext
<1>7. loc' \in LocalTypes /\ loc'.ptr = p /\ loc'.seen = s
  BY <1>2, <1>5, <1>6 DEF LocalTypes
<1>8. Typed'
  BY <1>1, <1>7 DEF HeapInv, Typed
<1>9. CommandOK'
  BY <1>1, <1>2 DEF HeapInv, CommandOK, Places
<1>10. CountOK'
  BY <1>1 DEF CountOK, AtInsertion
<1>11. CalmPlaces'
  BY <1>1 DEF CalmPlaces, AtInsertion, AtRemoval, AtReverse
<1>12. QueueThere'
  BY <1>1, <1>2 DEF HeapInv, QueueThere, AtInsertion, AtRemoval, AtFree
<1>13. RoomForNew'
  BY <1>1 DEF HeapInv, RoomForNew, Room
<1>14. Good' => Shape'
  <2>1. SUFFICES ASSUME Good' PROVE Shape'
    OBVIOUS
  <2>2. Shape
    BY <1>1, <2>1 DEF HeapInv, Good, AtInsertion, Calm
  <2>3. PICK ch, vl, st : ShapeOf(ch, vl, st)
    BY <1>1, <1>2, <2>2 DEF Shape
  <2>4. /\ Resting(ch, vl, st, {}, Len(ch)) /\ qcnt = Len(ch)
        /\ loc.ptr = IF loc.seen = Len(ch) THEN NULL ELSE ch[loc.seen + 1]
    BY <1>1, <1>2, <2>3 DEF ShapeOf, Steady, OtherShape
  <2>5. Resting(ch, vl, st, {}, Len(ch))'
    BY <1>1, <2>4 DEF Resting
  <2>6. Len(ch) \in Nat /\ Linked(heap, ch, vl, st, NULL)
    BY <2>4, ListLength DEF Resting, Held
  <2>7. s \in 1 .. Len(ch) /\ loc.ptr = ch[s]
    BY <1>1, <1>2, <1>4, <2>4, <2>6
  <2>8. heap[ch[s]] = Element(vl[s], NextOf(ch, s, NULL))
    BY <2>6, <2>7 DEF Linked
  <2>9. p = NextOf(ch, s, NULL)
    BY <1>4, <2>7, <2>8, QueueFields
  <2>10. loc'.seen <= Len(ch)
         /\ loc'.ptr = IF loc'.seen = Len(ch) THEN NULL ELSE ch[loc'.seen + 1]
    BY <1>7, <2>6, <2>7, <2>9 DEF NextOf
  <2>11. OtherShape(ch, vl, st)'
    BY <1>1, <2>10 DEF OtherShape
  <2>12. InsertShape(ch, vl, st)' /\ RemoveShape(ch, vl, st)' /\ FreeShape(ch, vl, st)'
    BY <1>1 DEF InsertShape, RemoveShape, FreeShape, AtRemoval
  <2>13. ShapeOf(ch, vl, st)'
    BY <1>1, <2>4, <2>5, <2>11, <2>12 DEF ShapeOf
  <2>14. QED
    BY <1>1, <1>2, <2>13 DEF Shape
<1>15. QED
  BY <1>8, <1>9, <1>10, <1>11, <1>12, <1>13, <1>14 DEF HeapInv

LEMMA EndShowStep ==
    ASSUME HeapInv, ModesInv, EndShow
    PROVE  HeapInv'
<1>1. /\ pc \in {"show.loop", "show.cancel"} /\ pc' = "after"
      /\ heap' = heap /\ q' = q /\ qcnt' = qcnt /\ fail_count' = fail_count
      /\ error_occurred' = error_occurred
      /\ cautious_mode' = cautious_mode /\ noallocate_mode' = noallocate_mode
      /\ jmp_ready' = FALSE /\ time_limited' = FALSE
      /\ err_cnt' = err_cnt /\ exit' = exit /\ cmd' = cmd /\ op' = op
      /\ verbose' = verbose /\ alarms' = alarms
  BY DEF EndShow, Goto, memory, tally, modes, console, history
<1>2. op # "quit" /\ op # "free" /\ q # NULL /\ loc \in LocalTypes
  BY <1>1 DEF HeapInv, CommandOK, QueueThere, Typed
<1>3. PICK v : v = (loc.rval /\ loc.ptr = NULL)
  OBVIOUS
<1>4. v \in BOOLEAN
  BY <1>2, <1>3 DEF LocalTypes
<1>5. loc' = [loc EXCEPT !.rval = v]
  BY <1>3 DEF EndShow
<1>6. loc' \in LocalTypes
  BY <1>2, <1>4, <1>5, LocalFields
<1>7. Typed'
  BY <1>1, <1>6 DEF HeapInv, Typed
<1>8. CommandOK'
  BY <1>1, <1>2 DEF HeapInv, CommandOK, Places
<1>9. CountOK'
  BY <1>1 DEF CountOK, AtInsertion
<1>10. CalmPlaces'
  BY <1>1 DEF CalmPlaces, AtInsertion, AtRemoval, AtReverse
<1>11. QueueThere'
  BY <1>1, <1>2 DEF HeapInv, QueueThere, AtInsertion, AtRemoval, AtFree
<1>12. RoomForNew'
  BY <1>1 DEF HeapInv, RoomForNew, Room
<1>13. Good' => Shape'
  <2>1. SUFFICES ASSUME Good' PROVE Shape'
    OBVIOUS
  <2>2. Calm
    BY <1>1, <2>1 DEF Good, AtInsertion, Calm
  <2>3. pc = "show.loop" /\ Shape
    BY <1>1, <2>2 DEF HeapInv, CalmPlaces, Good
  <2>4. QED
    BY <1>1, <1>2, <2>3, SteadyKept DEF Steady, Looking
<1>14. QED
  BY <1>7, <1>8, <1>9, <1>10, <1>11, <1>12, <1>13 DEF HeapInv

-----------------------------------------------------------------------------
(***************************************************************************)
(* Where a command begins and ends.                                        *)
(***************************************************************************)
LEMMA LocalsTyped ==
    /\ Locals \in LocalTypes
    /\ \A x \in BOOLEAN : [Locals EXCEPT !.ok = x] \in LocalTypes
                          /\ [Locals EXCEPT !.ok = x].aux = NULL
    /\ Locals.aux = NULL /\ Locals.r = 0
  BY DEF Locals, LocalTypes, Address

\* The console has its prompt again, or gives up.
LEMMA RecordStep ==
    ASSUME HeapInv, NEW success \in BOOLEAN, Record(success), pc \in {"idle", "after"},
           op # "quit", heap' = heap, q' = q, qcnt' = qcnt, fail_count' = fail_count,
           error_occurred' \in BOOLEAN, cautious_mode' = cautious_mode,
           noallocate_mode' = noallocate_mode, jmp_ready' = jmp_ready,
           time_limited' = time_limited, verbose' = verbose, alarms' = alarms
    PROVE  HeapInv'
<1>1. /\ pc' \in {"idle", "exit"} /\ op' = "none" /\ loc' = Locals /\ cmd' = NoCommand
      /\ pc' = "exit" => exit' = "failure"
      /\ pc' = "idle" => exit' = exit
  BY DEF Record, Goto
<1>2. /\ err_cnt' = IF success THEN err_cnt ELSE err_cnt + 1
      /\ pc' # "exit" => success \/ ~(err_cnt' >= ErrLimit)
  BY DEF Record, Goto
<1>3. err_cnt \in 0 .. ErrLimit /\ err_cnt < ErrLimit /\ ErrLimit \in Nat
  BY TesterAssumption DEF HeapInv, Typed
<1>4. err_cnt' \in 0 .. ErrLimit /\ (pc' # "exit" => err_cnt' < ErrLimit)
  <2>1. CASE success
    BY <1>2, <1>3, <2>1
  <2>2. CASE ~success
    BY <1>2, <1>3, <2>2
  <2>3. QED
    BY <2>1, <2>2
<1>5. exit' \in {"no", "success", "failure"}
  BY <1>1 DEF HeapInv, Typed
<1>6. Typed'
  BY <1>1, <1>4, <1>5, LocalsTyped DEF HeapInv, Typed
<1>7. CommandOK'
  BY <1>1 DEF CommandOK, Places
<1>8. CountOK'
  BY <1>1 DEF CountOK, Insertions
<1>9. CalmPlaces'
  BY <1>1 DEF CalmPlaces, AtInsertion, AtRemoval, AtReverse
<1>10. op = "free" => q = NULL
  BY DEF HeapInv, QueueThere, CommandOK
<1>11. QueueThere'
  BY <1>1, <1>10 DEF HeapInv, QueueThere, AtInsertion, AtRemoval, AtFree
<1>12. RoomForNew'
  BY <1>1 DEF RoomForNew
<1>13. Good' => Shape'
  <2>1. SUFFICES ASSUME Good' PROVE Shape'
    OBVIOUS
  <2>2. Shape
    BY <1>1, <2>1 DEF HeapInv, Good, AtInsertion, Calm
  <2>3. CASE pc' = "exit"
    BY <2>3 DEF Shape
  <2>4. CASE pc' = "idle"
    BY <1>1, <2>2, <2>4, SteadyKept DEF Steady, Looking
  <2>5. QED
    BY <1>1, <2>3, <2>4
<1>14. QED
  BY <1>6, <1>7, <1>8, <1>9, <1>11, <1>12, <1>13 DEF HeapInv

LEMMA BadCommandStep ==
    ASSUME HeapInv, NEW c \in Command, BadCommand(c)
    PROVE  HeapInv'
<1>1. /\ pc = "idle" /\ Record(FALSE) /\ heap' = heap /\ q' = q /\ qcnt' = qcnt
      /\ fail_count' = fail_count /\ error_occurred' = error_occurred
      /\ cautious_mode' = cautious_mode /\ noallocate_mode' = noallocate_mode
      /\ jmp_ready' = jmp_ready /\ time_limited' = time_limited
      /\ verbose' = verbose /\ alarms' = alarms
  BY DEF BadCommand, memory, tally, modes, recovery, noted
<1>2. op # "quit" /\ error_occurred' \in BOOLEAN
  BY <1>1 DEF HeapInv, CommandOK, Typed
<1>3. QED
  BY <1>1, <1>2, RecordStep

\* do_new, after it has freed the old queue.
LEMMA GoOnWithNew ==
    ASSUME HeapInv, pc = "after", op = "free", cmd.op = "new", Enter("new"),
           NEW ok \in BOOLEAN, loc' = [Locals EXCEPT !.ok = ok],
           err_cnt' = err_cnt, exit' = exit, cmd' = cmd,
           heap' = heap, q' = q, qcnt' = qcnt, fail_count' = fail_count,
           jmp_ready' = jmp_ready, time_limited' = time_limited,
           verbose' = verbose, alarms' = alarms
    PROVE  HeapInv'
<1>1. /\ op' = "new" /\ error_occurred' = FALSE /\ cautious_mode' \in BOOLEAN
      /\ noallocate_mode' = FALSE /\ pc' = "setup"
  BY DEF Enter, Goto
<1>2. loc' \in LocalTypes
  BY LocalsTyped
<1>3. Typed'
  BY <1>1, <1>2 DEF HeapInv, Typed
<1>4. CommandOK'
  BY <1>1 DEF HeapInv, CommandOK, Places
<1>5. CountOK'
  BY <1>1 DEF CountOK, Insertions
<1>6. CalmPlaces'
  BY <1>1 DEF CalmPlaces, AtInsertion, AtRemoval, AtReverse
<1>7. q = NULL
  BY DEF HeapInv, QueueThere
<1>8. QueueThere'
  BY <1>1, <1>7 DEF QueueThere, AtInsertion, AtRemoval, AtFree
<1>9. RoomForNew'
  BY <1>1 DEF HeapInv, RoomForNew, Room
<1>10. Good' => Shape'
  <2>1. SUFFICES ASSUME Good' PROVE Shape'
    OBVIOUS
  <2>2. Shape
    BY <1>1, <2>1 DEF HeapInv, Good, AtInsertion, Calm
  <2>3. QED
    BY <1>1, <2>2, SteadyKept DEF Steady, Looking
<1>11. QED
  BY <1>3, <1>4, <1>5, <1>6, <1>8, <1>9, <1>10 DEF HeapInv

LEMMA ReturnStep ==
    ASSUME HeapInv, ModesInv, Return
    PROVE  HeapInv'
<1>1. /\ pc = "after" /\ op # "quit" /\ heap' = heap /\ q' = q /\ qcnt' = qcnt
      /\ fail_count' = fail_count
      /\ jmp_ready' = jmp_ready /\ time_limited' = time_limited
      /\ verbose' = verbose /\ alarms' = alarms
  BY DEF Return, memory, tally, recovery, noted
<1>2. PICK ok : ok = Verdict
  OBVIOUS
<1>3. ok \in BOOLEAN
  <2>1. loc \in LocalTypes
    BY DEF HeapInv, Typed
  <2>2. QED
    BY <1>2, <2>1 DEF Verdict
<1>4. CASE op = "free" /\ cmd.op = "new"
  <2>1. /\ Enter("new") /\ loc' = [Locals EXCEPT !.ok = ok]
        /\ err_cnt' = err_cnt /\ exit' = exit /\ cmd' = cmd
    BY <1>2, <1>4 DEF Return
  <2>2. QED
    BY <1>1, <1>3, <1>4, <2>1, GoOnWithNew
<1>5. CASE ~(op = "free" /\ cmd.op = "new")
  <2>1. /\ error_occurred' = (error_occurred /\ (Verdict \/ ~Satisfied))
        /\ Record(ok)
        /\ cautious_mode' = cautious_mode /\ noallocate_mode' = noallocate_mode
    BY <1>2, <1>5 DEF Return, modes
  <2>2. error_occurred' \in BOOLEAN
    BY <2>1
  <2>3. QED
    BY <1>1, <1>3, <2>1, <2>2, RecordStep
<1>6. QED
  BY <1>4, <1>5

\* While no alarm has gone off and no command runs, malloc has a block.
LEMMA RoomAtPrompt ==
    ASSUME HeapInv, pc = "idle", Calm
    PROVE  Room
<1>1. Shape /\ op = "none" /\ qcnt \in 0 .. MaxLen
  BY DEF HeapInv, Good, CommandOK, Typed
<1>2. MaxLen \in Nat /\ MaxBlocks \in Nat /\ MaxBlocks >= 2 * MaxLen + 2
  BY TesterAssumption
<1>3. CASE q = NULL
  <2>1. DOMAIN heap = {}
    BY <1>1, <1>3 DEF Shape, NoQueueShape
  <2>2. 1 \in Block
    BY <1>2 DEF Block
  <2>3. QED
    BY <2>1, <2>2 DEF Room
<1>4. CASE q # NULL
  <2>1. PICK ch, vl, st : ShapeOf(ch, vl, st)
    BY <1>1, <1>4 DEF Shape
  <2>2. Resting(ch, vl, st, {}, Len(ch)) /\ qcnt = Len(ch)
    BY <1>1, <2>1 DEF ShapeOf, Steady
  <2>3. PICK S : S = {q}
    OBVIOUS
  <2>4. {q} \cup {} = {q}
    OBVIOUS
  <2>5. Held(heap, ch, vl, st, S, NULL)
    BY <2>2, <2>3, <2>4 DEF Resting
  <2>6. IsFiniteSet(S) /\ Cardinality(S) = 1
    BY <2>3, SmallSets
  <2>7. Len(ch) <= MaxLen
    BY <1>1, <2>2
  <2>8. QED
    BY <2>5, <2>6, <2>7, RestingRoom
<1>5. QED
  BY <1>3, <1>4

LEMMA BeginStep ==
    ASSUME HeapInv, ModesInv, NEW c \in Command, Begin(c)
    PROVE  HeapInv'
<1>1. PICK f : f = IF c.op = "new" /\ q # NULL THEN "free" ELSE c.op
  OBVIOUS
<1>2. /\ pc = "idle" /\ c.op # "bad" /\ Issued(c) /\ Enter(f) /\ cmd' = c /\ loc' = Locals
      /\ heap' = heap /\ q' = q /\ qcnt' = qcnt /\ fail_count' = fail_count
      /\ jmp_ready' = jmp_ready /\ time_limited' = time_limited
      /\ err_cnt' = err_cnt /\ exit' = exit /\ verbose' = verbose /\ alarms' = alarms
  BY <1>1 DEF Begin, memory, tally, recovery, noted
<1>3. /\ op' = f /\ error_occurred' = IF f \in {"show", "quit"} THEN error_occurred ELSE FALSE
      /\ cautious_mode' \in BOOLEAN /\ noallocate_mode' \in BOOLEAN
      /\ pc' = IF f = "show" THEN "show" ELSE "setup"
  BY <1>2 DEF Enter, Goto
<1>4. /\ c.op \in Operations \ {"none", "quit"} /\ c.n \in Nat
      /\ f \notin {"none", "quit", "bad"} /\ op = "none"
      /\ alarms \in Nat /\ error_occurred \in BOOLEAN /\ qcnt \in Nat
      /\ (f = "free" => q # NULL \/ c.op = "free")
  BY <1>1, <1>2, CommandTypes DEF HeapInv, CommandOK, Typed, Operations
<1>5. error_occurred' \in BOOLEAN
  BY <1>3, <1>4
<1>6. Typed'
  BY <1>2, <1>3, <1>5, LocalsTyped DEF HeapInv, Typed
<1>7. CommandOK'
  BY <1>1, <1>2, <1>3, <1>4, LocalsTyped DEF CommandOK, Places
<1>8. CountOK'
  <2>1. SUFFICES ASSUME op' \in Insertions PROVE CountOK'
    BY DEF CountOK
  <2>2. c.op = f
    BY <1>1, <1>3, <2>1 DEF Insertions
  <2>3. qcnt + c.n <= MaxLen
    BY <1>2, <1>3, <2>1, <2>2 DEF Issued, Insertions
  <2>4. loc'.r = 0 /\ loc'.r <= c.n /\ qcnt + (c.n - loc'.r) <= MaxLen
    BY <1>2, <1>4, <2>3, LocalsTyped
  <2>5. QED
    BY <1>2, <1>3, <2>1, <2>4 DEF CountOK, AtInsertion
<1>9. ~Calm => c.op \in {"show", "free"}
  BY <1>2, <1>4 DEF Issued, Calm
<1>10. CalmPlaces'
  <2>1. pc' = "setup" => Calm' \/ op' \in {"free", "new", "quit"}
    BY <1>1, <1>2, <1>3, <1>9 DEF Calm
  <2>2. QED
    BY <1>3, <2>1 DEF CalmPlaces, AtInsertion, AtRemoval, AtReverse
<1>11. QueueThere'
  BY <1>1, <1>2, <1>3, <1>4 DEF HeapInv, QueueThere, AtInsertion, AtRemoval, AtFree
<1>12. RoomForNew'
  <2>1. SUFFICES ASSUME c.op = "new" PROVE Room'
    BY <1>1, <1>2, <1>3 DEF RoomForNew
  <2>2. Calm
    BY <1>9, <2>1
  <2>3. Room
    BY <1>2, <2>2, RoomAtPrompt
  <2>4. QED
    BY <1>2, <2>3 DEF Room
<1>13. Good' => Shape'
  <2>1. SUFFICES ASSUME Good' PROVE Shape'
    OBVIOUS
  <2>2. Shape
    BY <1>2, <1>3, <2>1 DEF HeapInv, Good, AtInsertion, Calm
  <2>3. QED
    BY <1>2, <1>3, <1>4, <2>2, SteadyKept, LocalsTyped DEF Steady, Looking
<1>14. QED
  BY <1>6, <1>7, <1>8, <1>10, <1>11, <1>12, <1>13 DEF HeapInv

LEMMA QuitStep ==
    ASSUME HeapInv, ModesInv, Quit
    PROVE  HeapInv'
<1>1. /\ pc = "idle" /\ Enter("quit") /\ loc' = Locals
      /\ heap' = heap /\ q' = q /\ qcnt' = qcnt /\ fail_count' = fail_count
      /\ jmp_ready' = jmp_ready /\ time_limited' = time_limited /\ cmd' = cmd
      /\ err_cnt' = err_cnt /\ exit' = exit /\ verbose' = verbose /\ alarms' = alarms
  BY DEF Quit, memory, tally, recovery, history
<1>2. /\ op' = "quit" /\ error_occurred' = error_occurred
      /\ cautious_mode' \in BOOLEAN /\ noallocate_mode' = FALSE /\ pc' = "setup"
  BY <1>1 DEF Enter, Goto
<1>3. op = "none"
  BY <1>1 DEF HeapInv, CommandOK
<1>4. Typed'
  BY <1>1, <1>2, LocalsTyped DEF HeapInv, Typed
<1>5. CommandOK'
  BY <1>1, <1>2 DEF CommandOK, Places
<1>6. CountOK'
  BY <1>2 DEF CountOK, Insertions
<1>7. CalmPlaces'
  BY <1>2 DEF CalmPlaces, AtInsertion, AtRemoval, AtReverse
<1>8. QueueThere'
  BY <1>1, <1>2, <1>3 DEF HeapInv, QueueThere, AtInsertion, AtRemoval, AtFree
<1>9. RoomForNew'
  BY <1>2 DEF RoomForNew
<1>10. Good' => Shape'
  <2>1. SUFFICES ASSUME Good' PROVE Shape'
    OBVIOUS
  <2>2. Shape
    BY <1>1, <1>2, <2>1 DEF HeapInv, Good, AtInsertion, Calm
  <2>3. CASE q = NULL
    <3>1. NoQueueShape
      BY <1>1, <2>2, <2>3 DEF Shape
    <3>2. NoQueueShape'
      BY <1>1, <1>2, <3>1 DEF NoQueueShape
    <3>3. QED
      BY <1>1, <2>3, <3>2 DEF Shape
  <2>4. CASE q # NULL
    <3>1. PICK ch, vl, st : ShapeOf(ch, vl, st)
      BY <1>1, <2>2, <2>4 DEF Shape
    <3>2. Resting(ch, vl, st, {}, Len(ch))
      BY <1>1, <1>3, <3>1 DEF ShapeOf, Steady
    <3>3. Resting(ch, vl, st, {}, Len(ch))'
      BY <1>1, <3>2 DEF Resting
    <3>4. InsertShape(ch, vl, st)' /\ RemoveShape(ch, vl, st)' /\ FreeShape(ch, vl, st)'
          /\ OtherShape(ch, vl, st)'
      BY <1>2 DEF InsertShape, RemoveShape, FreeShape, OtherShape, AtRemoval
    <3>5. ShapeOf(ch, vl, st)'
      BY <1>2, <3>3, <3>4 DEF ShapeOf
    <3>6. QED
      BY <1>1, <2>4, <3>5 DEF Shape
  <2>5. QED
    BY <2>3, <2>4
<1>11. QED
  BY <1>4, <1>5, <1>6, <1>7, <1>8, <1>9, <1>10 DEF HeapInv

LEMMA EndStep ==
    ASSUME HeapInv, ModesInv, Leave \/ Finish
    PROVE  HeapInv'
<1>1. /\ pc' = "exit" /\ op' \in {"none", "quit"} /\ op' = op
      /\ exit' \in {"no", "success", "failure"}
      /\ heap' = heap /\ q' = q /\ qcnt' = qcnt /\ fail_count' = fail_count
      /\ error_occurred' = error_occurred
      /\ cautious_mode' = cautious_mode /\ noallocate_mode' = noallocate_mode
      /\ jmp_ready' = jmp_ready /\ time_limited' = time_limited /\ cmd' = cmd
      /\ err_cnt' = err_cnt /\ loc' = loc /\ verbose' = verbose /\ alarms' = alarms
      /\ op = "none" => pc = "idle"
  <2>1. CASE Leave
    BY <2>1 DEF Leave, Goto, memory, tally, modes, recovery, history, HeapInv, CommandOK
  <2>2. CASE Finish
    BY <2>2 DEF Finish, Goto, memory, tally, modes, recovery, history
  <2>3. QED
    BY <2>1, <2>2
<1>2. Typed'
  BY <1>1 DEF HeapInv, Typed
<1>3. CommandOK'
  BY <1>1 DEF CommandOK, Places
<1>4. CountOK'
  BY <1>1 DEF CountOK, Insertions
<1>5. CalmPlaces'
  BY <1>1 DEF CalmPlaces, AtInsertion, AtRemoval, AtReverse
<1>6. QueueThere'
  BY <1>1 DEF HeapInv, QueueThere, AtInsertion, AtRemoval, AtFree
<1>7. RoomForNew'
  BY <1>1 DEF RoomForNew
<1>8. Shape'
  BY <1>1 DEF Shape
<1>9. QED
  BY <1>2, <1>3, <1>4, <1>5, <1>6, <1>7, <1>8 DEF HeapInv

-----------------------------------------------------------------------------
(***************************************************************************)
(* Exceptions.                                                             *)
(***************************************************************************)
LEMMA ListElement ==
    ASSUME NEW h, NEW ch, NEW vl, NEW st, NEW S, NEW e,
           Held(h, ch, vl, st, S, e), NEW i \in 1 .. Len(ch)
    PROVE  /\ ch[i] \in DOMAIN h /\ h[ch[i]].kind = "element"
           /\ h[ch[i]].value = vl[i] /\ vl[i] \in DOMAIN h
<1>1. h[ch[i]] = Element(vl[i], NextOf(ch, i, e))
  BY DEF Held, Linked
<1>2. ch[i] \in DOMAIN h /\ vl[i] \in DOMAIN h
  BY DEF Held, Extent
<1>3. QED
  BY <1>1, <1>2, QueueFields

\* A pointer to the first element of a list, or NULL.
LEMMA FirstIsElement ==
    ASSUME NEW ch, NEW vl, NEW st, NEW S, NEW e, Held(heap, ch, vl, st, S, e),
           NEW p, p = FirstOf(ch, NULL)
    PROVE  /\ p = NULL \/ IsElement(p)
           /\ ch # << >> => IsElement(p) /\ heap[p].value \in DOMAIN heap
<1>1. CASE ch = << >>
  BY <1>1 DEF FirstOf
<1>2. CASE ch # << >>
  <2>1. 1 \in 1 .. Len(ch)
    BY <1>2, ListLength DEF Held
  <2>2. /\ ch[1] \in DOMAIN heap /\ heap[ch[1]].kind = "element"
        /\ heap[ch[1]].value = vl[1] /\ vl[1] \in DOMAIN heap
    BY <2>1, ListElement
  <2>3. p = ch[1]
    BY <1>2 DEF FirstOf
  <2>4. QED
    BY <1>2, <2>2, <2>3 DEF IsElement
<1>3. QED
  BY <1>1, <1>2

LEMMA ShapeThere ==
    ASSUME HeapInv, Good, pc # "exit", q # NULL
    PROVE  \E ch, vl, st : ShapeOf(ch, vl, st)
  BY DEF HeapInv, Shape

\* As long as the list has the form that the statement expects, the pointers
\* that it follows lead to elements.
LEMMA GoodPointers ==
    ASSUME HeapInv, ModesInv, Good
    PROVE  ~BadPointer
<1>1. SUFFICES ASSUME BadPointer PROVE FALSE
  OBVIOUS
<1>2. pc \in {"free.next", "reverse.loop", "show.loop", "free.value", "remove.value", "it",
              "remove", "remove.head", "free.element", "remove.element", "ret"}
  BY <1>1 DEF BadPointer
<1>3. pc = "remove" \/ q # NULL \/ (pc = "ret" /\ ~loc.rval)
  BY <1>2 DEF HeapInv, QueueThere, AtInsertion, AtRemoval, AtFree
<1>4. q # NULL
  BY <1>1, <1>2, <1>3 DEF BadPointer
<1>5. PICK ch, vl, st : ShapeOf(ch, vl, st)
  BY <1>2, <1>4, ShapeThere
<1>6. op # "quit" \/ pc \in AtFree
  BY <1>2 DEF ModesInv, OperationFits, HeapInv, CommandOK, AtInsertion, AtRemoval, AtReverse,
     AtFree, Insertions, Removals
<1>7. {q} \cup {} = {q}
  OBVIOUS
<1>8. CASE pc = "free.next"
  <2>1. Held(heap, ch, vl, st, {q}, NULL) /\ loc.ptr = FirstOf(ch, NULL)
    BY <1>5, <1>8 DEF ShapeOf, FreeShape
  <2>2. PICK p : p = loc.ptr
    OBVIOUS
  <2>3. p = NULL \/ IsElement(p)
    BY <2>1, <2>2, FirstIsElement
  <2>4. QED
    BY <1>1, <1>8, <2>2, <2>3 DEF BadPointer
<1>9. CASE pc = "free.value"
  <2>1. Held(heap, ch, vl, st, {q}, NULL) /\ loc.ptr = FirstOf(ch, NULL) /\ ch # << >>
    BY <1>5, <1>9 DEF ShapeOf, FreeShape
  <2>2. PICK p : p = loc.ptr
    OBVIOUS
  <2>3. IsElement(p) /\ heap[p].value \in DOMAIN heap
    BY <2>1, <2>2, FirstIsElement
  <2>4. QED
    BY <1>1, <1>9, <2>2, <2>3 DEF BadPointer
<1>10. CASE pc \in {"free.element", "remove.element"}
  <2>1. heap[loc.ptr].kind = "element" /\ loc.ptr \in DOMAIN heap
    BY <1>5, <1>10 DEF ShapeOf, FreeShape, RemoveShape, Resting, Held, Extent
  <2>2. QED
    BY <1>1, <1>10, <2>1 DEF BadPointer, IsElement
<1>11. CASE pc = "remove.value"
  <2>1. heap[loc.ptr].kind = "element" /\ loc.ptr \in DOMAIN heap
        /\ heap[loc.ptr].value \in DOMAIN heap
    BY <1>5, <1>11 DEF ShapeOf, RemoveShape, Resting, Held, Extent
  <2>2. QED
    BY <1>1, <1>11, <2>1 DEF BadPointer, IsElement
<1>12. CASE pc \in {"remove", "remove.head"}
  <2>1. Held(heap, ch, vl, st, {q}, NULL) /\ heap[q].head = FirstOf(ch, NULL)
    BY <1>5, <1>6, <1>7, <1>12, QueueFields DEF ShapeOf, Steady, Resting, AtFree
  <2>2. CASE pc = "remove"
    <3>1. PICK p : p = heap[q].head
      OBVIOUS
    <3>2. p = NULL \/ IsElement(p)
      BY <2>1, <3>1, FirstIsElement
    <3>3. QED
      BY <1>1, <2>2, <3>1, <3>2 DEF BadPointer
  <2>3. CASE pc = "remove.head"
    <3>1. PICK p : p = loc.ptr
      OBVIOUS
    <3>2. ch # << >> /\ p = FirstOf(ch, NULL)
      BY <1>5, <2>3, <3>1 DEF ShapeOf, RemoveShape, FirstOf
    <3>3. IsElement(p)
      BY <2>1, <3>2, FirstIsElement
    <3>4. QED
      BY <1>1, <2>3, <3>1, <3>3 DEF BadPointer
  <2>4. QED
    BY <1>12, <2>2, <2>3
<1>13. CASE pc = "ret"
  <2>1. loc.rval
    BY <1>1, <1>13 DEF BadPointer
  <2>2. /\ Held(heap, ch, vl, st, {q}, NULL) /\ heap[q].head = FirstOf(ch, NULL)
        /\ Len(ch) >= 1
    BY <1>5, <1>7, <1>13, <2>1, QueueFields DEF ShapeOf, InsertShape, Resting
  <2>3. PICK p : p = heap[q].head
    OBVIOUS
  <2>4. ch # << >>
    BY <2>2, ListLength DEF Held
  <2>5. IsElement(p)
    BY <2>2, <2>3, <2>4, FirstIsElement
  <2>6. QED
    BY <1>1, <1>13, <2>3, <2>5 DEF BadPointer
<1>14. CASE pc = "it"
  <2>1. PICK S : S = {q} \cup {loc.ptr, heap[loc.ptr].value}
    OBVIOUS
  <2>2. /\ Held(heap, ch, vl, st, S, NULL) /\ heap[q].size = Len(ch)
        /\ TailOK(ch, heap[q].tail)
    <3>1. Resting(ch, vl, st, {loc.ptr, heap[loc.ptr].value}, Len(ch))
      BY <1>5, <1>14 DEF ShapeOf, InsertShape
    <3>2. Held(heap, ch, vl, st, S, NULL) /\ TailOK(ch, heap[q].tail)
      BY <2>1, <3>1 DEF Resting
    <3>3. heap[q] = Queue(FirstOf(ch, NULL), heap[q].tail, Len(ch))
      BY <3>1 DEF Resting
    <3>4. heap[q].size = Len(ch)
      BY <3>3, QueueFields
    <3>5. QED
      BY <3>2, <3>4
  <2>3. heap[q].size # 0
    BY <1>1, <1>14 DEF BadPointer
  <2>4. Len(ch) \in Nat /\ (ch # << >> <=> Len(ch) >= 1)
    BY <2>2, ListLength DEF Held
  <2>5. PICK n : n = Len(ch)
    OBVIOUS
  <2>6. n \in 1 .. Len(ch) /\ ch # << >>
    BY <2>2, <2>3, <2>4, <2>5
  <2>7. ch[n] \in DOMAIN heap /\ heap[ch[n]].kind = "element"
    BY <2>2, <2>6, ListElement
  <2>8. heap[q].tail = ch[n]
    BY <2>2, <2>5, <2>6 DEF TailOK
  <2>9. QED
    BY <1>1, <1>14, <2>7, <2>8 DEF BadPointer, IsElement
<1>15. CASE pc = "reverse.loop"
  <2>1. PICK cs, vs, ss, k :
            /\ k \in 0 .. Len(cs) /\ Turned(heap, cs, vs, ss, {q}, k) /\ Len(cs) \in Nat
            /\ loc.ptr = IF k = Len(cs) THEN NULL ELSE cs[k + 1]
    BY <1>15, LoopFacts
  <2>2. loc.ptr # NULL
    BY <1>1, <1>15 DEF BadPointer
  <2>3. k + 1 \in 1 .. Len(cs) /\ loc.ptr = cs[k + 1]
    BY <2>1, <2>2
  <2>4. heap[cs[k + 1]] = Element(vs[k + 1], TurnedNext(cs, k + 1, k))
        /\ cs[k + 1] \in DOMAIN heap
    BY <2>1, <2>3 DEF Turned, Extent
  <2>5. heap[cs[k + 1]].kind = "element"
    BY <2>4, QueueFields
  <2>6. QED
    BY <1>1, <1>15, <2>3, <2>4, <2>5 DEF BadPointer, IsElement
<1>16. CASE pc = "show.loop"
  <2>1. Held(heap, ch, vl, st, {q}, NULL) /\ loc.seen <= Len(ch)
        /\ loc.ptr = IF loc.seen = Len(ch) THEN NULL ELSE ch[loc.seen + 1]
    BY <1>5, <1>6, <1>7, <1>16 DEF ShapeOf, Steady, Resting, OtherShape, AtFree
  <2>2. loc.ptr # NULL /\ loc.seen \in Nat
    BY <1>1, <1>16 DEF BadPointer, HeapInv, Typed, LocalTypes
  <2>3. Len(ch) \in Nat
    BY <2>1, ListLength DEF Held
  <2>4. PICK k : k = loc.seen + 1
    OBVIOUS
  <2>5. k \in 1 .. Len(ch) /\ loc.ptr = ch[k]
    BY <2>1, <2>2, <2>3, <2>4
  <2>6. ch[k] \in DOMAIN heap /\ heap[ch[k]].kind = "element"
    BY <2>1, <2>5, ListElement
  <2>7. QED
    BY <1>1, <1>16, <2>5, <2>6 DEF BadPointer, IsElement
<1>17. QED
  BY <1>2, <1>8, <1>9, <1>10, <1>11, <1>12, <1>13, <1>14, <1>15, <1>16

\* Where the exception comes out, and with which local variables: in show_queue,
\* in the loop of a repeated command, in an insertion, or behind the function.
OutInShow ==
    pc = "show.loop" /\ pc' \in {"show.loop", "show.cancel"} /\ loc' = loc

OutInLoop ==
    /\ pc = "loop" /\ pc' \in {"cancel", "loop"}
    /\ \E r : /\ loc' = [loc EXCEPT !.r = r]
              /\ r = IF loc.r \in 1 .. cmd.n - 1 THEN loc.r + 1 ELSE loc.r

OutInInsertion ==
    /\ op \in Insertions /\ loc' = [loc EXCEPT !.rval = FALSE]
    /\ \/ pc \in AtInsertion /\ pc' = "ret"
       \/ pc = "check" /\ pc' \in {"ret", "check"}

OutBehind ==
    \/ op = "size" /\ pc' = "check" /\ loc' = [loc EXCEPT !.seen = 0]
    \/ pc' = "cancel" /\ loc' = [loc EXCEPT !.rval = FALSE]

LEMMA ReturnAgainCases ==
    ASSUME HeapInv, ModesInv, jmp_ready = TRUE, ReturnAgain
    PROVE  OutInShow \/ OutInLoop \/ OutInInsertion \/ OutBehind
<1>1. pc \notin Unprepared
  BY DEF ModesInv
<1>2. CASE pc = "show.loop"
  <2>1. pc' \in {"show.loop", "show.cancel"} /\ loc' = loc
    BY <1>2 DEF ReturnAgain, Goto
  <2>2. QED
    BY <1>2, <2>1 DEF OutInShow
<1>3. CASE pc = "loop"
  <2>1. pc' = IF loc.r = 0 THEN "cancel" ELSE "loop"
    BY <1>3 DEF ReturnAgain, Goto
  <2>2. PICK r : r = IF loc.r \in 1 .. cmd.n - 1 THEN loc.r + 1 ELSE loc.r
    OBVIOUS
  <2>3. loc' = [loc EXCEPT !.r = r]
    BY <1>3, <2>2 DEF ReturnAgain
  <2>4. QED
    BY <1>3, <2>1, <2>2, <2>3 DEF OutInLoop
<1>4. CASE pc \notin {"show.loop", "loop", "cancel", "check"} /\ op \in Insertions
  <2>1. pc \in AtInsertion
    BY <1>1, <1>4 DEF Unprepared, HeapInv, CommandOK, Places, ModesInv, OperationFits,
       AtRound, AtRemoval, AtFree, AtReverse, AtNew, Insertions, Removals
  <2>2. pc' = "ret" /\ loc' = [loc EXCEPT !.rval = FALSE]
    BY <1>4 DEF ReturnAgain, Goto, Insertions
  <2>3. QED
    BY <1>4, <2>1, <2>2 DEF OutInInsertion
<1>5. CASE pc = "check" /\ op \in Insertions
  <2>1. pc' \in {"ret", "check"} /\ loc' = [loc EXCEPT !.rval = FALSE]
    BY <1>5 DEF ReturnAgain, Goto, Insertions
  <2>2. QED
    BY <1>5, <2>1 DEF OutInInsertion
<1>6. CASE op = "size" /\ pc \in {"size", "check"}
  <2>1. pc' = "check" /\ loc' = [loc EXCEPT !.seen = 0]
    BY <1>6 DEF ReturnAgain, Goto
  <2>2. QED
    BY <1>6, <2>1 DEF OutBehind
<1>7. CASE pc = "cancel" \/ (pc \notin {"show.loop", "loop"} /\ op \notin Insertions
                             /\ ~(op = "size" /\ pc \in {"size", "check"}))
  <2>1. pc' = "cancel" /\ loc' = [loc EXCEPT !.rval = FALSE]
    BY <1>7 DEF ReturnAgain, Goto, Insertions
  <2>2. QED
    BY <2>1 DEF OutBehind
<1>8. QED
  BY <1>2, <1>3, <1>4, <1>5, <1>6, <1>7

\* What siglongjmp and the handlers leave as it was.
ExceptionSame ==
    /\ heap' = heap /\ q' = q /\ qcnt' = qcnt /\ fail_count' = fail_count
    /\ error_occurred' = TRUE /\ jmp_ready' = FALSE /\ time_limited' = FALSE
    /\ cautious_mode' = cautious_mode /\ noallocate_mode' = noallocate_mode
    /\ err_cnt' = err_cnt /\ cmd' = cmd /\ op' = op /\ verbose' = verbose

LEMMA ExceptionLeaves == TriggerException => ExceptionSame
  BY DEF TriggerException, ExceptionSame, memory, tally, modes

\* Without a jump prepared, the process ends.
LEMMA FatalException ==
    ASSUME HeapInv, ModesInv, ExceptionSame, alarms' \in 1 .. MaxAlarms,
           pc' = "exit", exit' = "failure", loc' = loc
    PROVE  HeapInv'
<1>1. Typed'
  <2>1. alarms' \in 0 .. MaxAlarms
    OBVIOUS
  <2>2. QED
    BY <2>1 DEF ExceptionSame, HeapInv, Typed
<1>2. CommandOK'
  BY DEF CommandOK, Places
<1>3. CountOK'
  BY DEF CountOK, AtInsertion
<1>4. CalmPlaces'
  BY DEF CalmPlaces, AtInsertion, AtRemoval, AtReverse
<1>5. QueueThere'
  BY DEF ExceptionSame, HeapInv, QueueThere, AtInsertion, AtRemoval, AtFree
<1>6. RoomForNew'
  BY DEF ExceptionSame, HeapInv, RoomForNew, Room
<1>7. Shape'
  BY DEF Shape
<1>8. QED
  BY <1>1, <1>2, <1>3, <1>4, <1>5, <1>6, <1>7 DEF HeapInv

\* It remains to see where the function goes on.
LEMMA JumpTyped ==
    ASSUME HeapInv, ExceptionSame, alarms' \in 1 .. MaxAlarms, pc # "exit",
           exit' = exit, loc' \in LocalTypes
    PROVE  Typed' /\ ~Calm'
<1>1. alarms' \in 0 .. MaxAlarms /\ alarms' # 0
  OBVIOUS
<1>2. Typed'
  BY <1>1 DEF ExceptionSame, HeapInv, Typed
<1>3. QED
  BY <1>1, <1>2 DEF Calm

LEMMA JumpFromShow ==
    ASSUME HeapInv, ModesInv, ExceptionSame, alarms' \in 1 .. MaxAlarms, exit' = exit,
           OutInShow
    PROVE  HeapInv'
<1> USE DEF OutInShow
<1>1. op # "quit" /\ op # "free" /\ q # NULL /\ loc' \in LocalTypes
  BY DEF HeapInv, CommandOK, QueueThere, Typed
<1>2. Typed' /\ ~Calm'
  BY <1>1, JumpTyped
<1>3. CommandOK'
  BY <1>1 DEF ExceptionSame, HeapInv, CommandOK, Places
<1>4. CountOK'
  BY DEF CountOK, AtInsertion
<1>5. CalmPlaces'
  BY <1>2 DEF CalmPlaces, AtInsertion, AtRemoval, AtReverse
<1>6. QueueThere'
  BY <1>1 DEF ExceptionSame, HeapInv, QueueThere, AtInsertion, AtRemoval, AtFree
<1>7. RoomForNew'
  BY DEF ExceptionSame, HeapInv, RoomForNew, Room
<1>8. ~Good'
  BY <1>2 DEF Good, AtInsertion
<1>9. QED
  BY <1>2, <1>3, <1>4, <1>5, <1>6, <1>7, <1>8 DEF HeapInv

LEMMA JumpFromLoop ==
    ASSUME HeapInv, ModesInv, ExceptionSame, alarms' \in 1 .. MaxAlarms, exit' = exit,
           OutInLoop
    PROVE  HeapInv'
<1>0. pc = "loop" /\ pc' \in {"cancel", "loop"}
  BY DEF OutInLoop
<1>r. PICK r : /\ loc' = [loc EXCEPT !.r = r]
              /\ r = IF loc.r \in 1 .. cmd.n - 1 THEN loc.r + 1 ELSE loc.r
  BY DEF OutInLoop
<1>1. op \in {"ih", "it", "size"} /\ loc \in LocalTypes /\ loc.r \in Nat
  BY <1>0, <1>r DEF ModesInv, OperationFits, AtRound, Insertions, HeapInv, Typed, LocalTypes
<1>2. cmd \in Command /\ cmd.n \in Nat /\ qcnt \in Nat /\ MaxLen \in Nat
  BY <1>0, <1>r, <1>1, CommandTypes, BlockFinite DEF HeapInv, CommandOK, Typed
<1>3. r \in Nat /\ r >= loc.r /\ (loc.r <= cmd.n => r <= cmd.n)
  BY <1>0, <1>r, <1>1, <1>2
<1>4. /\ loc' \in LocalTypes /\ loc'.r = r /\ loc'.ok = loc.ok /\ loc'.aux = loc.aux
      /\ loc'.rval = loc.rval
  BY <1>0, <1>r, <1>1, <1>3 DEF LocalTypes
<1>5. Typed' /\ ~Calm'
  BY <1>0, <1>r, <1>4, JumpTyped
<1>6. CommandOK'
  BY <1>0, <1>r, <1>1 DEF ExceptionSame, HeapInv, CommandOK, Places, AtRound
<1>7. CountOK'
  <2>1. op \in Insertions => loc.r <= cmd.n /\ qcnt + (cmd.n - loc.r) <= MaxLen
    BY <1>0, <1>r DEF HeapInv, CountOK
  <2>2. op \in Insertions => loc'.r <= cmd.n /\ qcnt + (cmd.n - loc'.r) <= MaxLen
    BY <1>0, <1>r, <1>1, <1>2, <1>3, <1>4, <2>1
  <2>3. QED
    BY <1>0, <1>r, <2>2 DEF CountOK, AtInsertion, ExceptionSame
<1>8. CalmPlaces'
  BY <1>0, <1>r, <1>1 DEF CalmPlaces, AtInsertion, AtRemoval, AtReverse, ExceptionSame, Removals
<1>9. QueueThere'
  BY <1>0, <1>r, <1>1 DEF ExceptionSame, HeapInv, QueueThere, AtInsertion, AtRemoval, AtFree
<1>10. RoomForNew'
  BY <1>0, <1>r DEF ExceptionSame, HeapInv, RoomForNew, Room
<1>11. Good' => Shape'
  <2>1. SUFFICES ASSUME Good' PROVE Shape'
    OBVIOUS
  <2>2. pc' = "loop" /\ Good
    BY <1>0, <1>r, <1>4, <1>5, <2>1 DEF Good, AtInsertion, ExceptionSame
  <2>3. Shape
    BY <1>0, <1>r, <2>2 DEF HeapInv
  <2>4. QED
    BY <1>0, <1>r, <1>1, <1>4, <2>2, <2>3, SteadyKept DEF ExceptionSame, Steady, Looking
<1>12. QED
  BY <1>0, <1>r, <1>5, <1>6, <1>7, <1>8, <1>9, <1>10, <1>11 DEF HeapInv

LEMMA JumpFromInsertion ==
    ASSUME HeapInv, ModesInv, ExceptionSame, alarms' \in 1 .. MaxAlarms, exit' = exit,
           OutInInsertion
    PROVE  HeapInv'
<1> USE DEF OutInInsertion
<1>1. /\ loc \in LocalTypes /\ loc' \in LocalTypes /\ loc'.rval = FALSE
      /\ loc'.r = loc.r /\ loc'.ok = loc.ok /\ loc.r \in Nat /\ loc.rval \in BOOLEAN
  BY LocalFields, LocalsKept DEF HeapInv, Typed
<1>2. pc \in AtInsertion \cup {"check"} /\ pc' \in {"ret", "check"} /\ pc # "exit"
  BY DEF AtInsertion
<1>3. Typed' /\ ~Calm'
  BY <1>1, <1>2, JumpTyped
<1>4. cmd \in Command /\ cmd.n \in Nat /\ qcnt \in Nat /\ MaxLen \in Nat
  BY <1>2, CommandTypes, BlockFinite DEF HeapInv, CommandOK, Typed, Insertions, AtInsertion
<1>5. CommandOK'
  BY <1>2 DEF ExceptionSame, HeapInv, CommandOK, Places, AtInsertion, AtRound, Insertions
<1>6. CountOK'
  <2>1. loc.r < cmd.n /\ qcnt + (cmd.n - loc.r) <= MaxLen + 1
    <3>1. CASE pc \in AtInsertion \ {"ret"} \/ (pc = "ret" /\ loc.rval)
      <4>1. loc.r < cmd.n /\ qcnt + (cmd.n - loc.r) <= MaxLen
        BY <3>1 DEF HeapInv, CountOK
      <4>2. QED
        BY <1>1, <1>4, <4>1
    <3>2. CASE pc = "check" \/ (pc = "ret" /\ ~loc.rval)
      BY <3>2 DEF HeapInv, CountOK
    <3>3. QED
      BY <1>2, <3>1, <3>2
  <2>2. QED
    BY <1>1, <1>2, <2>1 DEF CountOK, AtInsertion, ExceptionSame
<1>7. CalmPlaces'
  BY <1>1, <1>2 DEF CalmPlaces, AtInsertion, AtRemoval, AtReverse, ExceptionSame
<1>8. QueueThere'
  BY <1>1, <1>2 DEF ExceptionSame, HeapInv, QueueThere, AtInsertion, AtRemoval, AtFree,
     Insertions
<1>9. RoomForNew'
  BY DEF ExceptionSame, RoomForNew, Insertions
<1>10. ~Good'
  BY <1>2, <1>3 DEF Good, AtInsertion
<1>11. QED
  BY <1>3, <1>5, <1>6, <1>7, <1>8, <1>9, <1>10 DEF HeapInv

LEMMA JumpToVerdict ==
    ASSUME HeapInv, ModesInv, ExceptionSame, alarms' \in 1 .. MaxAlarms, exit' = exit,
           pc \notin {"idle", "exit"}, OutBehind
    PROVE  HeapInv'
<1> USE DEF OutBehind
<1>1. loc' \in LocalTypes /\ (pc' = "cancel" => loc'.rval = FALSE)
  <2>1. loc \in LocalTypes
    BY DEF HeapInv, Typed
  <2>2. [loc EXCEPT !.rval = FALSE] \in LocalTypes /\ [loc EXCEPT !.rval = FALSE].rval = FALSE
    BY <2>1, LocalFields, LocalsKept
  <2>3. [loc EXCEPT !.seen = 0] \in LocalTypes
    BY <2>1 DEF LocalTypes
  <2>4. QED
    BY <2>2, <2>3
<1>2. Typed' /\ ~Calm'
  BY <1>1, JumpTyped
<1>3. CommandOK'
  BY DEF ExceptionSame, HeapInv, CommandOK, Places, AtRound
<1>4. CountOK'
  BY DEF CountOK, AtInsertion, ExceptionSame, Insertions
<1>5. CalmPlaces'
  BY <1>1 DEF CalmPlaces, AtInsertion, AtRemoval, AtReverse, ExceptionSame, Insertions
<1>6. QueueThere'
  BY DEF ExceptionSame, HeapInv, QueueThere, AtInsertion, AtRemoval, AtFree
<1>7. RoomForNew'
  BY DEF ExceptionSame, HeapInv, RoomForNew, Room
<1>8. ~Good'
  BY <1>2 DEF Good, AtInsertion, ExceptionSame, Insertions
<1>9. QED
  BY <1>2, <1>3, <1>4, <1>5, <1>6, <1>7, <1>8 DEF HeapInv

LEMMA ExceptionStep ==
    ASSUME HeapInv, ModesInv, TriggerException, alarms' \in 1 .. MaxAlarms
    PROVE  HeapInv'
<1>1. ExceptionSame
  BY ExceptionLeaves
<1>2. CASE jmp_ready = TRUE
  <2>1. ReturnAgain /\ exit' = exit
    BY <1>2 DEF TriggerException
  <2>2. pc \notin {"idle", "exit"}
    BY <1>2 DEF ModesInv, Unprepared
  <2>3. CASE OutInShow
    BY <1>1, <2>1, <2>3, JumpFromShow
  <2>4. CASE OutInLoop
    BY <1>1, <2>1, <2>4, JumpFromLoop
  <2>5. CASE OutInInsertion
    BY <1>1, <2>1, <2>5, JumpFromInsertion
  <2>6. CASE OutBehind
    BY <1>1, <2>1, <2>2, <2>6, JumpToVerdict
  <2>7. QED
    BY <1>2, <2>1, <2>3, <2>4, <2>5, <2>6, ReturnAgainCases
<1>3. CASE jmp_ready = FALSE
  <2>1. pc' = "exit" /\ exit' = "failure" /\ loc' = loc
    BY <1>3 DEF TriggerException, Goto
  <2>2. QED
    BY <1>1, <2>1, FatalException
<1>4. QED
  BY <1>2, <1>3 DEF HeapInv, Typed

\* Either an alarm goes off, or a pointer is followed that an earlier one has
\* damaged.
LEMMA AlarmCounted ==
    ASSUME HeapInv, ModesInv, Alarm \/ Segv
    PROVE  alarms' \in 1 .. MaxAlarms
<1>1. alarms \in 0 .. MaxAlarms /\ MaxAlarms \in Nat
  BY TesterAssumption DEF HeapInv, Typed
<1>2. CASE Alarm
  <2>1. alarms' = alarms + 1 /\ alarms < MaxAlarms
    BY <1>2 DEF Alarm
  <2>2. QED
    BY <1>1, <2>1
<1>3. CASE Segv
  <2>1. alarms' = alarms /\ BadPointer
    BY <1>3 DEF Segv
  <2>2. alarms # 0
    BY <2>1, GoodPointers DEF Good, Calm
  <2>3. QED
    BY <1>1, <2>1, <2>2
<1>4. QED
  BY <1>2, <1>3

LEMMA AlarmStep ==
    ASSUME HeapInv, ModesInv, Alarm \/ Segv
    PROVE  HeapInv'
<1>1. TriggerException
  BY DEF Alarm, Segv
<1>2. QED
  BY <1>1, AlarmCounted, ExceptionStep

-----------------------------------------------------------------------------
LEMMA HeapInitially == Init => HeapInv
<1> SUFFICES ASSUME Init PROVE HeapInv
  OBVIOUS
<1>1. /\ heap = << >> /\ q = NULL /\ qcnt = 0 /\ fail_count = 0 /\ err_cnt = 0
      /\ exit = "no" /\ pc = "idle" /\ cmd = NoCommand /\ op = "none" /\ loc = Locals
      /\ alarms = 0 /\ error_occurred = FALSE
      /\ cautious_mode = TRUE /\ noallocate_mode = FALSE
      /\ jmp_ready = FALSE /\ time_limited = FALSE /\ verbose \in BOOLEAN
  BY DEF Init
<1>2. DOMAIN heap = {}
  BY <1>1
<1>3. heap \in [DOMAIN heap -> QueueCells \cup ElementCells \cup StringCells]
  BY <1>1, <1>2
<1>4. 0 \in 0 .. MaxLen /\ 0 \in 0 .. MaxAlarms /\ 0 \in 0 .. ErrLimit /\ 0 < ErrLimit
  BY TesterAssumption
<1>5. Typed
  BY <1>1, <1>2, <1>3, <1>4, LocalsTyped DEF Typed
<1>6. CommandOK
  BY <1>1 DEF CommandOK, Places
<1>7. CountOK
  BY <1>1 DEF CountOK, Insertions
<1>8. CalmPlaces
  BY <1>1 DEF CalmPlaces, AtInsertion, AtRemoval, AtReverse
<1>9. QueueThere
  BY <1>1 DEF QueueThere, AtInsertion, AtRemoval, AtFree
<1>10. RoomForNew
  BY <1>1 DEF RoomForNew
<1>11. Shape
  BY <1>1, <1>2 DEF Shape, NoQueueShape
<1>12. QED
  BY <1>5, <1>6, <1>7, <1>8, <1>9, <1>10, <1>11 DEF HeapInv

\* The statements of a command, queue.c's and qtest.c's.
LEMMA StatementStep ==
    ASSUME HeapInv, ModesInv, Statement
    PROVE  HeapInv'
<1>1. ~BadPointer
  BY DEF Statement
<1>2. CASE Library
  BY <1>1, <1>2, LibraryStep
<1>3. CASE ExceptionSetup
  BY <1>3, SetupStep
<1>4. CASE Loop
  BY <1>4, LoopStep
<1>5. CASE AfterInsertion
  BY <1>1, <1>5, InsertionCounted
<1>6. CASE NextRound
  BY <1>6, NextRoundStep
<1>7. CASE ExceptionCancel
  BY <1>7, CancelStep
<1>8. CASE BeginShow
  BY <1>8, BeginShowStep
<1>9. CASE ShowNext
  BY <1>1, <1>9, ShowNextStep
<1>10. CASE EndShow
  BY <1>10, EndShowStep
<1>11. CASE Return
  BY <1>11, ReturnStep
<1>12. CASE Finish
  BY <1>12, EndStep
<1>13. QED
  BY <1>2, <1>3, <1>4, <1>5, <1>6, <1>7, <1>8, <1>9, <1>10, <1>11, <1>12 DEF Statement

LEMMA HeapUnchanged ==
    ASSUME HeapInv, vars' = vars
    PROVE  HeapInv'
<1>1. /\ heap' = heap /\ q' = q /\ qcnt' = qcnt /\ fail_count' = fail_count
      /\ error_occurred' = error_occurred
      /\ cautious_mode' = cautious_mode /\ noallocate_mode' = noallocate_mode
      /\ jmp_ready' = jmp_ready /\ time_limited' = time_limited
      /\ err_cnt' = err_cnt /\ exit' = exit /\ cmd' = cmd /\ op' = op /\ pc' = pc
      /\ loc' = loc /\ verbose' = verbose /\ alarms' = alarms
  BY DEF vars, memory, tally, modes, recovery, console, history
<1>2. Typed' /\ CommandOK' /\ CountOK'
  BY <1>1 DEF HeapInv, Typed, CommandOK, CountOK
<1>3. CalmPlaces' /\ QueueThere' /\ RoomForNew'
  BY <1>1 DEF HeapInv, CalmPlaces, QueueThere, RoomForNew, Room, Calm
<1>4. Good' => Good
  BY <1>1 DEF Good, Calm
<1>5. Shape => Shape'
  <2>1. NoQueueShape => NoQueueShape'
    BY <1>1 DEF NoQueueShape
  <2>2. ASSUME NEW ch, NEW vl, NEW st, ShapeOf(ch, vl, st)
        PROVE  ShapeOf(ch, vl, st)'
    <3>1. \A S, m : Resting(ch, vl, st, S, m) => Resting(ch, vl, st, S, m)'
      BY <1>1 DEF Resting
    <3>2. InsertShape(ch, vl, st)'
      BY <1>1, <2>2, ZenonT(60) DEF ShapeOf, InsertShape, Resting, Fresh
    <3>3. RemoveShape(ch, vl, st)'
      BY <1>1, <2>2 DEF ShapeOf, RemoveShape, Resting
    <3>4. FreeShape(ch, vl, st)'
      BY <1>1, <2>2 DEF ShapeOf, FreeShape
    <3>5. OtherShape(ch, vl, st)'
      BY <1>1, <2>2 DEF ShapeOf, OtherShape, Resting
    <3>6. QED
      BY <1>1, <2>2, <3>1, <3>2, <3>3, <3>4, <3>5 DEF ShapeOf
  <2>3. QED
    BY <1>1, <2>1, <2>2 DEF Shape
<1>6. QED
  BY <1>2, <1>3, <1>4, <1>5 DEF HeapInv

LEMMA HeapStep == HeapInv /\ ModesInv /\ [Next \/ Ended]_vars => HeapInv'
<1> SUFFICES ASSUME HeapInv, ModesInv, [Next \/ Ended]_vars
             PROVE  HeapInv'
  OBVIOUS
<1>1. CASE vars' = vars
  BY <1>1, HeapUnchanged
<1>2. ASSUME NEW c \in Command, Begin(c) \/ BadCommand(c)
      PROVE  HeapInv'
  BY <1>2, BeginStep, BadCommandStep
<1>3. CASE Quit
  BY <1>3, QuitStep
<1>4. CASE Leave
  BY <1>4, EndStep
<1>5. CASE Statement
  BY <1>5, StatementStep
<1>6. CASE Segv \/ Alarm
  BY <1>6, AlarmStep
<1>7. CASE Ended
  BY <1>1, <1>7 DEF Ended
<1>8. QED
  BY <1>1, <1>2, <1>3, <1>4, <1>5, <1>6, <1>7 DEF Next, Step

\* As long as no alarm has interrupted a command, the blocks in use are at every
\* statement those of one list, of the queue, and of what the statement works
\* on; and after an alarm the types, the counters and the room for a new queue
\* are still right.
THEOREM HeapInvariance == Spec => []HeapInv
<1>1. Spec => []ModesInv
  BY ModesInvariance
<1>2. QED
  BY <1>1, HeapInitially, HeapStep, PTL DEF Spec

-----------------------------------------------------------------------------
(***************************************************************************)
(* What the invariant says of the properties.                              *)
(***************************************************************************)
\* Reading the heap along a path gives its elements and their strings.
LEMMA ReadPath ==
    ASSUME HeapTyped(heap), NEW e \in Address, e \notin DOMAIN heap,
           NEW c, Path(heap, c, e)
    PROVE  /\ Chain(FirstOf(c, e)) = c
           /\ Strings(FirstOf(c, e)) = [i \in 1 .. Len(c) |-> heap[heap[c[i]].value].str]
<1>1. LinksTyped(heap)
  <2>1. ASSUME NEW a \in DOMAIN heap, heap[a].kind = "element"
        PROVE  heap[a].next \in Address
    BY <2>1, CellKinds DEF HeapTyped, Cells
  <2>2. QED
    BY <2>1 DEF LinksTyped
<1>2. Chain(FirstOf(c, e)) = c
  BY <1>1, ChainOfPath
<1>3. DOMAIN c = 1 .. Len(c)
  BY DEF Path
<1>4. QED
  BY <1>2, <1>3 DEF Strings

\* Reading a list from its first element on gives the list.
LEMMA ReadList ==
    ASSUME HeapTyped(heap), NEW e \in Address, e \notin DOMAIN heap,
           NEW ch, NEW vl, NEW st, NEW S, Held(heap, ch, vl, st, S, e)
    PROVE  /\ Chain(FirstOf(ch, e)) = ch
           /\ Strings(FirstOf(ch, e)) = st
<1>1. /\ Lists(ch, vl, st) /\ Len(ch) \in Nat /\ Len(st) = Len(ch) /\ Len(ch) <= MaxBlocks
      /\ ch \in Seq(Block) /\ st \in Seq(Str)
  BY ListLength, ListFits DEF Held, Lists
<1>2. ASSUME NEW i \in 1 .. Len(ch)
      PROVE  ElementAt(heap, ch[i]) /\ heap[ch[i]].next = NextOf(ch, i, e)
  <2>1. heap[ch[i]] = Element(vl[i], NextOf(ch, i, e))
    BY DEF Held, Linked
  <2>2. ch[i] \in DOMAIN heap /\ heap[ch[i]].kind = "element"
    BY ListElement
  <2>3. heap[ch[i]].next = NextOf(ch, i, e)
    BY <2>1, QueueFields
  <2>4. QED
    BY <2>2, <2>3 DEF ElementAt
<1>3. Path(heap, ch, e)
  BY <1>1, <1>2 DEF Path
<1>4. ASSUME NEW i \in 1 .. Len(ch)
      PROVE  heap[heap[ch[i]].value].str = st[i]
  <2>1. heap[ch[i]].value = vl[i]
    BY ListElement
  <2>2. heap[vl[i]] = StringOf(st[i])
    BY DEF Held, Linked
  <2>3. QED
    BY <2>1, <2>2, QueueFields
<1>5. Strings(FirstOf(ch, e)) = [i \in 1 .. Len(ch) |-> heap[heap[ch[i]].value].str]
  BY <1>3, ReadPath
<1>6. st = [i \in 1 .. Len(ch) |-> st[i]]
  BY <1>1
<1>7. [i \in 1 .. Len(ch) |-> heap[heap[ch[i]].value].str] = [i \in 1 .. Len(ch) |-> st[i]]
  BY <1>4
<1>8. Chain(FirstOf(ch, e)) = ch
  BY <1>3, ReadPath
<1>9. QED
  BY <1>5, <1>6, <1>7, <1>8

\* No block has one of the addresses at which lists end.
LEMMA EndsOutside ==
    ASSUME HeapTyped(heap)
    PROVE  {NULL, Wild} \subseteq Address /\ NULL \notin DOMAIN heap /\ Wild \notin DOMAIN heap
  BY DEF HeapTyped, Block, NULL, Wild, Address

\* What QueueSound says of the chain of the queue.
SoundChain(chain) ==
    LET values == {heap[chain[i]].value : i \in DOMAIN chain}
    IN  /\ Len(chain) = heap[q].size
        /\ Len(chain) = qcnt
        /\ chain # << >> => /\ heap[q].tail = chain[Len(chain)]
                           /\ heap[heap[q].tail].next = NULL
        /\ DOMAIN heap = {q} \cup {chain[i] : i \in DOMAIN chain} \cup values
        /\ Cardinality(DOMAIN heap) = 1 + 2 * Len(chain)

LEMMA SoundQueue == HeapInv => QueueSound
<1> SUFFICES ASSUME HeapInv PROVE QueueSound
  OBVIOUS
<1>1. TypeOK
  <2>1. ASSUME NEW b \in DOMAIN heap, heap[b].kind = "queue"
        PROVE  heap[b].size \in 0 .. MaxLen
    BY <2>1, HeapIsTyped, CellKinds, NewHere DEF HeapInv, HeapTyped
  <2>2. {error_occurred, cautious_mode, noallocate_mode, jmp_ready, time_limited,
         verbose} \subseteq BOOLEAN
    BY DEF HeapInv, Typed
  <2>3. QED
    BY <2>1, <2>2 DEF TypeOK, HeapInv, Typed
<1>2. SUFFICES ASSUME Calm, pc = "idle"
               PROVE  IF q = NULL THEN heap = << >> /\ qcnt = 0
                      ELSE SoundChain(Chain(heap[q].head))
  BY <1>1 DEF QueueSound, SoundChain
<1>3. Shape /\ op = "none" /\ HeapTyped(heap)
  BY <1>2, HeapIsTyped DEF HeapInv, Good, CommandOK
<1>4. CASE q = NULL
  <2>1. DOMAIN heap = {} /\ qcnt = 0
    BY <1>2, <1>3, <1>4 DEF Shape, NoQueueShape
  <2>2. heap = [b \in {} |-> heap[b]]
    BY <1>3, <2>1 DEF HeapTyped
  <2>3. heap = << >>
    BY <2>2
  <2>4. QED
    BY <1>4, <2>1, <2>3
<1>5. CASE q # NULL
  <2>1. PICK ch, vl, st : ShapeOf(ch, vl, st)
    BY <1>2, <1>3, <1>5 DEF Shape
  <2>2. Resting(ch, vl, st, {}, Len(ch)) /\ qcnt = Len(ch)
    BY <1>2, <1>3, <2>1 DEF ShapeOf, Steady
  <2>3. PICK S : S = {q}
    OBVIOUS
  <2>4. {q} \cup {} = {q}
    OBVIOUS
  <2>5. Held(heap, ch, vl, st, S, NULL)
    BY <2>2, <2>3, <2>4 DEF Resting
  <2>6. heap[q] = Queue(FirstOf(ch, NULL), heap[q].tail, Len(ch)) /\ TailOK(ch, heap[q].tail)
    BY <2>2 DEF Resting
  <2>7. heap[q].head = FirstOf(ch, NULL) /\ heap[q].size = Len(ch)
    BY <2>6, QueueFields
  <2>8. Chain(heap[q].head) = ch
    BY <1>3, <2>5, <2>7, ReadList, EndsOutside
  <2>9. Lists(ch, vl, st) /\ Len(ch) \in Nat /\ DOMAIN ch = 1 .. Len(ch)
        /\ (ch # << >> <=> Len(ch) >= 1)
    BY <2>5, ListLength DEF Held, Lists
  <2>10. \A i \in 1 .. Len(ch) : heap[ch[i]].value = vl[i]
    BY <2>5, ListElement
  <2>11. {heap[ch[i]].value : i \in DOMAIN ch} = {vl[i] : i \in 1 .. Len(ch)}
    BY <2>9, <2>10
  <2>12. ASSUME ch # << >>
         PROVE  heap[q].tail = ch[Len(ch)] /\ heap[heap[q].tail].next = NULL
    <3>1. PICK n : n = Len(ch)
      OBVIOUS
    <3>2. n \in 1 .. Len(ch)
      BY <2>9, <2>12, <3>1
    <3>3. heap[ch[n]] = Element(vl[n], NextOf(ch, n, NULL))
      BY <2>5, <3>2 DEF Held, Linked
    <3>4. heap[ch[n]].next = NULL
      BY <3>1, <3>3, QueueFields DEF NextOf
    <3>5. QED
      BY <2>6, <2>12, <3>1, <3>4 DEF TailOK
  <2>13. Extent(heap, ch, vl, {q})
    BY <2>3, <2>5 DEF Held
  <2>14. DOMAIN heap = {q} \cup {ch[i] : i \in 1 .. Len(ch)} \cup {vl[i] : i \in 1 .. Len(ch)}
    BY <2>13 DEF Extent
  <2>15. Cardinality(DOMAIN heap) = 1 + 2 * Len(ch)
    <3>1. IsFiniteSet(S) /\ Cardinality(S) = 1
      BY <2>3, SmallSets
    <3>2. QED
      BY <2>5, <3>1, BlockCount
  <2>16. DOMAIN heap = {q} \cup {ch[i] : i \in DOMAIN ch}
                           \cup {heap[ch[i]].value : i \in DOMAIN ch}
    BY <2>9, <2>11, <2>14
  <2>17. SoundChain(ch)
    BY <2>2, <2>7, <2>12, <2>15, <2>16 DEF SoundChain
  <2>18. QED
    BY <1>5, <2>8, <2>17
<1>6. QED
  BY <1>4, <1>5

\* Until an alarm goes off the queue is sound between commands, whichever
\* allocations failed.
THEOREM QueueCorrect == Spec => []QueueSound
<1>1. QED
  BY HeapInvariance, SoundQueue, PTL

-----------------------------------------------------------------------------
(***************************************************************************)
(* Verdicts: a command fails if it has a reason to, and if it has been     *)
(* interrupted.                                                            *)
(***************************************************************************)
MayFail == fail_count >= FailLimit \/ (op = "rh" /\ cmd.str # NoStr)

CalmVerdicts ==
    Calm => /\ error_occurred = FALSE /\ reported = "none"
            /\ loc.ok \/ MayFail
            /\ exit = "failure" => err_cnt > 0

\* What do_size has to compare.
SizeSeen ==
    Calm /\ op = "size" =>
        /\ pc = "setup" => loc.r = 0
        /\ pc \in {"setup", "loop", "size", "check", "cancel"} => loc.ok
        /\ pc \in {"check", "cancel"} \/ (pc \in {"loop", "size"} /\ loc.r > 0)
               => loc.seen = qcnt

OnlyShown == ~verbose /\ pc \in {"show.loop", "show.cancel"} => op = "show"

\* The verdict of an interrupted command is already decided.
Doomed ==
    \/ op \in {"free", "rh", "rhq", "reverse", "new", "size"} /\ error_occurred
    \/ op \in {"new", "size"} /\ ~loc.ok
    \/ op = "quit"

Unnoticed == reported \notin {"none", "ih", "it", "show"}

Counts == ~verbose /\ Unnoticed /\ pc # "exit" => err_cnt > 0 \/ Doomed

VerdictInv == CalmVerdicts /\ SizeSeen /\ OnlyShown /\ Counts

\* A statement of queue.c leaves the verdict alone.
LEMMA LibraryLocals ==
    ASSUME HeapInv, ModesInv, Library
    PROVE  /\ loc'.ok = loc.ok /\ loc'.r = loc.r
           /\ pc' \notin {"show.loop", "show.cancel", "setup", "loop", "exit"}
           /\ pc \notin {"exit", "setup", "loop", "check", "cancel"}
           /\ op = "size" => QSize
<1>1. loc \in LocalTypes
  BY DEF HeapInv, Typed
<1>2. \A x : /\ [loc EXCEPT !.rval = x].ok = loc.ok /\ [loc EXCEPT !.rval = x].r = loc.r
             /\ [loc EXCEPT !.ptr = x].ok = loc.ok /\ [loc EXCEPT !.ptr = x].r = loc.r
             /\ [loc EXCEPT !.aux = x].ok = loc.ok /\ [loc EXCEPT !.aux = x].r = loc.r
             /\ [loc EXCEPT !.seen = x].ok = loc.ok /\ [loc EXCEPT !.seen = x].r = loc.r
  BY <1>1 DEF LocalTypes
<1>3. \A x, y : /\ [loc EXCEPT !.ptr = x, !.taken = y].ok = loc.ok
                /\ [loc EXCEPT !.ptr = x, !.taken = y].r = loc.r
                /\ [loc EXCEPT !.aux = x, !.ptr = y].ok = loc.ok
                /\ [loc EXCEPT !.aux = x, !.ptr = y].r = loc.r
  BY <1>1 DEF LocalTypes
<1>4. CASE QNew
  <2>1. loc'.ok = loc.ok /\ loc'.r = loc.r
    BY <1>2, <1>4 DEF QNew, Returns
  <2>2. pc \in AtNew /\ pc' \in {"new.ret", "ret", "cancel"}
    BY <1>4 DEF QNew, Returns, Goto, AtNew
  <2>3. QED
    BY <2>1, <2>2 DEF ModesInv, OperationFits, AtNew
<1>5. CASE QFree
  <2>1. loc'.ok = loc.ok /\ loc'.r = loc.r
    <3>1. PICK x, y : x = heap[q].head /\ y = heap[loc.ptr].next
      OBVIOUS
    <3>2. \/ loc' = loc
          \/ loc' = [loc EXCEPT !.ptr = x] \/ loc' = [loc EXCEPT !.aux = y]
          \/ loc' = [loc EXCEPT !.ptr = loc.aux]
      BY <1>5, <3>1 DEF QFree
    <3>3. QED
      BY <1>2, <3>2, ZenonT(60)
  <2>2. pc \in AtFree /\ pc' \in AtFree \cup {"cancel"}
    BY <1>5 DEF QFree, Goto, AtFree
  <2>3. QED
    BY <2>1, <2>2 DEF ModesInv, OperationFits, AtFree
<1>6. CASE NewElement
  <2>1. loc'.ok = loc.ok /\ loc'.r = loc.r
    BY <1>2, <1>6 DEF NewElement, FreeNewElement, Returns
  <2>2. pc \in {"insert", "insert.value"} /\ op \in Insertions
    BY <1>6 DEF NewElement, FreeNewElement, ModesInv, OperationFits, AtInsertion
  <2>3. pc' \in {"insert.value", "ret", "ih", "it"}
    BY <1>6, <2>2 DEF NewElement, FreeNewElement, Returns, Goto, Insertions
  <2>4. QED
    BY <2>1, <2>2, <2>3 DEF Insertions
<1>7. CASE QInsertHead \/ QInsertTail
  <2>1. loc'.ok = loc.ok /\ loc'.r = loc.r
    BY <1>2, <1>7 DEF QInsertHead, QInsertTail, SetFirstTail, SetTail, Returns
  <2>2. pc \in AtInsertion \ {"insert", "insert.value", "ret"} /\ op \in Insertions
    BY <1>7 DEF QInsertHead, QInsertTail, SetFirstTail, SetTail, ModesInv, OperationFits,
       AtInsertion
  <2>3. pc' \in {"ih.next", "ih.head", "ih.size", "it.next", "it.tail", "it.size", "ret"}
    BY <1>7, <2>2 DEF QInsertHead, QInsertTail, SetFirstTail, SetTail, Returns, Goto,
       Insertions
  <2>4. QED
    BY <2>1, <2>2, <2>3 DEF Insertions, AtInsertion
<1>8. CASE QRemoveHead
  <2>1. loc'.ok = loc.ok /\ loc'.r = loc.r
    <3>1. PICK x, y : x = heap[q].head /\ y = heap[heap[heap[q].head].value].str
      OBVIOUS
    <3>2. \/ loc' = loc
          \/ loc' = [loc EXCEPT !.ptr = x, !.taken = y]
          \/ \E z \in BOOLEAN : loc' = [loc EXCEPT !.rval = z]
      <4>1. CASE pc = "remove"
        <5>1. Returns(FALSE) \/ loc' = [loc EXCEPT !.ptr = x, !.taken = y]
          BY <1>8, <3>1, <4>1 DEF QRemoveHead, ShrinkSize
        <5>2. QED
          BY <5>1 DEF Returns
      <4>2. CASE pc # "remove"
        <5>1. Returns(TRUE) \/ loc' = loc
          BY <1>8, <4>2 DEF QRemoveHead, ShrinkSize
        <5>2. QED
          BY <5>1 DEF Returns
      <4>3. QED
        BY <4>1, <4>2
    <3>3. /\ [loc EXCEPT !.ptr = x, !.taken = y].ok = loc.ok
          /\ [loc EXCEPT !.ptr = x, !.taken = y].r = loc.r
      BY <1>3
    <3>4. \A z : [loc EXCEPT !.rval = z].ok = loc.ok /\ [loc EXCEPT !.rval = z].r = loc.r
      BY <1>2
    <3>5. QED
      BY <3>2, <3>3, <3>4
  <2>2. pc \in AtRemoval /\ op \in Removals
    BY <1>8 DEF QRemoveHead, ShrinkSize, ModesInv, OperationFits, AtRemoval
  <2>3. pc' \in AtRemoval \cup {"cancel"}
    BY <1>8, <2>2 DEF QRemoveHead, ShrinkSize, Returns, Goto, Removals, AtRemoval
  <2>4. QED
    BY <2>1, <2>2, <2>3 DEF Removals, AtRemoval
<1>9. CASE QSize
  BY <1>2, <1>9 DEF QSize, Goto
<1>10. CASE QReverse
  <2>1. loc'.ok = loc.ok /\ loc'.r = loc.r
    <3>1. PICK x, y, z : x = heap[q].head /\ y = heap[loc.ptr].next /\ z = loc.ptr
      OBVIOUS
    <3>2. \/ loc' = loc
          \/ loc' = [loc EXCEPT !.ptr = x]
          \/ loc' = [loc EXCEPT !.aux = z, !.ptr = y]
      <4>1. CASE BeginReverse
        BY <3>1, <4>1 DEF BeginReverse
      <4>2. CASE TurnElement
        BY <3>1, <4>2 DEF TurnElement
      <4>3. CASE ~BeginReverse /\ ~TurnElement
        <5>1. loc' = loc
          BY <1>10, <4>3 DEF QReverse
        <5>2. QED
          BY <5>1
      <4>4. QED
        BY <4>1, <4>2, <4>3
    <3>3. /\ [loc EXCEPT !.aux = z, !.ptr = y].ok = loc.ok
          /\ [loc EXCEPT !.aux = z, !.ptr = y].r = loc.r
          /\ [loc EXCEPT !.ptr = x].ok = loc.ok /\ [loc EXCEPT !.ptr = x].r = loc.r
      BY <1>2, <1>3
    <3>4. QED
      BY <3>2, <3>3
  <2>2. pc \in AtReverse /\ op = "reverse"
    BY <1>10 DEF QReverse, BeginReverse, TurnElement, ModesInv, OperationFits, AtReverse
  <2>3. pc' \in {"reverse.loop", "cancel"}
    BY <1>10 DEF QReverse, BeginReverse, TurnElement, Goto
  <2>4. QED
    BY <2>1, <2>2, <2>3 DEF AtReverse
<1>11. QED
  BY <1>4, <1>5, <1>6, <1>7, <1>8, <1>9, <1>10 DEF Library

\* The size that q_size returns is the one that qtest.c has counted.
LEMMA SizeCounted ==
    ASSUME HeapInv, ModesInv, Calm, QSize
    PROVE  loc'.seen = qcnt
<1>1. pc = "size" /\ op = "size" /\ Shape /\ loc \in LocalTypes
  BY DEF QSize, ModesInv, OperationFits, HeapInv, Good, Typed
<1>2. PICK n : n = IF q # NULL /\ heap[q].head # NULL THEN heap[q].size ELSE 0
  OBVIOUS
<1>3. loc'.seen = n
  BY <1>1, <1>2 DEF QSize, LocalTypes
<1>4. CASE q = NULL
  BY <1>1, <1>2, <1>3, <1>4 DEF Shape, NoQueueShape
<1>5. CASE q # NULL
  <2>1. PICK ch, vl, st : ShapeOf(ch, vl, st)
    BY <1>1, <1>5 DEF Shape
  <2>2. Resting(ch, vl, st, {}, Len(ch)) /\ qcnt = Len(ch)
    BY <1>1, <2>1 DEF ShapeOf, Steady
  <2>3. Lists(ch, vl, st) /\ heap[q] = Queue(FirstOf(ch, NULL), heap[q].tail, Len(ch))
    BY <2>2 DEF Resting, Held
  <2>4. heap[q].head = FirstOf(ch, NULL) /\ heap[q].size = Len(ch)
    BY <2>3, QueueFields
  <2>5. ch = << >> => Len(ch) = 0
    OBVIOUS
  <2>6. ch # << >> => FirstOf(ch, NULL) # NULL
    <3>1. SUFFICES ASSUME ch # << >> PROVE ch[1] # NULL
      BY DEF FirstOf
    <3>2. 1 \in 1 .. Len(ch)
      BY <2>3, <3>1, ListLength
    <3>3. ch[1] \in Block
      BY <2>3, <3>2, ListLength
    <3>4. QED
      BY <3>3 DEF Block, NULL
  <2>7. ch = << >> => FirstOf(ch, NULL) = NULL
    BY DEF FirstOf
  <2>8. QED
    BY <1>2, <1>3, <1>5, <2>2, <2>4, <2>5, <2>6, <2>7
<1>6. QED
  BY <1>4, <1>5

LEMMA LibraryVerdict ==
    ASSUME HeapInv, ModesInv, VerdictInv, Library
    PROVE  VerdictInv'
<1>1. LibSame
  BY LibraryLeaves
<1>2. /\ loc'.ok = loc.ok /\ loc'.r = loc.r
      /\ pc' \notin {"show.loop", "show.cancel", "setup", "loop", "exit"}
      /\ pc \notin {"exit", "setup", "loop", "check", "cancel"}
      /\ op = "size" => QSize
  BY LibraryLocals
<1>3. CalmVerdicts'
  BY <1>1, <1>2 DEF LibSame, VerdictInv, CalmVerdicts, Calm, MayFail
<1>4. SizeSeen'
  <2>1. SUFFICES ASSUME Calm, op = "size" PROVE SizeSeen'
    BY <1>1 DEF SizeSeen, LibSame, Calm
  <2>2. pc = "size" /\ pc' = "check" /\ loc'.seen = qcnt
    BY <1>2, <2>1, SizeCounted DEF QSize, Goto
  <2>3. loc.ok
    BY <2>1, <2>2 DEF VerdictInv, SizeSeen
  <2>4. QED
    BY <1>1, <1>2, <2>2, <2>3 DEF SizeSeen, LibSame
<1>5. OnlyShown'
  BY <1>2 DEF OnlyShown
<1>6. Counts'
  BY <1>1, <1>2 DEF LibSame, VerdictInv, Counts, Doomed, Unnoticed
<1>7. QED
  BY <1>3, <1>4, <1>5, <1>6 DEF VerdictInv

\* The other steps, one after the other.
LEMMA SetupVerdict ==
    ASSUME HeapInv, ModesInv, VerdictInv, ExceptionSetup
    PROVE  VerdictInv'
<1>1. /\ pc = "setup" /\ pc' = First /\ loc' = loc /\ op' = op /\ cmd' = cmd
      /\ fail_count' = fail_count /\ error_occurred' = error_occurred /\ qcnt' = qcnt
      /\ reported' = reported /\ alarms' = alarms /\ exit' = exit /\ err_cnt' = err_cnt
      /\ verbose' = verbose
  BY DEF ExceptionSetup, Goto, tally, console, history
<1>2. pc' \in {"loop", "remove", "free", "reverse", "new"} /\ op \in Operations
  <2>1. op \in Operations /\ op \notin {"show", "none", "bad"}
    BY <1>1 DEF ModesInv, OperationFits
  <2>2. QED
    BY <1>1, <2>1 DEF First, Operations
<1>3. CalmVerdicts'
  BY <1>1 DEF VerdictInv, CalmVerdicts, Calm, MayFail
<1>4. SizeSeen'
  <2>1. SUFFICES ASSUME Calm, op = "size" PROVE SizeSeen'
    BY <1>1 DEF SizeSeen, Calm
  <2>2. pc' = "loop" /\ loc.r = 0 /\ loc.ok
    BY <1>1, <2>1 DEF First, VerdictInv, SizeSeen
  <2>3. QED
    BY <1>1, <2>2 DEF SizeSeen
<1>5. OnlyShown'
  BY <1>2 DEF OnlyShown
<1>6. Counts'
  BY <1>1 DEF VerdictInv, Counts, Doomed, Unnoticed
<1>7. QED
  BY <1>3, <1>4, <1>5, <1>6 DEF VerdictInv

LEMMA LoopVerdict ==
    ASSUME HeapInv, ModesInv, VerdictInv, Loop
    PROVE  VerdictInv'
<1>1. /\ pc = "loop" /\ loc' = loc /\ op' = op /\ cmd' = cmd
      /\ pc' = IF ~loc.ok \/ loc.r = cmd.n THEN "cancel"
               ELSE IF op = "size" THEN "size" ELSE "insert"
      /\ fail_count' = fail_count /\ error_occurred' = error_occurred /\ qcnt' = qcnt
      /\ reported' = reported /\ alarms' = alarms /\ exit' = exit /\ err_cnt' = err_cnt
      /\ verbose' = verbose
  BY DEF Loop, Goto, tally, console, history
<1>2. CalmVerdicts'
  BY <1>1 DEF VerdictInv, CalmVerdicts, Calm, MayFail
<1>3. SizeSeen'
  <2>1. SUFFICES ASSUME Calm, op = "size" PROVE SizeSeen'
    BY <1>1 DEF SizeSeen, Calm
  <2>2. loc.ok /\ (loc.r > 0 => loc.seen = qcnt)
    BY <1>1, <2>1 DEF VerdictInv, SizeSeen
  <2>3. cmd.n \in Nat /\ cmd.n >= 1 /\ loc.r \in Nat
    BY <1>1, <2>1, CommandTypes DEF HeapInv, CommandOK, Typed, LocalTypes
  <2>4. pc' = "cancel" => loc.seen = qcnt
    BY <1>1, <2>2, <2>3
  <2>5. pc' \in {"size", "cancel"}
    BY <1>1, <2>1
  <2>6. QED
    BY <1>1, <2>2, <2>4, <2>5 DEF SizeSeen
<1>4. OnlyShown'
  BY <1>1 DEF OnlyShown
<1>5. Counts'
  BY <1>1 DEF VerdictInv, Counts, Doomed, Unnoticed
<1>6. QED
  BY <1>2, <1>3, <1>4, <1>5 DEF VerdictInv

\* The copy that an insertion has made differs from the one before.
LEMMA CopyDiffers ==
    ASSUME HeapInv, ModesInv, Calm, pc = "ret", loc.rval
    PROVE  /\ heap[heap[q].head].value # NULL
           /\ op = "ih" => loc.aux # heap[heap[q].head].value
<1>1. q # NULL /\ Shape
  BY DEF HeapInv, QueueThere, Good
<1>2. PICK ch, vl, st : ShapeOf(ch, vl, st)
  BY <1>1 DEF Shape
<1>3. Resting(ch, vl, st, {}, Len(ch)) /\ Len(ch) >= 1 /\ (op = "ih" => loc.aux # vl[1])
  BY <1>2 DEF ShapeOf, InsertShape
<1>4. PICK S : S = {q} \cup {}
  OBVIOUS
<1>5. Held(heap, ch, vl, st, S, NULL) /\ heap[q].head = FirstOf(ch, NULL)
  BY <1>3, <1>4, QueueFields DEF Resting
<1>6. 1 \in 1 .. Len(ch) /\ ch # << >> /\ vl[1] \in Block
  <2>1. Len(ch) \in Nat /\ (ch # << >> <=> Len(ch) >= 1)
        /\ \A i \in 1 .. Len(ch) : vl[i] \in Block
    BY <1>5, ListLength DEF Held
  <2>2. 1 \in 1 .. Len(ch)
    BY <1>3, <2>1
  <2>3. QED
    BY <1>3, <2>1, <2>2
<1>7. heap[ch[1]].value = vl[1] /\ heap[q].head = ch[1]
  BY <1>5, <1>6, ListElement DEF FirstOf
<1>8. vl[1] # NULL
  BY <1>6 DEF Block, NULL
<1>9. QED
  BY <1>3, <1>7, <1>8

LEMMA InsertionVerdict ==
    ASSUME HeapInv, ModesInv, VerdictInv, ~BadPointer, AfterInsertion
    PROVE  VerdictInv'
<1>1. /\ pc = "ret" /\ pc' = "check" /\ op' = op /\ cmd' = cmd
      /\ error_occurred' = error_occurred
      /\ reported' = reported /\ alarms' = alarms /\ exit' = exit /\ err_cnt' = err_cnt
      /\ verbose' = verbose
  BY DEF AfterInsertion, Goto, console, history
<1>2. op \in Insertions /\ loc \in LocalTypes /\ fail_count \in Nat /\ FailLimit \in Nat
  BY <1>1, TesterAssumption DEF ModesInv, OperationFits, AtInsertion, HeapInv, Typed
<1>3. Calm => loc'.ok \/ MayFail'
  <2>1. SUFFICES ASSUME Calm PROVE loc'.ok \/ fail_count' >= FailLimit
    BY DEF MayFail
  <2>2. CASE loc.rval
    <3>1. PICK copy : copy = heap[heap[q].head].value
      OBVIOUS
    <3>2. PICK ok, aux : /\ ok = (copy # NULL /\ ~(op = "ih" /\ loc.r = 1 /\ loc.aux = copy))
                         /\ aux = IF op = "ih" THEN copy ELSE loc.aux
      OBVIOUS
    <3>3. loc' = [loc EXCEPT !.ok = ok, !.aux = aux]
      BY <1>1, <1>2, <2>2, <3>1, <3>2 DEF AfterInsertion, LocalTypes
    <3>4. ok
      BY <1>1, <2>1, <2>2, <3>1, <3>2, CopyDiffers
    <3>5. loc'.ok = ok
      BY <1>2, <3>3 DEF LocalTypes
    <3>6. QED
      BY <3>4, <3>5
  <2>3. CASE ~loc.rval
    <3>1. fail_count' = fail_count + 1
          /\ loc' = [loc EXCEPT !.ok = loc.ok /\ fail_count' < FailLimit]
      BY <1>1, <2>3 DEF AfterInsertion
    <3>2. PICK ok : ok = (loc.ok /\ fail_count' < FailLimit)
      OBVIOUS
    <3>3. loc'.ok = ok
      BY <1>2, <3>1, <3>2 DEF LocalTypes
    <3>4. loc.ok \/ fail_count >= FailLimit
      BY <1>2, <2>1 DEF VerdictInv, CalmVerdicts, MayFail, Insertions
    <3>5. fail_count >= FailLimit => fail_count' >= FailLimit
      BY <1>2, <3>1
    <3>6. fail_count' < FailLimit \/ fail_count' >= FailLimit
      BY <1>2, <3>1
    <3>7. QED
      BY <3>2, <3>3, <3>4, <3>5, <3>6
  <2>4. QED
    BY <2>2, <2>3
<1>4. CalmVerdicts'
  BY <1>1, <1>3 DEF VerdictInv, CalmVerdicts, Calm
<1>5. SizeSeen'
  BY <1>1, <1>2 DEF SizeSeen, Insertions
<1>6. OnlyShown'
  BY <1>1 DEF OnlyShown
<1>7. Counts'
  BY <1>1, <1>2 DEF VerdictInv, Counts, Doomed, Unnoticed, Insertions
<1>8. QED
  BY <1>4, <1>5, <1>6, <1>7 DEF VerdictInv

LEMMA NextRoundVerdict ==
    ASSUME HeapInv, ModesInv, VerdictInv, NextRound
    PROVE  VerdictInv'
<1>1. /\ pc = "check" /\ pc' = "loop" /\ op' = op /\ cmd' = cmd
      /\ error_occurred' = (error_occurred /\ ~loc.ok)
      /\ fail_count' = fail_count /\ qcnt' = qcnt
      /\ reported' = reported /\ alarms' = alarms /\ exit' = exit /\ err_cnt' = err_cnt
      /\ verbose' = verbose
  BY DEF NextRound, Goto, tally, console, history
<1>2. op \in {"ih", "it", "size"} /\ loc \in LocalTypes /\ error_occurred \in BOOLEAN
  BY <1>1 DEF ModesInv, OperationFits, AtRound, Insertions, HeapInv, Typed
<1>3. PICK ok, r : ok = (loc.ok /\ ~error_occurred) /\ r = loc.r + 1
  OBVIOUS
<1>4. loc' = [loc EXCEPT !.ok = ok, !.r = r]
  BY <1>3 DEF NextRound
<1>5. loc'.ok = ok /\ loc'.seen = loc.seen
  BY <1>2, <1>4 DEF LocalTypes
<1>6. CalmVerdicts'
  BY <1>1, <1>3, <1>5 DEF VerdictInv, CalmVerdicts, Calm, MayFail
<1>7. SizeSeen'
  <2>1. SUFFICES ASSUME Calm, op = "size" PROVE SizeSeen'
    BY <1>1 DEF SizeSeen, Calm
  <2>2. loc.ok /\ loc.seen = qcnt /\ error_occurred = FALSE
    BY <1>1, <2>1 DEF VerdictInv, SizeSeen, CalmVerdicts
  <2>3. QED
    BY <1>1, <1>3, <1>5, <2>2 DEF SizeSeen
<1>8. OnlyShown'
  BY <1>1 DEF OnlyShown
<1>9. Counts'
  <2>1. Doomed => Doomed'
    BY <1>1, <1>2, <1>3, <1>5 DEF Doomed
  <2>2. QED
    BY <1>1, <2>1 DEF VerdictInv, Counts, Unnoticed
<1>10. QED
  BY <1>6, <1>7, <1>8, <1>9 DEF VerdictInv

LEMMA CommandStrings ==
    \A c \in Command : c.op = "rhq" => c.str = NoStr
  BY DEF Command

LEMMA CancelVerdict ==
    ASSUME HeapInv, ModesInv, VerdictInv, ExceptionCancel
    PROVE  VerdictInv'
<1>1. /\ pc = "cancel" /\ pc' = IF op = "quit" THEN "after" ELSE "show"
      /\ error_occurred' = error_occurred /\ Judge
      /\ err_cnt' = err_cnt /\ exit' = exit /\ cmd' = cmd /\ op' = op
      /\ verbose' = verbose /\ alarms' = alarms /\ reported' = reported
  BY DEF ExceptionCancel, Goto, console, history
<1>2. loc \in LocalTypes /\ fail_count \in Nat /\ FailLimit \in Nat
  BY TesterAssumption DEF HeapInv, Typed
<1>3. PICK ok : ok = CASE op = "size"                  -> loc.ok /\ qcnt = loc.seen
                       [] Counted /\ ~loc.rval         -> fail_count' < FailLimit
                                                          /\ cmd.str = NoStr
                       [] Counted /\ loc.rval /\ cmd.str # NoStr
                                                       -> loc.taken = cmd.str
                       [] OTHER                        -> loc.ok
  OBVIOUS
<1>4. loc' = [loc EXCEPT !.ok = ok]
  BY <1>1, <1>3 DEF Judge
<1>5. loc'.ok = ok
  BY <1>2, <1>4 DEF LocalTypes
<1>6. fail_count' \in Nat /\ fail_count' >= fail_count
  <2>1. CASE Counted /\ ~loc.rval
    <3>1. fail_count' = fail_count + 1
      BY <1>1, <2>1 DEF Judge
    <3>2. QED
      BY <1>2, <3>1
  <2>2. CASE ~(Counted /\ ~loc.rval)
    <3>1. fail_count' = fail_count
      BY <1>1, <2>2 DEF Judge
    <3>2. QED
      BY <1>2, <3>1
  <2>3. QED
    BY <2>1, <2>2
<1>7. op = "rhq" => cmd.str = NoStr
  BY <1>1, CommandStrings DEF HeapInv, CommandOK
<1>8. Calm => loc'.ok \/ MayFail'
  <2>1. SUFFICES ASSUME Calm
                 PROVE  ok \/ fail_count' >= FailLimit \/ (op = "rh" /\ cmd.str # NoStr)
    BY <1>1, <1>5 DEF MayFail
  <2>2. CASE op = "size"
    <3>1. ok = (loc.ok /\ qcnt = loc.seen)
      BY <1>3, <2>2 DEF Counted
    <3>2. QED
      BY <1>1, <2>1, <2>2, <3>1 DEF VerdictInv, SizeSeen
  <2>3. CASE Counted /\ ~loc.rval
    <3>1. ok = (fail_count' < FailLimit /\ cmd.str = NoStr)
      BY <1>3, <2>3 DEF Counted
    <3>2. fail_count' < FailLimit \/ fail_count' >= FailLimit
      BY <1>2, <1>6
    <3>3. QED
      BY <1>7, <2>3, <3>1, <3>2 DEF Counted
  <2>4. CASE Counted /\ loc.rval /\ cmd.str # NoStr
    BY <1>7, <2>4 DEF Counted
  <2>5. CASE op # "size" /\ ~(Counted /\ ~loc.rval) /\ ~(Counted /\ loc.rval /\ cmd.str # NoStr)
    <3>1. ok = loc.ok
      BY <1>3, <2>5
    <3>2. fail_count >= FailLimit => fail_count' >= FailLimit
      BY <1>2, <1>6
    <3>3. QED
      BY <2>1, <3>1, <3>2 DEF VerdictInv, CalmVerdicts, MayFail
  <2>6. QED
    BY <2>2, <2>3, <2>4, <2>5
<1>9. CalmVerdicts'
  BY <1>1, <1>8 DEF VerdictInv, CalmVerdicts, Calm
<1>10. SizeSeen' /\ OnlyShown'
  BY <1>1 DEF SizeSeen, OnlyShown
<1>11. Doomed => Doomed'
  <2>1. op = "new" => ok = loc.ok
    BY <1>3 DEF Counted
  <2>2. op = "size" /\ ok => loc.ok
    BY <1>3 DEF Counted
  <2>3. QED
    BY <1>1, <1>5, <2>1, <2>2 DEF Doomed
<1>12. Counts'
  BY <1>1, <1>11 DEF VerdictInv, Counts, Unnoticed
<1>13. QED
  BY <1>9, <1>10, <1>12 DEF VerdictInv

LEMMA BeginShowVerdict ==
    ASSUME HeapInv, ModesInv, VerdictInv, BeginShow
    PROVE  VerdictInv'
<1>1. /\ pc = "show" /\ error_occurred' = error_occurred /\ fail_count' = fail_count
      /\ err_cnt' = err_cnt /\ exit' = exit /\ cmd' = cmd /\ op' = op
      /\ verbose' = verbose /\ alarms' = alarms /\ reported' = reported
  BY DEF BeginShow, console, history, tally
<1>2. \/ pc' = "after" /\ loc' = loc
      \/ /\ pc' = "show.loop" /\ (verbose \/ op = "show")
         /\ loc' = [loc EXCEPT !.ptr = heap[q].head, !.seen = 0, !.rval = TRUE]
  BY DEF BeginShow, Goto
<1>3. pc' \in {"after", "show.loop"} /\ loc'.ok = loc.ok
  <2>1. loc \in LocalTypes
    BY DEF HeapInv, Typed
  <2>2. PICK h : h = heap[q].head
    OBVIOUS
  <2>3. [loc EXCEPT !.ptr = h, !.seen = 0, !.rval = TRUE].ok = loc.ok
    BY <2>1 DEF LocalTypes
  <2>4. QED
    BY <1>2, <2>2, <2>3
<1>4. CalmVerdicts'
  BY <1>1, <1>3 DEF VerdictInv, CalmVerdicts, Calm, MayFail
<1>5. SizeSeen'
  BY <1>3 DEF SizeSeen
<1>6. OnlyShown'
  BY <1>1, <1>2 DEF OnlyShown
<1>7. Counts'
  BY <1>1, <1>3 DEF VerdictInv, Counts, Doomed, Unnoticed
<1>8. QED
  BY <1>4, <1>5, <1>6, <1>7 DEF VerdictInv

LEMMA ShowNextVerdict ==
    ASSUME HeapInv, ModesInv, VerdictInv, ShowNext
    PROVE  VerdictInv'
<1>1. /\ pc = "show.loop" /\ pc' = pc /\ error_occurred' = FALSE
      /\ fail_count' = fail_count
      /\ err_cnt' = err_cnt /\ exit' = exit /\ cmd' = cmd /\ op' = op
      /\ verbose' = verbose /\ alarms' = alarms /\ reported' = reported
  BY DEF ShowNext, console, history, tally
<1>2. loc'.ok = loc.ok
  <2>1. loc \in LocalTypes
    BY DEF HeapInv, Typed
  <2>2. PICK p, s, r : p = heap[loc.ptr].next /\ s = loc.seen + 1 /\ r = ~error_occurred
    OBVIOUS
  <2>3. loc' = [loc EXCEPT !.ptr = p, !.seen = s, !.rval = r]
    BY <2>2 DEF ShowNext
  <2>4. [loc EXCEPT !.ptr = p, !.seen = s, !.rval = r].ok = loc.ok
    BY <2>1 DEF LocalTypes
  <2>5. QED
    BY <2>3, <2>4
<1>3. CalmVerdicts'
  BY <1>1, <1>2 DEF VerdictInv, CalmVerdicts, Calm, MayFail
<1>4. SizeSeen' /\ OnlyShown'
  BY <1>1 DEF SizeSeen, VerdictInv, OnlyShown
<1>5. Counts'
  <2>1. ~verbose => op = "show"
    BY <1>1 DEF VerdictInv, OnlyShown
  <2>2. QED
    BY <1>1, <2>1 DEF VerdictInv, Counts, Doomed, Unnoticed
<1>6. QED
  BY <1>3, <1>4, <1>5 DEF VerdictInv

LEMMA EndShowVerdict ==
    ASSUME HeapInv, ModesInv, VerdictInv, EndShow
    PROVE  VerdictInv'
<1>1. /\ pc # "exit" /\ pc' = "after" /\ error_occurred' = error_occurred
      /\ fail_count' = fail_count
      /\ err_cnt' = err_cnt /\ exit' = exit /\ cmd' = cmd /\ op' = op
      /\ verbose' = verbose /\ alarms' = alarms /\ reported' = reported
  BY DEF EndShow, Goto, console, history, tally
<1>2. loc'.ok = loc.ok
  <2>1. loc \in LocalTypes
    BY DEF HeapInv, Typed
  <2>2. PICK r : r = (loc.rval /\ loc.ptr = NULL)
    OBVIOUS
  <2>3. loc' = [loc EXCEPT !.rval = r]
    BY <2>2 DEF EndShow
  <2>4. QED
    BY <2>1, <2>3 DEF LocalTypes
<1>3. CalmVerdicts'
  BY <1>1, <1>2 DEF VerdictInv, CalmVerdicts, Calm, MayFail
<1>4. SizeSeen' /\ OnlyShown'
  BY <1>1 DEF SizeSeen, OnlyShown
<1>5. Counts'
  BY <1>1, <1>2 DEF VerdictInv, Counts, Doomed, Unnoticed
<1>6. QED
  BY <1>3, <1>4, <1>5 DEF VerdictInv

\* q_free has left nothing.
LEMMA NothingLeft ==
    ASSUME HeapInv, Calm, pc = "after", op \in {"free", "quit"}
    PROVE  allocation_check = 0
<1>1. Shape
  BY DEF HeapInv, Good
<1>2. DOMAIN heap = {}
  <2>1. CASE q = NULL
    BY <1>1, <2>1 DEF Shape, NoQueueShape
  <2>2. CASE q # NULL
    <3>1. PICK ch, vl, st : ShapeOf(ch, vl, st)
      BY <1>1, <2>2 DEF Shape
    <3>2. QED
      BY <3>1 DEF ShapeOf, FreeShape
  <2>3. QED
    BY <2>1, <2>2
<1>3. QED
  BY <1>2, FS_EmptySet DEF allocation_check

\* An interrupted command whose verdict is decided is not satisfied.
LEMMA DoomedFails ==
    ASSUME Doomed, op # "quit"
    PROVE  ~Verdict
<1>1. CASE op \in {"free", "rh", "rhq", "reverse", "new", "size"} /\ error_occurred
  BY <1>1 DEF Verdict
<1>2. CASE op \in {"new", "size"} /\ ~loc.ok
  <2>1. Satisfied = loc.ok
    BY <1>2 DEF Satisfied
  <2>2. QED
    BY <1>2, <2>1 DEF Verdict
<1>3. QED
  BY <1>1, <1>2 DEF Doomed

LEMMA RecordVerdict ==
    ASSUME HeapInv, VerdictInv, NEW success \in BOOLEAN, Record(success), pc # "exit",
           success => ~Doomed, error_occurred' => error_occurred,
           error_occurred' \in BOOLEAN,
           verbose' = verbose, alarms' = alarms, reported' = reported
    PROVE  VerdictInv'
<1>1. /\ pc' \in {"idle", "exit"} /\ op' = "none" /\ loc' = Locals
      /\ pc' = "exit" => exit' = "failure" /\ err_cnt' >= ErrLimit
      /\ pc' = "idle" => exit' = exit
      /\ err_cnt' = IF success THEN err_cnt ELSE err_cnt + 1
  BY DEF Record, Goto
<1>2. err_cnt \in Nat /\ ErrLimit \in Nat /\ ErrLimit >= 1
  BY TesterAssumption DEF HeapInv, Typed
<1>3. err_cnt' \in Nat /\ (err_cnt > 0 => err_cnt' > 0)
      /\ (~success => err_cnt' > 0)
  BY <1>1, <1>2
<1>4. CalmVerdicts'
  <2>1. SUFFICES ASSUME Calm PROVE CalmVerdicts'
    BY DEF CalmVerdicts, Calm
  <2>2. error_occurred' = FALSE /\ reported' = "none" /\ loc'.ok
    BY <1>1, <2>1 DEF VerdictInv, CalmVerdicts, Locals
  <2>3. exit' = "failure" => err_cnt' > 0
    BY <1>1, <1>2, <1>3, <2>1 DEF VerdictInv, CalmVerdicts
  <2>4. QED
    BY <2>2, <2>3 DEF CalmVerdicts
<1>5. SizeSeen' /\ OnlyShown'
  BY <1>1 DEF SizeSeen, OnlyShown
<1>6. Counts'
  BY <1>3 DEF VerdictInv, Counts, Unnoticed
<1>7. QED
  BY <1>4, <1>5, <1>6 DEF VerdictInv

LEMMA BadCommandVerdict ==
    ASSUME HeapInv, VerdictInv, NEW c \in Command, BadCommand(c)
    PROVE  VerdictInv'
<1>1. /\ pc = "idle" /\ Record(FALSE) /\ error_occurred' = error_occurred
      /\ verbose' = verbose /\ alarms' = alarms /\ reported' = reported
      /\ error_occurred \in BOOLEAN
  BY DEF BadCommand, noted, HeapInv, Typed
<1>2. QED
  BY <1>1, RecordVerdict

LEMMA ReturnVerdict ==
    ASSUME HeapInv, ModesInv, VerdictInv, Return
    PROVE  VerdictInv'
<1>1. /\ pc = "after" /\ op # "quit" /\ fail_count' = fail_count
      /\ verbose' = verbose /\ alarms' = alarms /\ reported' = reported
  BY DEF Return, tally, noted
<1>2. error_occurred \in BOOLEAN /\ loc \in LocalTypes
  BY DEF HeapInv, Typed
<1>3. PICK ok : ok = Verdict
  OBVIOUS
<1>4. ok \in BOOLEAN /\ (ok => ~Doomed)
  BY <1>1, <1>3, DoomedFails DEF Verdict
<1>5. CASE op = "free" /\ cmd.op = "new"
  <2>1. /\ op' = "new" /\ pc' = "setup" /\ error_occurred' = FALSE
        /\ loc' = [Locals EXCEPT !.ok = ok]
        /\ err_cnt' = err_cnt /\ exit' = exit /\ cmd' = cmd
    BY <1>3, <1>5 DEF Return, Enter, Goto
  <2>2. loc'.ok = ok
    BY <2>1 DEF Locals
  <2>3. Calm => ok
    <3>1. SUFFICES ASSUME Calm PROVE Verdict
      BY <1>3
    <3>2. Satisfied
      BY <1>1, <1>5, <3>1, NothingLeft DEF Satisfied
    <3>3. error_occurred = FALSE
      BY <3>1 DEF VerdictInv, CalmVerdicts
    <3>4. QED
      BY <3>2, <3>3 DEF Verdict
  <2>4. CalmVerdicts'
    BY <1>1, <2>1, <2>2, <2>3 DEF VerdictInv, CalmVerdicts, Calm
  <2>5. SizeSeen' /\ OnlyShown'
    BY <2>1 DEF SizeSeen, OnlyShown
  <2>6. Counts'
    BY <1>1, <1>4, <2>1, <2>2 DEF VerdictInv, Counts, Doomed, Unnoticed
  <2>7. QED
    BY <2>4, <2>5, <2>6 DEF VerdictInv
<1>6. CASE ~(op = "free" /\ cmd.op = "new")
  <2>1. /\ error_occurred' = (error_occurred /\ (Verdict \/ ~Satisfied))
        /\ Record(ok)
    BY <1>3, <1>6 DEF Return
  <2>2. error_occurred' \in BOOLEAN /\ (error_occurred' => error_occurred)
    BY <1>2, <2>1
  <2>3. QED
    BY <1>1, <1>4, <2>1, <2>2, RecordVerdict
<1>7. QED
  BY <1>5, <1>6

LEMMA BeginVerdict ==
    ASSUME HeapInv, VerdictInv, (\E c \in Command : Begin(c)) \/ Quit
    PROVE  VerdictInv'
<1>1. pc = "idle" /\ \E f : Enter(f)
  BY DEF Begin, Quit
<1>2. /\ loc' = Locals
      /\ qcnt' = qcnt /\ fail_count' = fail_count
      /\ err_cnt' = err_cnt /\ exit' = exit /\ verbose' = verbose
      /\ alarms' = alarms /\ reported' = reported
  <2>1. CASE \E c \in Command : Begin(c)
    BY <2>1 DEF Begin, tally, noted
  <2>2. CASE Quit
    BY <2>2 DEF Quit, tally, history
  <2>3. QED
    BY <2>1, <2>2
<1>3. /\ error_occurred' \in {error_occurred, FALSE}
      /\ pc' \in {"show", "setup"} /\ loc'.ok /\ loc'.r = 0
  BY <1>1, <1>2 DEF Enter, Goto, Locals
<1>4. ~Doomed
  BY <1>1 DEF HeapInv, CommandOK, Doomed
<1>5. CalmVerdicts'
  BY <1>2, <1>3 DEF VerdictInv, CalmVerdicts, Calm
<1>6. SizeSeen' /\ OnlyShown'
  BY <1>3 DEF SizeSeen, OnlyShown
<1>7. Counts'
  BY <1>1, <1>2, <1>4 DEF VerdictInv, Counts, Unnoticed
<1>8. QED
  BY <1>5, <1>6, <1>7 DEF VerdictInv

\* The ways in which the process ends without an exception.
LEMMA EndVerdict ==
    ASSUME HeapInv, VerdictInv, Leave \/ Finish
    PROVE  VerdictInv'
<1>1. /\ pc' = "exit" /\ error_occurred' = error_occurred /\ fail_count' = fail_count
      /\ err_cnt' = err_cnt /\ cmd' = cmd /\ op' = op /\ loc' = loc
      /\ verbose' = verbose /\ alarms' = alarms /\ reported' = reported
  BY DEF Leave, Finish, Goto, tally, history
<1>2. err_cnt \in Nat
  BY TesterAssumption DEF HeapInv, Typed
<1>3. Calm /\ exit' = "failure" => err_cnt > 0
  <2>1. CASE Leave
    BY <2>1 DEF Leave
  <2>2. CASE Finish
    <3>1. pc = "after" /\ op = "quit"
      BY <2>2 DEF Finish
    <3>2. Calm => allocation_check = 0
      BY <3>1, NothingLeft
    <3>3. exit' = "failure" => allocation_check # 0 \/ err_cnt # 0
      BY <2>2 DEF Finish
    <3>4. QED
      BY <1>2, <3>2, <3>3
  <2>3. QED
    BY <2>1, <2>2
<1>4. CalmVerdicts'
  BY <1>1, <1>3 DEF VerdictInv, CalmVerdicts, Calm, MayFail
<1>5. SizeSeen' /\ OnlyShown' /\ Counts'
  BY <1>1 DEF SizeSeen, OnlyShown, Counts
<1>6. QED
  BY <1>4, <1>5 DEF VerdictInv

LEMMA ExceptionVerdict ==
    ASSUME HeapInv, ModesInv, VerdictInv, Alarm \/ Segv
    PROVE  VerdictInv'
<1>1. TriggerException /\ ExceptionSame
  BY ExceptionLeaves DEF Alarm, Segv
<1>2. ~Calm'
  <2>1. alarms' \in 1 .. MaxAlarms
    BY AlarmCounted
  <2>2. QED
    BY <2>1 DEF Calm
<1>3. CalmVerdicts' /\ SizeSeen'
  BY <1>2 DEF CalmVerdicts, SizeSeen
<1>4. CASE jmp_ready = TRUE
  <2>1. ReturnAgain /\ reported' = op
    BY <1>1, <1>4 DEF TriggerException
  <2>2. OutInShow \/ OutInLoop \/ OutInInsertion \/ OutBehind
    BY <1>4, <2>1, ReturnAgainCases
  <2>3. pc' \in {"show.loop", "show.cancel"} => pc = "show.loop"
    BY <2>2 DEF OutInShow, OutInLoop, OutInInsertion, OutBehind
  <2>4. OnlyShown'
    BY <1>1, <2>3 DEF ExceptionSame, VerdictInv, OnlyShown
  <2>5. op \in Operations \ {"bad"}
    <3>1. pc \notin {"idle", "exit"}
      BY <1>4 DEF ModesInv, Unprepared
    <3>2. QED
      BY <3>1 DEF ModesInv, OperationFits, HeapInv, CommandOK, Operations
  <2>6. Counts'
    BY <1>1, <2>1, <2>5 DEF ExceptionSame, Counts, Doomed, Unnoticed, Operations
  <2>7. QED
    BY <1>3, <2>4, <2>6 DEF VerdictInv
<1>5. CASE jmp_ready = FALSE
  <2>1. pc' = "exit"
    BY <1>1, <1>5 DEF TriggerException, Goto
  <2>2. QED
    BY <1>3, <2>1 DEF VerdictInv, OnlyShown, Counts
<1>6. QED
  BY <1>4, <1>5 DEF HeapInv, Typed

LEMMA VerdictStep ==
    HeapInv /\ ModesInv /\ VerdictInv /\ [Next \/ Ended]_vars => VerdictInv'
<1> SUFFICES ASSUME HeapInv, ModesInv, VerdictInv, [Next \/ Ended]_vars
             PROVE  VerdictInv'
  OBVIOUS
<1>1. CASE vars' = vars
  <2>1. /\ qcnt' = qcnt /\ fail_count' = fail_count
        /\ error_occurred' = error_occurred
        /\ err_cnt' = err_cnt /\ exit' = exit /\ cmd' = cmd /\ op' = op /\ pc' = pc
        /\ loc' = loc /\ verbose' = verbose /\ alarms' = alarms /\ reported' = reported
    BY <1>1 DEF vars, tally, console, history
  <2>2. QED
    BY <2>1 DEF VerdictInv, CalmVerdicts, SizeSeen, OnlyShown, Counts, Calm, MayFail,
       Doomed, Unnoticed
<1>2. ASSUME NEW c \in Command, Begin(c) \/ BadCommand(c)
      PROVE  VerdictInv'
  BY <1>2, BeginVerdict, BadCommandVerdict
<1>3. CASE Quit
  BY <1>3, BeginVerdict
<1>4. CASE Statement
  <2>1. ~BadPointer
    BY <1>4 DEF Statement
  <2>2. CASE Library
    BY <2>2, LibraryVerdict
  <2>3. CASE ExceptionSetup
    BY <2>3, SetupVerdict
  <2>4. CASE Loop
    BY <2>4, LoopVerdict
  <2>5. CASE AfterInsertion
    BY <2>1, <2>5, InsertionVerdict
  <2>6. CASE NextRound
    BY <2>6, NextRoundVerdict
  <2>7. CASE ExceptionCancel
    BY <2>7, CancelVerdict
  <2>8. CASE BeginShow
    BY <2>8, BeginShowVerdict
  <2>9. CASE ShowNext
    BY <2>9, ShowNextVerdict
  <2>10. CASE EndShow
    BY <2>10, EndShowVerdict
  <2>11. CASE Return
    BY <2>11, ReturnVerdict
  <2>12. CASE Finish
    BY <2>12, EndVerdict
  <2>13. QED
    BY <1>4, <2>2, <2>3, <2>4, <2>5, <2>6, <2>7, <2>8, <2>9, <2>10, <2>11, <2>12
       DEF Statement
<1>5. CASE Leave
  BY <1>5, EndVerdict
<1>6. CASE Segv \/ Alarm
  BY <1>6, ExceptionVerdict
<1>7. CASE Ended
  BY <1>1, <1>7 DEF Ended
<1>8. QED
  BY <1>1, <1>2, <1>3, <1>4, <1>5, <1>6, <1>7 DEF Next, Step

LEMMA VerdictInitially == Init => VerdictInv
  BY DEF Init, VerdictInv, CalmVerdicts, SizeSeen, OnlyShown, Counts, Unnoticed, Locals

\* Unless an alarm goes off no exception is reported and commands fail only for
\* a reason, and a command that an alarm has interrupted will be counted.
THEOREM VerdictInvariance == Spec => []VerdictInv
<1>1. Spec => [](HeapInv /\ ModesInv)
  BY HeapInvariance, ModesInvariance, PTL
<1>2. QED
  BY <1>1, VerdictInitially, VerdictStep, PTL DEF Spec

\* The tester's verdicts: until an alarm goes off no exception is reported, and a
\* command fails only for a reason.  A command that an alarm has interrupted is
\* counted as failed before the next one is read, outside verbose mode, unless it
\* is an insertion or the display, or the queue was displayed before its verdict
\* (NoFalseVerdict).
THEOREM VerdictCorrect == Spec => []NoFalseVerdict
<1>1. HeapInv /\ VerdictInv => NoFalseVerdict
  <2>1. SUFFICES ASSUME HeapInv, VerdictInv PROVE NoFalseVerdict
    OBVIOUS
  <2>2. pc = "idle" => ~Doomed
    BY <2>1 DEF HeapInv, CommandOK, Doomed
  <2>3. QED
    BY <2>1, <2>2 DEF NoFalseVerdict, VerdictInv, CalmVerdicts, MayFail, Counts, Unnoticed
<1>2. QED
  BY <1>1, HeapInvariance, VerdictInvariance, PTL

-----------------------------------------------------------------------------
(***************************************************************************)
(* The list that the user of the queue sees.                               *)
(***************************************************************************)
\* There is a queue, and nothing has been done to it that hides its contents.
Shown == Calm /\ q # NULL /\ (op \in {"free", "quit"} => pc \in {"idle", "setup", "free"})

LEMMA HiddenContents == ~Shown => Contents = NoStr
  BY DEF Shown, Contents

LEMMA HiddenNext == ~Shown' => Contents' = NoStr
  BY DEF Shown, Contents

\* The list hangs on the queue, and ends where no block is.
Reads(ch, vl, st) ==
    \E T, e : /\ Held(heap, ch, vl, st, T, e) /\ heap[q].head = FirstOf(ch, e)
              /\ e \in {NULL, Wild}

LEMMA RestingReads ==
    ASSUME NEW ch, NEW vl, NEW st, NEW S, NEW m, Resting(ch, vl, st, S, m)
    PROVE  Reads(ch, vl, st)
<1>1. heap[q].head = FirstOf(ch, NULL)
  BY QueueFields DEF Resting
<1>2. PICK T : T = {q} \cup S
  OBVIOUS
<1>3. Held(heap, ch, vl, st, T, NULL)
  BY <1>2 DEF Resting
<1>4. QED
  BY <1>1, <1>3 DEF Reads

LEMMA ShapeReads ==
    ASSUME HeapInv, ModesInv, Shown, pc \notin {"exit", "reverse.loop"},
           NEW ch, NEW vl, NEW st, ShapeOf(ch, vl, st)
    PROVE  Reads(ch, vl, st)
<1>1. Calm /\ q # NULL /\ (op \in {"free", "quit"} => pc \in {"idle", "setup", "free"})
  BY DEF Shown
<1>2. pc \notin {"free.next", "free.value", "free.element", "free.queue", "new", "new.ret",
                 "show.cancel"}
  BY <1>1 DEF HeapInv, QueueThere, CalmPlaces, ModesInv, OperationFits, AtFree, AtNew
<1>3. pc \in Steady \cup {"insert.value", "ih", "it", "ih.next", "ih.head", "ih.size",
          "it.size", "it.next", "it.tail", "ret", "remove.value", "remove.element",
          "remove.size", "cancel"}
  BY <1>2 DEF HeapInv, CommandOK, Places, Steady, AtInsertion, AtRound, AtRemoval, AtFree,
     AtReverse, AtNew
<1>4. pc = "idle" => op # "quit"
  BY DEF HeapInv, CommandOK
<1>5. PICK p : p = loc.ptr
  OBVIOUS
<1>6. CASE pc \in Steady
  BY <1>1, <1>4, <1>6, RestingReads DEF ShapeOf
<1>7. CASE pc \in {"insert.value", "ih", "it", "ih.size", "it.size", "ret"}
  BY <1>7, RestingReads DEF ShapeOf, InsertShape
<1>8. CASE pc \in {"ih.next", "ih.head"}
  <2>1. /\ Held(heap, ch, vl, st, {q, p, heap[p].value}, NULL)
        /\ heap[q] = Queue(FirstOf(ch, NULL), heap[q].tail, Len(ch))
    BY <1>5, <1>8 DEF ShapeOf, InsertShape
  <2>2. QED
    BY <2>1, QueueFields DEF Reads
<1>9. CASE pc \in {"it.next", "it.tail"}
  <2>1. PICK e : e = IF pc = "it.next" THEN Wild ELSE NULL
    OBVIOUS
  <2>2. /\ Held(heap, ch, vl, st, {q}, e) /\ Len(ch) >= 1
        /\ heap[q] = Queue(FirstOf(ch, NULL), heap[q].tail, Len(ch) - 1)
    BY <1>9, <2>1 DEF ShapeOf, InsertShape
  <2>3. ch # << >> /\ FirstOf(ch, NULL) = FirstOf(ch, e)
    BY <2>2, ListLength DEF Held, FirstOf
  <2>4. heap[q].head = FirstOf(ch, e)
    BY <2>2, <2>3, QueueFields
  <2>5. QED
    BY <2>1, <2>2, <2>4 DEF Reads
<1>10. CASE pc \in {"remove.value", "remove.element", "remove.size"}
  BY <1>10, RestingReads DEF ShapeOf, RemoveShape
<1>11. CASE pc = "cancel"
  BY <1>1, <1>11, RestingReads DEF ShapeOf, OtherShape
<1>12. QED
  BY <1>3, <1>6, <1>7, <1>8, <1>9, <1>10, <1>11

\* It is read off to its end, and consists of strings.
LEMMA ReadsList ==
    ASSUME HeapTyped(heap), NEW ch, NEW vl, NEW st, Reads(ch, vl, st)
    PROVE  Strings(heap[q].head) = st /\ st \in Seq(Str)
<1>1. PICK T, e : /\ Held(heap, ch, vl, st, T, e) /\ heap[q].head = FirstOf(ch, e)
                  /\ e \in {NULL, Wild}
  BY DEF Reads
<1>2. Strings(FirstOf(ch, e)) = st
  BY <1>1, ReadList, EndsOutside
<1>3. st \in Seq(Str)
  BY <1>1 DEF Held, Lists
<1>4. QED
  BY <1>1, <1>2, <1>3

\* What q_reverse has turned around is read off from its last element on.
LEMMA TurnedPart ==
    ASSUME HeapTyped(heap), NEW ch, NEW vl, NEW st, NEW S, NEW k \in 0 .. Len(ch),
           Turned(heap, ch, vl, st, S, k)
    PROVE  Strings(IF k = 0 THEN NULL ELSE ch[k]) = [i \in 1 .. k |-> st[k - i + 1]]
<1> DEFINE c == [i \in 1 .. k |-> ch[k - i + 1]]
<1>1. /\ Lists(ch, vl, st) /\ Len(ch) \in Nat /\ Len(ch) <= MaxBlocks
      /\ ch \in Seq(Block) /\ k \in Nat /\ k <= Len(ch) /\ MaxBlocks \in Nat
  <2>1. Lists(ch, vl, st) /\ Apart(ch, vl, S) /\ Extent(heap, ch, vl, S)
    BY DEF Turned
  <2>2. Len(ch) \in Nat /\ ch \in Seq(Block)
    BY <2>1, ListLength DEF Lists
  <2>3. Len(ch) <= MaxBlocks
    BY <2>1, ListShort
  <2>4. QED
    BY <2>1, <2>2, <2>3, BlockFinite
<1>2. c \in Seq(Block) /\ Len(c) = k /\ \A i \in 1 .. k : c[i] = ch[k - i + 1]
  <2>1. \A i \in 1 .. k : k - i + 1 \in 1 .. Len(ch)
    BY <1>1
  <2>2. c \in [1 .. k -> Block]
    BY <1>1, <2>1
  <2>3. QED
    BY <1>1, <2>2
<1> HIDE DEF c
<1>3. ASSUME NEW i \in 1 .. k
      PROVE  /\ ElementAt(heap, c[i]) /\ heap[c[i]].next = NextOf(c, i, NULL)
             /\ heap[heap[c[i]].value].str = st[k - i + 1]
  <2> DEFINE j == k - i + 1
  <2>1. j \in 1 .. Len(ch) /\ j <= k /\ c[i] = ch[j] /\ (j = 1 <=> i = k)
        /\ (i # k => i + 1 \in 1 .. k /\ k - (i + 1) + 1 = j - 1)
    BY <1>1, <1>2
  <2>2. /\ heap[ch[j]] = Element(vl[j], TurnedNext(ch, j, k))
        /\ heap[vl[j]] = StringOf(st[j]) /\ ch[j] \in DOMAIN heap
    BY <2>1 DEF Turned, Extent
  <2>3. TurnedNext(ch, j, k) = NextOf(c, i, NULL)
    <3>1. i # k => c[i + 1] = ch[j - 1]
      BY <2>1, <1>2
    <3>2. QED
      BY <2>1, <1>2, <3>1 DEF TurnedNext, NextOf
  <2> HIDE DEF j
  <2>4. /\ heap[c[i]].kind = "element" /\ heap[c[i]].value = vl[j]
        /\ heap[c[i]].next = NextOf(c, i, NULL) /\ heap[vl[j]].str = st[j]
    BY <2>1, <2>2, <2>3, QueueFields
  <2>5. QED
    BY <2>1, <2>2, <2>4 DEF ElementAt, j
<1>4. Path(heap, c, NULL)
  BY <1>1, <1>2, <1>3 DEF Path
<1>5. Strings(FirstOf(c, NULL)) = [i \in 1 .. Len(c) |-> heap[heap[c[i]].value].str]
  BY <1>4, ReadPath, EndsOutside
<1>6. FirstOf(c, NULL) = IF k = 0 THEN NULL ELSE ch[k]
  <2>1. CASE k = 0
    BY <2>1, <1>2 DEF FirstOf
  <2>2. CASE k # 0
    <3>1. 1 \in 1 .. k /\ k - 1 + 1 = k /\ c # << >>
      BY <2>2, <1>1, <1>2
    <3>2. c[1] = ch[k]
      BY <3>1, <1>2
    <3>3. QED
      BY <2>2, <3>1, <3>2 DEF FirstOf
  <2>3. QED
    BY <2>1, <2>2
<1>7. [i \in 1 .. Len(c) |-> heap[heap[c[i]].value].str] = [i \in 1 .. k |-> st[k - i + 1]]
  BY <1>2, <1>3
<1>8. QED
  BY <1>5, <1>6, <1>7

\* The rest is read off from the next element on.
LEMMA RestPart ==
    ASSUME HeapTyped(heap), NEW ch, NEW vl, NEW st, NEW S, NEW k \in 0 .. Len(ch),
           Turned(heap, ch, vl, st, S, k)
    PROVE  Strings(IF k = Len(ch) THEN NULL ELSE ch[k + 1])
               = [i \in 1 .. Len(ch) - k |-> st[k + i]]
<1> DEFINE c == [i \in 1 .. Len(ch) - k |-> ch[k + i]]
           m == Len(ch) - k
<1>1. /\ Lists(ch, vl, st) /\ Len(ch) \in Nat /\ Len(ch) <= MaxBlocks
      /\ ch \in Seq(Block) /\ k \in Nat /\ k <= Len(ch) /\ MaxBlocks \in Nat
  <2>1. Lists(ch, vl, st) /\ Apart(ch, vl, S) /\ Extent(heap, ch, vl, S)
    BY DEF Turned
  <2>2. Len(ch) \in Nat /\ ch \in Seq(Block)
    BY <2>1, ListLength DEF Lists
  <2>3. Len(ch) <= MaxBlocks
    BY <2>1, ListShort
  <2>4. QED
    BY <2>1, <2>2, <2>3, BlockFinite
<1>2. /\ c \in Seq(Block) /\ Len(c) = m /\ m \in Nat /\ m <= MaxBlocks
      /\ \A i \in 1 .. m : c[i] = ch[k + i]
  <2>1. \A i \in 1 .. m : k + i \in 1 .. Len(ch)
    BY <1>1
  <2>2. c \in [1 .. m -> Block] /\ m \in Nat
    BY <1>1, <2>1
  <2>3. QED
    BY <1>1, <2>2
<1> HIDE DEF c
<1>3. ASSUME NEW i \in 1 .. m
      PROVE  /\ ElementAt(heap, c[i]) /\ heap[c[i]].next = NextOf(c, i, NULL)
             /\ heap[heap[c[i]].value].str = st[k + i]
  <2> DEFINE j == k + i
  <2>1. j \in 1 .. Len(ch) /\ ~(j <= k) /\ c[i] = ch[j] /\ (j = Len(ch) <=> i = m)
        /\ (i # m => i + 1 \in 1 .. m /\ k + (i + 1) = j + 1)
    BY <1>1, <1>2
  <2>2. /\ heap[ch[j]] = Element(vl[j], TurnedNext(ch, j, k))
        /\ heap[vl[j]] = StringOf(st[j]) /\ ch[j] \in DOMAIN heap
    BY <2>1 DEF Turned, Extent
  <2>3. TurnedNext(ch, j, k) = NextOf(c, i, NULL)
    <3>1. i # m => c[i + 1] = ch[j + 1]
      BY <2>1, <1>2
    <3>2. QED
      BY <2>1, <1>2, <3>1 DEF TurnedNext, NextOf
  <2> HIDE DEF j
  <2>4. /\ heap[c[i]].kind = "element" /\ heap[c[i]].value = vl[j]
        /\ heap[c[i]].next = NextOf(c, i, NULL) /\ heap[vl[j]].str = st[j]
    BY <2>1, <2>2, <2>3, QueueFields
  <2>5. QED
    BY <2>1, <2>2, <2>4 DEF ElementAt, j
<1>4. Path(heap, c, NULL)
  BY <1>1, <1>2, <1>3 DEF Path
<1>5. Strings(FirstOf(c, NULL)) = [i \in 1 .. Len(c) |-> heap[heap[c[i]].value].str]
  BY <1>4, ReadPath, EndsOutside
<1>6. FirstOf(c, NULL) = IF k = Len(ch) THEN NULL ELSE ch[k + 1]
  <2>1. CASE k = Len(ch)
    <3>1. c = << >>
      BY <2>1, <1>1, <1>2
    <3>2. QED
      BY <2>1, <3>1 DEF FirstOf
  <2>2. CASE k # Len(ch)
    <3>1. 1 \in 1 .. m /\ c # << >>
      BY <2>2, <1>1, <1>2
    <3>2. c[1] = ch[k + 1]
      BY <3>1, <1>2
    <3>3. QED
      BY <2>2, <3>1, <3>2 DEF FirstOf
  <2>3. QED
    BY <2>1, <2>2
<1>7. [i \in 1 .. Len(c) |-> heap[heap[c[i]].value].str] = [i \in 1 .. m |-> st[k + i]]
  BY <1>2, <1>3
<1>8. QED
  BY <1>5, <1>6, <1>7

LEMMA Joined ==
    ASSUME NEW S, NEW s \in Seq(S), NEW t \in Seq(S)
    PROVE  s \o t \in Seq(S) /\ Len(s \o t) = Len(s) + Len(t)
OBVIOUS

\* Both parts together are the list.
LEMMA TurnedWhole ==
    ASSUME NEW S, NEW s \in Seq(S), NEW k \in 0 .. Len(s)
    PROVE  Reverse([i \in 1 .. k |-> s[k - i + 1]]) \o [i \in 1 .. Len(s) - k |-> s[k + i]] = s
<1> DEFINE t == [i \in 1 .. k |-> s[k - i + 1]]
           r == [i \in 1 .. Len(s) - k |-> s[k + i]]
           u == Reverse(t)
           w == u \o r
<1>1. Len(s) \in Nat /\ k \in Nat /\ k <= Len(s) /\ Len(s) - k \in Nat
  OBVIOUS
<1>2. t \in Seq(S) /\ Len(t) = k /\ \A i \in 1 .. k : t[i] = s[k - i + 1]
  <2>1. \A i \in 1 .. k : k - i + 1 \in 1 .. Len(s)
    BY <1>1
  <2>2. t \in [1 .. k -> S]
    BY <1>1, <2>1
  <2>3. QED
    BY <1>1, <2>2
<1>3. r \in Seq(S) /\ Len(r) = Len(s) - k /\ \A i \in 1 .. Len(s) - k : r[i] = s[k + i]
  <2>1. \A i \in 1 .. Len(s) - k : k + i \in 1 .. Len(s)
    BY <1>1
  <2>2. r \in [1 .. Len(s) - k -> S]
    BY <1>1, <2>1
  <2>3. QED
    BY <1>1, <2>2
<1> HIDE DEF t, r
<1>4. u \in Seq(S) /\ Len(u) = k /\ \A i \in 1 .. k : u[i] = s[i]
  <2>1. /\ u \in Seq(S) /\ Len(u) = k
        /\ \A i \in 1 .. k : k - i + 1 \in 1 .. k /\ u[i] = t[k - i + 1]
    BY <1>2, Reversed
  <2>2. \A i \in 1 .. k : k - (k - i + 1) + 1 = i
    BY <1>1
  <2>3. QED
    BY <1>2, <2>1, <2>2
<1> HIDE DEF u
<1>5. w \in Seq(S) /\ Len(w) = Len(s)
  <2>1. w \in Seq(S) /\ Len(w) = Len(u) + Len(r)
    BY <1>3, <1>4, Joined
  <2>2. k + (Len(s) - k) = Len(s)
    BY <1>1
  <2>3. QED
    BY <1>3, <1>4, <2>1, <2>2
<1>6. ASSUME NEW i \in 1 .. Len(s)
      PROVE  w[i] = s[i]
  <2>1. CASE i <= k
    <3>1. i \in 1 .. k
      BY <2>1, <1>1
    <3>2. w[i] = u[i]
      BY <3>1, <1>3, <1>4
    <3>3. QED
      BY <3>1, <3>2, <1>4
  <2>2. CASE ~(i <= k)
    <3>1. i - k \in 1 .. Len(s) - k /\ k + (i - k) = i
      BY <2>2, <1>1
    <3>2. w[i] = r[i - k]
      BY <2>2, <3>1, <1>1, <1>3, <1>4
    <3>3. QED
      BY <3>1, <3>2, <1>3
  <2>3. QED
    BY <2>1, <2>2
<1> HIDE DEF w
<1>7. w = s
  BY <1>5, <1>6, SeqEqual
<1>8. QED
  BY <1>7 DEF w, u, t, r

\* What the user of the queue sees is the list in it.
LEMMA ListShown ==
    ASSUME HeapInv, ModesInv, Shown, pc # "exit", NEW st, IsList(st)
    PROVE  Contents = st /\ st \in Seq(Str)
<1>1. HeapTyped(heap)
  BY HeapIsTyped DEF HeapInv
<1>2. PICK ch, vl : ShapeOf(ch, vl, st)
  BY DEF IsList
<1>3. CASE pc # "reverse.loop"
  <2>1. Strings(heap[q].head) = st /\ st \in Seq(Str)
    BY <1>1, <1>2, <1>3, ShapeReads, ReadsList
  <2>2. QED
    BY <1>3, <2>1 DEF Shown, Contents
<1>4. CASE pc = "reverse.loop"
  <2>1. PICK k \in 0 .. Len(ch) :
           /\ Turned(heap, ch, vl, st, {q}, k)
           /\ loc.aux = IF k = 0 THEN NULL ELSE ch[k]
           /\ loc.ptr = IF k = Len(ch) THEN NULL ELSE ch[k + 1]
    BY <1>2, <1>4 DEF ShapeOf, OtherShape
  <2>2. PICK S : S = {q}
    OBVIOUS
  <2>3. Turned(heap, ch, vl, st, S, k)
    BY <2>1, <2>2
  <2>4. st \in Seq(Str) /\ Len(st) = Len(ch)
    BY <2>3 DEF Turned, Lists
  <2>5. Strings(loc.aux) = [i \in 1 .. k |-> st[k - i + 1]]
    BY <1>1, <2>1, <2>3, TurnedPart
  <2>6. Strings(loc.ptr) = [i \in 1 .. Len(ch) - k |-> st[k + i]]
    BY <1>1, <2>1, <2>3, RestPart
  <2>7. Contents = Reverse(Strings(loc.aux)) \o Strings(loc.ptr)
    BY <1>4 DEF Shown, Contents
  <2>8. Contents = st
    <3>1. k \in 0 .. Len(st)
      BY <2>4
    <3>2. Reverse([i \in 1 .. k |-> st[k - i + 1]])
              \o [i \in 1 .. Len(st) - k |-> st[k + i]] = st
      BY <2>4, <3>1, TurnedWhole
    <3>3. QED
      BY <2>4, <2>5, <2>6, <2>7, <3>2
  <2>9. QED
    BY <2>4, <2>8
<1>5. QED
  BY <1>3, <1>4

ShownList == \A st : Shown /\ pc # "exit" /\ IsList(st) => Contents = st /\ st \in Seq(Str)

LEMMA ShownNow == HeapInv /\ ModesInv => ShownList
  BY ListShown DEF ShownList

LEMMA ShownNext == HeapInv' /\ ModesInv' => ShownList'
  BY ShownNow, PTL

\* Before and after a step that changes the list.
LEMMA ListsShown ==
    ASSUME HeapInv, ModesInv, HeapInv', ModesInv',
           Shown, Shown', pc # "exit", pc' # "exit",
           NEW s, NEW t, IsList(s), IsList(t)'
    PROVE  Contents = s /\ s \in Seq(Str) /\ Contents' = t /\ t \in Seq(Str)
<1>1. Contents = s /\ s \in Seq(Str)
  BY ListShown
<1>2. Contents' = t /\ t \in Seq(Str)
  BY ShownNext DEF ShownList
<1>3. QED
  BY <1>1, <1>2

\* There is a list whenever something is shown.
LEMMA SomethingShown ==
    ASSUME HeapInv, Shown, pc # "exit"
    PROVE  \E st : IsList(st)
<1>1. Good
  BY DEF Shown, Good
<1>2. QED
  BY <1>1, ShapeThere DEF Shown, IsList

LEMMA StringsShown ==
    ASSUME HeapInv, ModesInv, Shown, pc # "exit"
    PROVE  Contents \in Seq(Str) /\ IsList(Contents)
<1>1. PICK st : IsList(st)
  BY SomethingShown
<1>2. Contents = st /\ st \in Seq(Str)
  BY <1>1, ListShown
<1>3. QED
  BY <1>1, <1>2

\* Statements that only look at the heap.
LEMMA SameContents ==
    ASSUME heap' = heap, q' = q, Calm' <=> Calm, Shown' <=> Shown,
           pc # "reverse.loop", pc' # "reverse.loop"
    PROVE  Contents' = Contents
<1>1. CASE ~Shown
  <2>1. Contents = NoStr /\ Contents' = NoStr
    BY <1>1, HiddenContents DEF Shown, Contents
  <2>2. QED
    BY <2>1
<1>2. CASE Shown
  <2>1. Contents = Strings(heap[q].head) /\ Contents' = Strings(heap[q].head)'
    BY <1>2 DEF Shown, Contents
  <2>2. Strings(heap[q].head)' = Strings(heap[q].head)
    BY DEF Strings, Chain, IsElement
  <2>3. QED
    BY <2>1, <2>2
<1>3. QED
  BY <1>1, <1>2

-----------------------------------------------------------------------------
(* What the statements of queue.c do to the contents.                        *)

ContentsMove ==
    /\ pc = "ih.head" => Contents \in Seq(Str) /\ Contents' = <<cmd.str>> \o Contents
    /\ pc = "it" => Contents \in Seq(Str) /\ Contents' = Append(Contents, cmd.str)
    /\ pc = "remove.head" =>
           Contents \in Seq(Str) /\ Contents # << >> /\ Contents' = Tail(Contents)
    /\ pc = "reverse.loop" /\ loc.ptr = NULL =>
           Contents \in Seq(Str) /\ Contents' = Reverse(Contents)
    /\ pc = "new.ret" => Contents = NoStr /\ Contents' = << >>
    /\ pc = "free" => Contents \in Seq(Str) \cup {NoStr} /\ Contents' = NoStr
    /\ \/ pc \in {"ih.head", "it", "remove.head", "new.ret", "free"}
       \/ pc = "reverse.loop" /\ loc.ptr = NULL
       \/ Contents' = Contents

LEMMA LibraryStays ==
    ASSUME ModesInv, Library
    PROVE  pc # "exit" /\ pc' # "exit"
<1>1. op # "exit"
  BY DEF ModesInv, OperationFits, Operations
<1>2. QED
  BY <1>1 DEF Library, QNew, QFree, NewElement, FreeNewElement, QInsertHead, SetFirstTail,
     QInsertTail, SetTail, QRemoveHead, ShrinkSize, QSize, QReverse, BeginReverse,
     TurnElement, Goto, Returns

\* A queue that has just been made is empty.
NewIsEmpty == Shown /\ pc = "cancel" /\ op = "new" => Contents = << >>

LEMMA NewEmpty == HeapInv /\ ModesInv => NewIsEmpty
<1> SUFFICES ASSUME HeapInv, ModesInv, Shown, pc = "cancel", op = "new"
             PROVE  Contents = << >>
  BY DEF NewIsEmpty
<1>1. PICK st : IsList(st)
  BY SomethingShown
<1>2. PICK ch, vl : ShapeOf(ch, vl, st)
  BY <1>1 DEF IsList
<1>3. Resting(ch, vl, st, {}, Len(ch)) /\ ch = << >>
  BY <1>2 DEF ShapeOf, OtherShape
<1>4. st \in Seq(Str) /\ Len(st) = Len(ch)
  BY <1>3 DEF Resting, Held, Lists
<1>5. st = << >>
  BY <1>3, <1>4
<1>6. QED
  BY <1>1, <1>5, ListShown

LEMMA NewEmptyNext == HeapInv' /\ ModesInv' => NewIsEmpty'
  BY NewEmpty, PTL

\* Statements of an operation on a queue that is there.
LEMMA ListEffect ==
    ASSUME HeapInv, ModesInv, HeapInv', ModesInv', LibSame, Calm, q' = q, q # NULL,
           op \notin {"free", "quit"}, pc # "exit", pc' # "exit"
    PROVE  /\ Keeps => Contents' = Contents
           /\ Prepends => Contents \in Seq(Str) /\ Contents' = <<cmd.str>> \o Contents
           /\ Appends => Contents \in Seq(Str) /\ Contents' = Append(Contents, cmd.str)
           /\ Shortens =>
                 Contents \in Seq(Str) /\ Contents # << >> /\ Contents' = Tail(Contents)
           /\ Reverses => Contents \in Seq(Str) /\ Contents' = Reverse(Contents)
<1>1. Shown /\ Shown'
  BY DEF Shown, LibSame, Calm
<1>2. \A s, t : IsList(s) /\ IsList(t)' =>
          Contents = s /\ s \in Seq(Str) /\ Contents' = t /\ t \in Seq(Str)
  BY <1>1, ListsShown
<1>3. Keeps => Contents' = Contents
  BY <1>2 DEF Keeps
<1>4. Prepends => Contents \in Seq(Str) /\ Contents' = <<cmd.str>> \o Contents
  BY <1>2 DEF Prepends
<1>5. Appends => Contents \in Seq(Str) /\ Contents' = Append(Contents, cmd.str)
  BY <1>2 DEF Appends
<1>6. Shortens => Contents \in Seq(Str) /\ Contents # << >> /\ Contents' = Tail(Contents)
  BY <1>2 DEF Shortens
<1>7. Reverses => Contents \in Seq(Str) /\ Contents' = Reverse(Contents)
  BY <1>2 DEF Reverses
<1>8. QED
  BY <1>3, <1>4, <1>5, <1>6, <1>7

LEMMA UntouchedSame ==
    ASSUME LibSame, Untouched, op \notin {"free", "quit"},
           pc # "reverse.loop", pc' # "reverse.loop"
    PROVE  Contents' = Contents
<1>1. (Shown' <=> Shown) /\ (Calm' <=> Calm)
  BY DEF Untouched, LibSame, Shown, Calm
<1>2. QED
  BY <1>1, SameContents DEF Untouched

LEMMA InsertionEffect ==
    ASSUME HeapInv, ModesInv, HeapInv', ModesInv', LibSame, Calm, Library,
           InsertsList, NewElement \/ QInsertHead \/ QInsertTail
    PROVE  ContentsMove
<1>1. /\ q' = q /\ pc \in AtInsertion /\ op \in Insertions
      /\ pc # "exit" /\ pc' \notin {"exit", "reverse.loop"}
  <2>1. pc \in AtInsertion /\ op \in Insertions
    BY DEF InsertsList, AtInsertion, ModesInv, OperationFits
  <2>2. q' = q /\ pc' # "reverse.loop"
    BY <2>1 DEF NewElement, FreeNewElement, QInsertHead, SetFirstTail, QInsertTail, SetTail,
       Goto, Returns, memory, Insertions
  <2>3. QED
    BY <2>1, <2>2, LibraryStays
<1>2. pc \in AtInsertion /\ op \notin {"free", "quit"} /\ pc # "reverse.loop"
      /\ pc \notin {"remove.head", "new.ret", "free"}
  BY <1>1 DEF AtInsertion, Insertions
<1>3. CASE pc = "ih.head" /\ Prepends
  <2>1. q # NULL
    BY <1>3 DEF HeapInv, QueueThere, AtInsertion
  <2>2. Contents \in Seq(Str) /\ Contents' = <<cmd.str>> \o Contents
    BY <1>1, <1>2, <1>3, <2>1, ListEffect
  <2>3. QED
    BY <1>3, <2>2 DEF ContentsMove
<1>4. CASE pc = "it" /\ Appends
  <2>1. q # NULL
    BY <1>4 DEF HeapInv, QueueThere, AtInsertion
  <2>2. Contents \in Seq(Str) /\ Contents' = Append(Contents, cmd.str)
    BY <1>1, <1>2, <1>4, <2>1, ListEffect
  <2>3. QED
    BY <1>4, <2>2 DEF ContentsMove
<1>5. CASE pc \in AtInsertion \ {"ih.head", "it"} /\ (Keeps \/ Untouched)
  <2>1. Contents' = Contents
    <3>1. CASE Untouched
      BY <1>1, <1>2, <3>1, UntouchedSame
    <3>2. CASE Keeps /\ q # NULL
      BY <1>1, <1>2, <3>2, ListEffect
    <3>3. CASE q = NULL
      BY <1>1, <3>3, HiddenContents, HiddenNext DEF Shown
    <3>4. QED
      BY <1>5, <3>1, <3>2, <3>3
  <2>2. QED
    BY <1>2, <1>5, <2>1 DEF ContentsMove
<1>6. QED
  BY <1>3, <1>4, <1>5 DEF InsertsList

LEMMA RemovalEffect ==
    ASSUME HeapInv, ModesInv, HeapInv', ModesInv', LibSame, Calm, Library,
           RemovesList, QRemoveHead
    PROVE  ContentsMove
<1>1. /\ q' = q /\ pc \in AtRemoval /\ op \in Removals
      /\ pc # "exit" /\ pc' \notin {"exit", "reverse.loop"}
  <2>1. pc \in AtRemoval /\ op \in Removals
    BY DEF RemovesList, AtRemoval, ModesInv, OperationFits
  <2>2. q' = q /\ pc' # "reverse.loop"
    BY <2>1 DEF QRemoveHead, ShrinkSize, Goto, Returns, memory
  <2>3. QED
    BY <2>1, <2>2, LibraryStays
<1>2. op \notin {"free", "quit"} /\ pc \notin {"reverse.loop", "ih.head", "it", "new.ret", "free"}
  BY <1>1 DEF AtRemoval, Removals
<1>3. CASE pc = "remove.head" /\ Shortens
  <2>1. q # NULL
    BY <1>3 DEF HeapInv, QueueThere, AtRemoval
  <2>2. Contents \in Seq(Str) /\ Contents # << >> /\ Contents' = Tail(Contents)
    BY <1>1, <1>2, <1>3, <2>1, ListEffect
  <2>3. QED
    BY <1>3, <2>2 DEF ContentsMove
<1>4. CASE pc \in AtRemoval \ {"remove.head"} /\ (Keeps \/ Untouched)
  <2>1. Contents' = Contents
    <3>1. CASE Untouched
      BY <1>1, <1>2, <3>1, UntouchedSame
    <3>2. CASE Keeps /\ q # NULL
      BY <1>1, <1>2, <3>2, ListEffect
    <3>3. CASE q = NULL
      BY <1>1, <3>3, HiddenContents, HiddenNext DEF Shown
    <3>4. QED
      BY <1>4, <3>1, <3>2, <3>3
  <2>2. QED
    BY <1>2, <1>4, <2>1 DEF ContentsMove
<1>5. QED
  BY <1>3, <1>4 DEF RemovesList

LEMMA ReversalEffect ==
    ASSUME HeapInv, ModesInv, HeapInv', ModesInv', LibSame, Calm, Library,
           TurnsList, QReverse
    PROVE  ContentsMove
<1>1. /\ q' = q /\ pc \in AtReverse /\ op = "reverse" /\ pc # "exit" /\ pc' # "exit"
  <2>1. pc \in AtReverse /\ op = "reverse"
    BY DEF TurnsList, AtReverse, ModesInv, OperationFits
  <2>2. q' = q
    BY DEF QReverse, BeginReverse, TurnElement
  <2>3. QED
    BY <2>1, <2>2, LibraryStays
<1>2. op \notin {"free", "quit"} /\ pc \notin {"ih.head", "it", "remove.head", "new.ret", "free"}
  BY <1>1 DEF AtReverse
<1>3. CASE pc = "reverse.loop" /\ loc.ptr = NULL /\ Reverses
  <2>1. q # NULL
    BY <1>3 DEF HeapInv, QueueThere
  <2>2. Contents \in Seq(Str) /\ Contents' = Reverse(Contents)
    BY <1>1, <1>2, <1>3, <2>1, ListEffect
  <2>3. QED
    BY <1>3, <2>2 DEF ContentsMove
<1>4. CASE (pc = "reverse" \/ loc.ptr # NULL) /\ (Keeps \/ (Untouched /\ pc # "reverse.loop" /\ pc' = "cancel"))
  <2>1. Contents' = Contents
    <3>1. CASE Untouched /\ pc # "reverse.loop" /\ pc' = "cancel"
      BY <1>1, <1>2, <3>1, UntouchedSame
    <3>2. CASE Keeps /\ q # NULL
      BY <1>1, <1>2, <3>2, ListEffect
    <3>3. CASE q = NULL
      BY <1>1, <3>3, HiddenContents, HiddenNext DEF Shown
    <3>4. QED
      BY <1>4, <3>1, <3>2, <3>3
  <2>2. QED
    BY <1>2, <1>4, <2>1 DEF ContentsMove
<1>5. QED
  BY <1>3, <1>4 DEF TurnsList

LEMMA FreeingEffect ==
    ASSUME HeapInv, ModesInv, LibSame, Calm, Library, QFree
    PROVE  ContentsMove
<1>1. pc \in AtFree /\ op \in {"free", "quit"} /\ op' = op /\ q' = q
      /\ pc' \in (AtFree \ {"free"}) \cup {"cancel"}
  <2>1. pc \in AtFree /\ op \in {"free", "quit"} /\ op' = op
    BY DEF QFree, AtFree, ModesInv, OperationFits, LibSame
  <2>2. q' = q /\ pc' \in (AtFree \ {"free"}) \cup {"cancel"}
    BY <2>1 DEF QFree, Goto, AtFree, memory
  <2>3. QED
    BY <2>1, <2>2
<1>2. Contents' = NoStr
  BY <1>1, HiddenNext DEF Shown, AtFree
<1>3. CASE pc # "free"
  <2>1. Contents = NoStr
    BY <1>1, <1>3, HiddenContents DEF Shown, AtFree
  <2>2. QED
    BY <1>1, <1>2, <1>3, <2>1 DEF ContentsMove, AtFree
<1>4. CASE pc = "free"
  <2>1. Contents \in Seq(Str) \cup {NoStr}
    BY <1>4, StringsShown, HiddenContents
  <2>2. QED
    BY <1>2, <1>4, <2>1 DEF ContentsMove
<1>5. QED
  BY <1>3, <1>4

LEMMA NewEffect ==
    ASSUME HeapInv, ModesInv, HeapInv', ModesInv', LibSame, Calm, QNew
    PROVE  ContentsMove
<1>1. pc \in AtNew /\ op = "new" /\ op' = op /\ alarms' = alarms
  BY DEF QNew, AtNew, ModesInv, OperationFits, LibSame
<1>2. q = NULL
  BY <1>1 DEF HeapInv, QueueThere, AtNew
<1>3. Contents = NoStr
  BY <1>2, HiddenContents DEF Shown
<1>4. CASE pc = "new"
  <2>1. q' = q
    BY <1>4 DEF QNew, memory
  <2>2. Contents' = NoStr
    BY <1>2, <2>1, HiddenNext DEF Shown
  <2>3. QED
    BY <1>3, <1>4, <2>2 DEF ContentsMove
<1>5. CASE pc = "new.ret"
  <2>1. q' = loc.ptr /\ pc' = "cancel"
    BY <1>1, <1>5 DEF QNew, Goto, Returns
  <2>2. loc.ptr # NULL
    BY <1>5 DEF HeapInv, QueueThere, Block, NULL
  <2>3. Shown'
    BY <1>1, <2>1, <2>2 DEF Shown, Calm
  <2>4. Contents' = << >>
    BY <1>1, <2>1, <2>3, NewEmptyNext DEF NewIsEmpty
  <2>5. QED
    BY <1>3, <1>5, <2>4 DEF ContentsMove
<1>6. QED
  BY <1>1, <1>4, <1>5 DEF AtNew

LEMMA LibraryEffect ==
    ASSUME HeapInv, ModesInv, HeapInv', ModesInv', Calm, ~BadPointer, Library
    PROVE  ContentsMove
<1>1. LibSame
  BY LibraryLeaves
<1>2. CASE NewElement \/ QInsertHead \/ QInsertTail
  <2>1. InsertsList
    BY <1>1, <1>2, InsertionStep
  <2>2. QED
    BY <1>1, <1>2, <2>1, InsertionEffect
<1>3. CASE QRemoveHead
  <2>1. RemovesList
    BY <1>1, <1>3, RemovalStep
  <2>2. QED
    BY <1>1, <1>3, <2>1, RemovalEffect
<1>4. CASE QSize
  <2>1. Untouched /\ pc = "size" /\ pc' = "check" /\ op = "size"
    BY <1>4 DEF QSize, Untouched, Goto, memory, ModesInv, OperationFits
  <2>2. Contents' = Contents
    BY <1>1, <2>1, UntouchedSame
  <2>3. QED
    BY <2>1, <2>2 DEF ContentsMove
<1>5. CASE QReverse
  <2>1. TurnsList
    BY <1>1, <1>5, ReversalStep
  <2>2. QED
    BY <1>1, <1>5, <2>1, ReversalEffect
<1>6. CASE QFree
  BY <1>1, <1>6, FreeingEffect
<1>7. CASE QNew
  BY <1>1, <1>7, NewEffect
<1>8. QED
  BY <1>2, <1>3, <1>4, <1>5, <1>6, <1>7 DEF Library

-----------------------------------------------------------------------------
(* What the other statements do to the contents.                             *)

\* They read the heap only, and hide or show no list.
LEMMA Reading ==
    ASSUME heap' = heap, q' = q, alarms' = alarms, Shown' <=> Shown,
           pc # "reverse.loop", pc' # "reverse.loop"
    PROVE  Contents' = Contents
<1>1. Calm' <=> Calm
  BY DEF Calm
<1>2. QED
  BY <1>1, SameContents

LEMMA VerdictEffect ==
    ASSUME HeapInv, ModesInv,
           ExceptionSetup \/ Loop \/ AfterInsertion \/ NextRound \/ ExceptionCancel
    PROVE  Contents' = Contents /\ alarms' = alarms
<1>1. heap' = heap /\ alarms' = alarms /\ op' = op
  BY DEF ExceptionSetup, Loop, AfterInsertion, NextRound, ExceptionCancel, memory, history,
     console
<1>2. CASE ExceptionSetup
  <2>1. pc = "setup" /\ pc' = First /\ q' = q
    BY <1>2 DEF ExceptionSetup, Goto, memory
  <2>2. pc' # "reverse.loop" /\ (op \in {"free", "quit"} => pc' = "free")
    BY <2>1 DEF First, ModesInv, OperationFits, Operations
  <2>3. QED
    BY <1>1, <2>1, <2>2, Reading DEF Shown, Calm
<1>3. CASE Loop \/ AfterInsertion \/ NextRound
  <2>1. /\ pc \in {"loop", "ret", "check"} /\ q' = q
        /\ pc' \in {"cancel", "size", "insert", "check", "loop"}
    BY <1>3 DEF Loop, AfterInsertion, NextRound, Goto, memory
  <2>2. op \notin {"free", "quit"}
    BY <2>1 DEF ModesInv, OperationFits, AtInsertion, AtRound, Insertions
  <2>3. QED
    BY <1>1, <2>1, <2>2, Reading DEF Shown, Calm
<1>4. CASE ExceptionCancel
  <2>1. /\ pc = "cancel" /\ q' = (IF op = "free" THEN NULL ELSE q)
        /\ pc' = IF op = "quit" THEN "after" ELSE "show"
    BY <1>4 DEF ExceptionCancel, Goto
  <2>2. CASE op \in {"free", "quit"}
    <3>1. ~Shown /\ ~Shown'
      BY <1>1, <2>1, <2>2 DEF Shown
    <3>2. QED
      BY <1>1, <3>1, HiddenContents, HiddenNext
  <2>3. CASE op \notin {"free", "quit"}
    BY <1>1, <2>1, <2>3, Reading DEF Shown, Calm
  <2>4. QED
    BY <2>2, <2>3
<1>5. QED
  BY <1>1, <1>2, <1>3, <1>4

LEMMA ReturnEffect ==
    ASSUME HeapInv, ModesInv, BeginShow \/ ShowNext \/ EndShow \/ Return \/ Finish
    PROVE  Contents' = Contents /\ alarms' = alarms
<1>1. heap' = heap /\ q' = q /\ alarms' = alarms
  BY DEF BeginShow, ShowNext, EndShow, Return, Finish, memory, history, noted
<1>2. pc \in {"show", "show.loop", "show.cancel", "after"}
  BY DEF BeginShow, ShowNext, EndShow, Return, Finish
<1>3. pc # "reverse.loop" /\ pc' # "reverse.loop"
  <2>1. pc' \in {"show.loop", "after", "setup", "idle", "exit"}
    BY <1>2 DEF BeginShow, ShowNext, EndShow, Return, Finish, Enter, Record, Goto
  <2>2. QED
    BY <1>2, <2>1
<1>4. CASE q = NULL \/ ~Calm
  <2>1. ~Shown /\ ~Shown'
    BY <1>1, <1>4 DEF Shown, Calm
  <2>2. QED
    BY <1>1, <2>1, HiddenContents, HiddenNext
<1>5. CASE q # NULL /\ Calm /\ op = "quit"
  <2>1. pc' = "exit" /\ op' = "quit"
    <3>1. pc = "after"
      BY <1>2, <1>5 DEF HeapInv, CommandOK
    <3>2. QED
      BY <1>5, <3>1 DEF BeginShow, ShowNext, EndShow, Return, Finish, Goto, console
  <2>2. ~Shown /\ ~Shown'
    BY <1>2, <1>5, <2>1 DEF Shown
  <2>3. QED
    BY <1>1, <2>2, HiddenContents, HiddenNext
<1>6. CASE q # NULL /\ Calm /\ op # "quit"
  <2>1. op # "free"
    BY <1>2, <1>6 DEF HeapInv, QueueThere
  <2>2. op' \notin {"free", "quit"}
    BY <1>6, <2>1 DEF BeginShow, ShowNext, EndShow, Return, Finish, Enter, Record, console
  <2>3. Shown /\ Shown'
    BY <1>1, <1>6, <2>1, <2>2 DEF Shown, Calm
  <2>4. QED
    BY <1>1, <1>3, <2>3, Reading
<1>7. QED
  BY <1>4, <1>5, <1>6

LEMMA PromptEffect ==
    ASSUME HeapInv, ModesInv, NEW c, Begin(c) \/ BadCommand(c) \/ Quit \/ Leave
    PROVE  Contents' = Contents /\ alarms' = alarms
<1>1. heap' = heap /\ q' = q /\ alarms' = alarms /\ pc = "idle"
  BY DEF Begin, BadCommand, Quit, Leave, memory, history, noted
<1>2. op = "none"
  BY <1>1 DEF HeapInv, CommandOK
<1>3. /\ pc' \in {"setup", "show", "idle", "exit"}
      /\ op' \in {"free", "quit"} => pc' = "setup"
  BY <1>2 DEF Begin, BadCommand, Quit, Leave, Enter, Record, Goto
<1>4. Shown' <=> Shown
  BY <1>1, <1>2, <1>3 DEF Shown, Calm
<1>5. QED
  BY <1>1, <1>3, <1>4, Reading

-----------------------------------------------------------------------------
(* The refinement of ListQueue.                                              *)

\* What the two insertions are given.
LEMMA InsertedStrings ==
    ASSUME HeapInv, op \in Insertions, pc \notin {"idle", "exit"}
    PROVE  cmd.str \in Str /\ cmd \in Command
<1>1. cmd \in Command /\ cmd.op \in Insertions
  BY DEF HeapInv, CommandOK, Insertions
<1>2. \A c \in Command : c.op \in {"ih", "it"} => c.str \in Str
  BY DEF Command
<1>3. QED
  BY <1>1, <1>2 DEF Insertions

LEMMA NoStrApart == NoStr \notin Seq(Str) /\ << >> \in Seq(Str) /\ NoStr # << >>
<1>1. << >> \in Seq(Str)
  OBVIOUS
<1>2. QED
  BY <1>1, TesterAssumption

\* Every statement of queue.c is an operation of the list, or none.
LEMMA OperationStep ==
    ASSUME HeapInv, ModesInv, HeapInv', ModesInv', Calm, ~BadPointer, Library
    PROVE  [Abstract!Next]_(Abstract!lqvars)
<1>1. ContentsMove
  BY LibraryEffect
<1>2. (~Calm)' = ~Calm /\ ~(~Calm) /\ (~Calm)' = FALSE
  BY LibraryLeaves DEF LibSame, Calm
<1>3. SUFFICES Contents' = Contents \/ Abstract!Operation
  BY <1>2 DEF Abstract!Next, Abstract!lqvars
<1>4. CASE pc = "ih.head"
  <2>1. cmd.str \in Str
    BY <1>4, InsertedStrings DEF ModesInv, OperationFits, Insertions
  <2>2. Contents # NoStr /\ Contents' = <<cmd.str>> \o Contents
    BY <1>1, <1>4, NoStrApart DEF ContentsMove
  <2>3. QED
    BY <2>1, <2>2 DEF Abstract!Operation, Abstract!InsertHead
<1>5. CASE pc = "it"
  <2>1. cmd.str \in Str
    BY <1>5, InsertedStrings DEF ModesInv, OperationFits, Insertions
  <2>2. Contents # NoStr /\ Contents' = Append(Contents, cmd.str)
    BY <1>1, <1>5, NoStrApart DEF ContentsMove
  <2>3. QED
    BY <2>1, <2>2 DEF Abstract!Operation, Abstract!InsertTail
<1>6. CASE pc = "remove.head"
  <2>1. Contents \notin {NoStr, << >>} /\ Contents' = Tail(Contents)
    BY <1>1, <1>6, NoStrApart DEF ContentsMove
  <2>2. QED
    BY <2>1 DEF Abstract!Operation, Abstract!RemoveHead
<1>7. CASE pc = "reverse.loop" /\ loc.ptr = NULL
  <2>1. Contents # NoStr /\ Contents' = Reverse(Contents)
    BY <1>1, <1>7, NoStrApart DEF ContentsMove
  <2>2. QED
    BY <2>1 DEF Abstract!Operation, Abstract!ReverseAll, Abstract!Reverse, Reverse
<1>8. CASE pc = "new.ret"
  BY <1>1, <1>8 DEF ContentsMove, Abstract!Operation, Abstract!Create
<1>9. CASE pc = "free"
  BY <1>1, <1>9 DEF ContentsMove, Abstract!Operation, Abstract!Destroy
<1>10. QED
  BY <1>1, <1>4, <1>5, <1>6, <1>7, <1>8, <1>9 DEF ContentsMove

\* An exception interrupts what it can, once.
LEMMA InterruptStep ==
    ASSUME HeapInv, ModesInv, Calm, Segv \/ Alarm
    PROVE  [Abstract!Next]_(Abstract!lqvars)
<1>1. ~Segv
  BY GoodPointers DEF Segv, Good
<1>2. alarms' = alarms + 1 /\ alarms = 0
  BY <1>1 DEF Alarm, Calm
<1>3. ~Calm'
  BY <1>2 DEF Calm
<1>4. Contents' = NoStr
  BY <1>3, HiddenNext DEF Shown
<1>5. (~Calm)' = TRUE /\ (~Calm) = FALSE
  BY <1>3
<1>6. QED
  BY <1>4, <1>5 DEF Abstract!Next, Abstract!Interrupted

LEMMA AlarmsGrow ==
    ASSUME HeapInv, [Next \/ Ended]_vars
    PROVE  ~Calm => ~Calm'
<1>1. alarms \in Nat
  BY TesterAssumption DEF HeapInv, Typed
<1>2. alarms' \in {alarms, alarms + 1}
  BY DEF Next, Ended, vars, history, noted, Begin, BadCommand, Quit, Leave, Step, Statement,
     Library, ExceptionSetup, Loop, AfterInsertion, NextRound, ExceptionCancel, BeginShow,
     ShowNext, EndShow, Return, Finish, Segv, Alarm
<1>3. QED
  BY <1>1, <1>2 DEF Calm

LEMMA StutterEffect ==
    ASSUME vars' = vars
    PROVE  Contents' = Contents /\ (Calm' <=> Calm)
<1>1. heap' = heap /\ q' = q /\ pc' = pc /\ op' = op /\ loc' = loc /\ alarms' = alarms
  BY DEF vars, memory, console, history
<1>2. QED
  BY <1>1 DEF Contents, Strings, Chain, IsElement, Calm

LEMMA RefinementStep ==
    ASSUME HeapInv, ModesInv, HeapInv', ModesInv', [Next \/ Ended]_vars
    PROVE  [Abstract!Next]_(Abstract!lqvars)
<1>1. CASE ~Calm
  <2>1. ~Calm'
    BY <1>1, AlarmsGrow
  <2>2. Contents = NoStr /\ Contents' = NoStr
    BY <1>1, <2>1, HiddenContents, HiddenNext DEF Shown
  <2>3. (~Calm)' = TRUE /\ (~Calm) = TRUE
    BY <1>1, <2>1
  <2>4. QED
    BY <2>2, <2>3 DEF Abstract!lqvars
<1>2. CASE Contents' = Contents /\ alarms' = alarms
  <2>1. (~Calm)' = (~Calm)
    BY <1>2 DEF Calm
  <2>2. QED
    BY <1>2, <2>1 DEF Abstract!lqvars
<1>3. CASE vars' = vars \/ Ended
  <2>1. Contents' = Contents /\ alarms' = alarms
    BY <1>3, StutterEffect DEF Ended, vars, history
  <2>2. QED
    BY <1>2, <2>1
<1>4. ASSUME NEW c \in Command, Begin(c) \/ BadCommand(c)
      PROVE  [Abstract!Next]_(Abstract!lqvars)
  BY <1>2, <1>4, PromptEffect
<1>5. CASE Quit \/ Leave
  <2>1. PICK c : c = NoCommand
    OBVIOUS
  <2>2. Begin(c) \/ BadCommand(c) \/ Quit \/ Leave
    BY <1>5
  <2>3. Contents' = Contents /\ alarms' = alarms
    BY <2>2, PromptEffect
  <2>4. QED
    BY <1>2, <2>3
<1>6. CASE Calm /\ Statement
  <2>1. ~BadPointer
    BY <1>6 DEF Statement
  <2>2. CASE Library
    BY <1>6, <2>1, <2>2, OperationStep
  <2>3. CASE ExceptionSetup \/ Loop \/ AfterInsertion \/ NextRound \/ ExceptionCancel
    BY <1>2, <2>3, VerdictEffect
  <2>4. CASE BeginShow \/ ShowNext \/ EndShow \/ Return \/ Finish
    BY <1>2, <2>4, ReturnEffect
  <2>5. QED
    BY <1>6, <2>2, <2>3, <2>4 DEF Statement
<1>7. CASE Calm /\ (Segv \/ Alarm)
  BY <1>7, InterruptStep
<1>8. QED
  BY <1>1, <1>3, <1>4, <1>5, <1>6, <1>7 DEF Next, Step

LEMMA RefinementInitially == Init => Abstract!Init
<1> SUFFICES ASSUME Init PROVE Abstract!Init
  OBVIOUS
<1>1. q = NULL /\ alarms = 0
  BY DEF Init
<1>2. Contents = NoStr
  BY <1>1, HiddenContents DEF Shown
<1>3. (~Calm) = FALSE
  BY <1>1 DEF Calm
<1>4. QED
  BY <1>2, <1>3 DEF Abstract!Init

\* Until an alarm interrupts a command, the blocks and pointers on the heap are
\* at every statement a list of strings, and what the commands do to it are the
\* operations of a list: nothing is lost, doubled or out of order, also halfway
\* through a reversal.
THEOREM QTestImplementsListQueue == Spec => ImplementsListQueue
<1>1. Spec => []HeapInv /\ []ModesInv
  BY HeapInvariance, ModesInvariance, PTL
<1>2. HeapInv /\ ModesInv /\ HeapInv' /\ ModesInv' /\ [Next \/ Ended]_vars
          => [Abstract!Next]_(Abstract!lqvars)
  BY RefinementStep
<1>3. QED
  BY <1>1, <1>2, RefinementInitially, PTL DEF Spec, ImplementsListQueue, Abstract!Spec

-----------------------------------------------------------------------------
(***************************************************************************)
(* What a command has done to the list that it found.                      *)
(***************************************************************************)
Was == IF before = NoStr THEN << >> ELSE before

Copies(k) == [i \in 1 .. k |-> cmd.str]

\* The insertions, of which qcnt does not count the one that is under way.
Inserted == IF pc \in {"ih.size", "it.next", "it.tail", "it.size"} \/ (pc = "ret" /\ loc.rval)
            THEN qcnt + 1 ELSE qcnt

InsertedTo(k) == Contents = IF op = "ih" THEN Copies(k) \o Was ELSE Was \o Copies(k)

InsertDone ==
    op \in Insertions /\ q # NULL /\ pc \in AtInsertion \cup AtRound \cup {"setup", "cancel"} =>
        \E k \in Nat : Len(Was) + k = Inserted /\ InsertedTo(k)

FirstTaken == before \in Seq(Str) /\ before # << >> /\ loc.taken = Head(before)

Unlinked == pc \in {"remove.value", "remove.element", "remove.size"}
                \/ (pc = "cancel" /\ loc.rval)

RemoveDone ==
    op \in Removals =>
        /\ pc \in {"setup", "remove", "remove.head"} => Contents = before
        /\ pc = "remove.head" => FirstTaken
        /\ Unlinked => FirstTaken /\ Contents = Tail(before)
        /\ pc = "cancel" /\ ~loc.rval => Was = << >> /\ Contents = before

SizeDone ==
    op = "size" /\ pc \in {"setup", "loop", "size", "check", "cancel"} =>
        Contents = before /\ qcnt = Len(Was)

ReverseDone ==
    op = "reverse" =>
        /\ pc \in {"setup", "reverse", "reverse.loop"} => Contents = before
        /\ pc = "cancel" /\ q # NULL => before \in Seq(Str) /\ Contents = Reverse(before)

NewDone == op = "new" /\ pc = "cancel" => (loc.rval <=> q # NULL)

EffectInv ==
    Calm => /\ before \in Seq(Str) \cup {NoStr}
            /\ InsertDone /\ RemoveDone /\ SizeDone /\ ReverseDone /\ NewDone

-----------------------------------------------------------------------------
(* Sequences of copies.                                                      *)

LEMMA CopiesSeq ==
    ASSUME NEW k \in Nat, cmd.str \in Str
    PROVE  /\ Copies(k) \in Seq(Str) /\ Len(Copies(k)) = k
           /\ \A i \in 1 .. k : Copies(k)[i] = cmd.str
<1>1. Copies(k) \in [1 .. k -> Str]
  BY DEF Copies
<1>2. QED
  BY <1>1 DEF Copies

LEMMA JoinedParts ==
    ASSUME NEW S, NEW s \in Seq(S), NEW t \in Seq(S), NEW m, NEW n, Len(s) = m, Len(t) = n
    PROVE  /\ s \o t \in Seq(S) /\ Len(s \o t) = m + n
           /\ \A i \in 1 .. m : (s \o t)[i] = s[i]
           /\ \A i \in 1 .. n : (s \o t)[m + i] = t[i]
OBVIOUS

\* No copies yet.
LEMMA NoCopies ==
    ASSUME NEW w \in Seq(Str)
    PROVE  Copies(0) \o w = w /\ w \o Copies(0) = w
<1>1. 1 .. 0 = {}
  OBVIOUS
<1>2. Copies(0) = << >>
  BY <1>1 DEF Copies
<1>3. QED
  BY <1>2

\* One more in front.
LEMMA OneMoreFirst ==
    ASSUME NEW k \in Nat, NEW w \in Seq(Str), cmd.str \in Str
    PROVE  <<cmd.str>> \o (Copies(k) \o w) = Copies(k + 1) \o w
<1> DEFINE a == Copies(k)
           b == Copies(k + 1)
           u == a \o w
           l == <<cmd.str>> \o u
           r == b \o w
<1>1. /\ a \in Seq(Str) /\ Len(a) = k /\ \A i \in 1 .. k : a[i] = cmd.str
      /\ b \in Seq(Str) /\ Len(b) = k + 1 /\ \A i \in 1 .. k + 1 : b[i] = cmd.str
      /\ Len(w) \in Nat
  BY CopiesSeq
<1> HIDE DEF a, b
<1>2. /\ u \in Seq(Str) /\ Len(u) = k + Len(w)
      /\ \A i \in 1 .. k : u[i] = a[i]
      /\ \A i \in 1 .. Len(w) : u[k + i] = w[i]
  BY <1>1, JoinedParts
<1>3. /\ r \in Seq(Str) /\ Len(r) = k + 1 + Len(w)
      /\ \A i \in 1 .. k + 1 : r[i] = b[i]
      /\ \A i \in 1 .. Len(w) : r[k + 1 + i] = w[i]
  BY <1>1, JoinedParts
<1> HIDE DEF u, r
<1>4. /\ l \in Seq(Str) /\ Len(l) = Len(u) + 1 /\ l[1] = cmd.str
      /\ \A i \in 2 .. Len(u) + 1 : l[i] = u[i - 1]
  BY <1>2, Prepended
<1> HIDE DEF l
<1>5. Len(l) = Len(r)
  BY <1>1, <1>2, <1>3, <1>4
<1>6. ASSUME NEW i \in 1 .. Len(l)
      PROVE  l[i] = r[i]
  <2>1. CASE i = 1
    <3>1. 1 \in 1 .. k + 1
      OBVIOUS
    <3>2. QED
      BY <2>1, <3>1, <1>1, <1>3, <1>4
  <2>2. CASE i # 1 /\ i <= k + 1
    <3>1. i \in 1 .. k + 1 /\ i \in 2 .. Len(u) + 1 /\ i - 1 \in 1 .. k
      BY <2>2, <1>1, <1>2, <1>4
    <3>2. l[i] = a[i - 1] /\ r[i] = b[i]
      BY <3>1, <1>2, <1>3, <1>4
    <3>3. QED
      BY <3>1, <3>2, <1>1
  <2>3. CASE i > k + 1
    <3> DEFINE j == i - (k + 1)
    <3>1. j \in 1 .. Len(w) /\ i \in 2 .. Len(u) + 1 /\ i - 1 = k + j /\ i = k + 1 + j
      BY <2>3, <1>1, <1>2, <1>4
    <3> HIDE DEF j
    <3>2. l[i] = u[k + j]
      BY <3>1, <1>4
    <3>3. u[k + j] = w[j] /\ r[k + 1 + j] = w[j]
      BY <3>1, <1>2, <1>3
    <3>4. QED
      BY <3>1, <3>2, <3>3
  <2>4. QED
    BY <2>1, <2>2, <2>3, <1>1, <1>2, <1>4
<1>7. l = r
  BY <1>3, <1>4, <1>5, <1>6, SeqEqual
<1>8. QED
  BY <1>7 DEF l, r, u, a, b

\* One more at the end.
LEMMA OneMoreLast ==
    ASSUME NEW k \in Nat, NEW w \in Seq(Str), cmd.str \in Str
    PROVE  Append(w \o Copies(k), cmd.str) = w \o Copies(k + 1)
<1> DEFINE a == Copies(k)
           b == Copies(k + 1)
           u == w \o a
           l == Append(u, cmd.str)
           r == w \o b
           m == Len(w)
<1>1. /\ a \in Seq(Str) /\ Len(a) = k /\ \A i \in 1 .. k : a[i] = cmd.str
      /\ b \in Seq(Str) /\ Len(b) = k + 1 /\ \A i \in 1 .. k + 1 : b[i] = cmd.str
      /\ m \in Nat
  BY CopiesSeq
<1> HIDE DEF a, b
<1>2. /\ u \in Seq(Str) /\ Len(u) = m + k
      /\ \A i \in 1 .. m : u[i] = w[i]
      /\ \A i \in 1 .. k : u[m + i] = a[i]
  BY <1>1, JoinedParts
<1>3. /\ r \in Seq(Str) /\ Len(r) = m + (k + 1)
      /\ \A i \in 1 .. m : r[i] = w[i]
      /\ \A i \in 1 .. k + 1 : r[m + i] = b[i]
  BY <1>1, JoinedParts, SMTT(40)
<1> HIDE DEF u, r
<1>4. /\ l \in Seq(Str) /\ Len(l) = Len(u) + 1 /\ l[Len(u) + 1] = cmd.str
      /\ \A i \in 1 .. Len(u) : l[i] = u[i]
  BY <1>2, Appended
<1> HIDE DEF l, m
<1>5. Len(l) = Len(r)
  BY <1>1, <1>2, <1>3, <1>4
<1>6. ASSUME NEW i \in 1 .. Len(l)
      PROVE  l[i] = r[i]
  <2>1. CASE i <= m
    <3>1. i \in 1 .. m /\ i \in 1 .. Len(u)
      BY <2>1, <1>1, <1>2
    <3>2. QED
      BY <3>1, <1>2, <1>3, <1>4
  <2>2. CASE i > m
    <3> DEFINE j == i - m
    <3>1. j \in 1 .. k + 1 /\ i = m + j
      BY <2>2, <1>1, <1>2, <1>4
    <3> HIDE DEF j
    <3>2. r[i] = cmd.str
      BY <3>1, <1>1, <1>3
    <3>3. CASE j = k + 1
      <4>1. i = Len(u) + 1
        BY <3>1, <3>3, <1>1, <1>2
      <4>2. QED
        BY <4>1, <3>2, <1>4
    <3>4. CASE j # k + 1
      <4>1. j \in 1 .. k /\ i \in 1 .. Len(u)
        BY <3>1, <3>4, <1>1, <1>2
      <4>2. l[i] = a[j]
        BY <4>1, <3>1, <1>2, <1>4
      <4>3. QED
        BY <4>1, <4>2, <3>2, <1>1
    <3>5. QED
      BY <3>3, <3>4
  <2>3. QED
    BY <2>1, <2>2, <1>1
<1>7. l = r
  BY <1>3, <1>4, <1>5, <1>6, SeqEqual
<1>8. QED
  BY <1>7 DEF l, r, u, a, b

-----------------------------------------------------------------------------
(* What the blocks say of the contents.                                      *)

\* The list of a queue that is there, where its size is right as well.
LEMMA RestingContents ==
    ASSUME HeapInv, ModesInv, Shown, pc \in {"idle", "remove", "reverse"}
    PROVE  \E ch, vl, st :
              /\ Resting(ch, vl, st, {}, Len(ch)) /\ qcnt = Len(ch)
              /\ Lists(ch, vl, st) /\ Contents = st
<1>1. PICK st : IsList(st)
  BY SomethingShown
<1>2. Contents = st
  BY <1>1, ListShown
<1>3. PICK ch, vl : ShapeOf(ch, vl, st)
  BY <1>1 DEF IsList
<1>4. op # "quit"
  BY DEF HeapInv, CommandOK, ModesInv, OperationFits, AtRemoval, AtReverse, Removals
<1>5. Resting(ch, vl, st, {}, Len(ch)) /\ qcnt = Len(ch)
  BY <1>3, <1>4 DEF ShapeOf, Steady
<1>6. Lists(ch, vl, st)
  BY <1>5 DEF Resting, Held
<1>7. QED
  BY <1>2, <1>5, <1>6

LEMMA CountAtPrompt ==
    ASSUME HeapInv, ModesInv, Calm, pc = "idle"
    PROVE  IF q = NULL THEN qcnt = 0 /\ Contents = NoStr
           ELSE Contents \in Seq(Str) /\ qcnt = Len(Contents)
<1>1. CASE q = NULL
  <2>1. NoQueueShape
    BY <1>1 DEF HeapInv, Good, Shape
  <2>2. QED
    BY <1>1, <2>1, HiddenContents DEF NoQueueShape, Shown
<1>2. CASE q # NULL
  <2>1. Shown
    BY <1>2 DEF Shown
  <2>2. PICK ch, vl, st : qcnt = Len(ch) /\ Lists(ch, vl, st) /\ Contents = st
    BY <2>1, RestingContents
  <2>3. QED
    BY <1>2, <2>2 DEF Lists
<1>3. QED
  BY <1>1, <1>2

\* The string that q_remove_head copies is the first one.
LEMMA TakenFirst ==
    ASSUME HeapInv, ModesInv, Calm, pc = "remove", q # NULL, heap[q].head # NULL
    PROVE  /\ Contents \in Seq(Str) /\ Contents # << >>
           /\ heap[heap[heap[q].head].value].str = Head(Contents)
<1>1. Shown
  BY DEF Shown, ModesInv, OperationFits, AtRemoval, Removals
<1>2. PICK ch, vl, st : /\ Resting(ch, vl, st, {}, Len(ch))
                        /\ Lists(ch, vl, st) /\ Contents = st
  BY <1>1, RestingContents
<1>3. heap[q].head = FirstOf(ch, NULL) /\ Linked(heap, ch, vl, st, NULL)
  BY <1>2, QueueFields DEF Resting, Held
<1>4. ch # << >> /\ heap[q].head = ch[1]
  BY <1>3 DEF FirstOf
<1>5. 1 \in 1 .. Len(ch) /\ st \in Seq(Str) /\ st # << >>
  BY <1>2, <1>4, ListLength DEF Lists
<1>6. heap[ch[1]].value = vl[1] /\ heap[vl[1]].str = st[1]
  BY <1>3, <1>5, QueueFields DEF Linked
<1>7. Head(st) = st[1]
  BY <1>5
<1>8. QED
  BY <1>2, <1>4, <1>5, <1>6, <1>7

LEMMA NothingFirst ==
    ASSUME HeapInv, ModesInv, Calm, pc = "remove", q # NULL, heap[q].head = NULL
    PROVE  Contents = << >>
<1>1. Shown
  BY DEF Shown, ModesInv, OperationFits, AtRemoval, Removals
<1>2. PICK ch, vl, st : /\ Resting(ch, vl, st, {}, Len(ch))
                        /\ Lists(ch, vl, st) /\ Contents = st
  BY <1>1, RestingContents
<1>3. heap[q].head = FirstOf(ch, NULL)
  BY <1>2, QueueFields DEF Resting
<1>4. ch = << >>
  <2>1. CASE ch # << >>
    <3>1. ch[1] \in Block
      BY <1>2, <2>1, ListLength DEF Lists
    <3>2. QED
      BY <1>3, <2>1, <3>1 DEF FirstOf, Block, NULL
  <2>2. QED
    BY <2>1
<1>5. st \in Seq(Str) /\ Len(st) = 0
  BY <1>2, <1>4 DEF Lists
<1>6. QED
  BY <1>2, <1>5

\* A queue of at most one element need not be turned around.
LEMMA ShortReverse ==
    ASSUME HeapInv, ModesInv, Calm, pc = "reverse", q # NULL, ~(heap[q].size > 1)
    PROVE  Contents \in Seq(Str) /\ Reverse(Contents) = Contents
<1>1. Shown
  BY DEF Shown, ModesInv, OperationFits, AtReverse
<1>2. PICK ch, vl, st : /\ Resting(ch, vl, st, {}, Len(ch))
                        /\ Lists(ch, vl, st) /\ Contents = st
  BY <1>1, RestingContents
<1>3. heap[q].size = Len(ch)
  BY <1>2, QueueFields DEF Resting
<1>4. st \in Seq(Str) /\ Len(st) \in {0, 1}
  BY <1>2, <1>3, ListLength DEF Lists
<1>5. /\ Reverse(st) \in Seq(Str) /\ Len(Reverse(st)) = Len(st)
      /\ \A i \in 1 .. Len(st) : Reverse(st)[i] = st[Len(st) - i + 1]
  BY <1>4, Reversed
<1>6. ASSUME NEW i \in 1 .. Len(st)
      PROVE  Len(st) - i + 1 = i
  <2>1. Len(st) = 1
    <3>1. CASE Len(st) = 0
      BY <3>1
    <3>2. QED
      BY <1>4, <3>1
  <2>2. i = 1
    BY <2>1
  <2>3. QED
    BY <2>1, <2>2
<1>7. Reverse(st) = st
  BY <1>4, <1>5, <1>6, SeqEqual
<1>8. QED
  BY <1>2, <1>4, <1>7

-----------------------------------------------------------------------------
(* The statements of queue.c, one command at a time.                         *)

\* Which function it is that goes on.
LEMMA LibraryKinds ==
    ASSUME ModesInv, Library
    PROVE  /\ op \in Insertions => pc \in AtInsertion \ {"ret"}
                                   /\ (NewElement \/ QInsertHead \/ QInsertTail)
           /\ op \in Removals => pc \in AtRemoval /\ QRemoveHead
           /\ op = "size" => QSize
           /\ op = "reverse" => pc \in AtReverse /\ QReverse
           /\ op = "new" => pc \in AtNew /\ QNew
<1>1. /\ NewElement \/ QInsertHead \/ QInsertTail => pc \in AtInsertion \ {"ret"}
      /\ QRemoveHead => pc \in AtRemoval
      /\ QSize => pc = "size"
      /\ QReverse => pc \in AtReverse
      /\ QFree => pc \in AtFree
      /\ QNew => pc \in AtNew
  BY DEF NewElement, FreeNewElement, QInsertHead, SetFirstTail, QInsertTail, SetTail,
     QRemoveHead, ShrinkSize, QSize, QReverse, BeginReverse, TurnElement, QFree, QNew,
     AtInsertion, AtRemoval, AtReverse, AtFree, AtNew
<1>2. /\ pc \in AtInsertion => op \in Insertions
      /\ pc \in AtRemoval => op \in Removals
      /\ pc = "size" => op = "size"
      /\ pc \in AtReverse => op = "reverse"
      /\ pc \in AtFree => op \in {"free", "quit"}
      /\ pc \in AtNew => op = "new"
  BY DEF ModesInv, OperationFits
<1>3. QED
  BY <1>1, <1>2 DEF Library, Insertions, Removals

\* An insertion's statements other than those that link the element.
LEMMA InsertedSame ==
    ASSUME op \in Insertions, LibSame, loc \in LocalTypes, pc \notin {"ih.head", "it"},
           NewElement \/ QInsertHead \/ QInsertTail
    PROVE  Inserted' = Inserted
<1>1. \A b \in BOOLEAN : Returns(b) => pc' = "ret" /\ loc'.rval = b
  BY LocalFields DEF Returns, Goto, Insertions
<1>2. CASE NewElement
  <2>1. pc \in {"insert", "insert.value"}
        /\ (pc' \in {"insert.value", "ih", "it"} \/ (pc' = "ret" /\ loc'.rval = FALSE))
    BY <1>1, <1>2 DEF NewElement, FreeNewElement, Goto, Insertions
  <2>2. QED
    BY <2>1 DEF Inserted, LibSame
<1>3. CASE QInsertHead \/ QInsertTail
  <2>1. \/ pc = "ih" /\ pc' = "ih.next"
        \/ pc = "ih.next" /\ pc' = "ih.head"
        \/ pc \in {"ih.size", "it.size"} /\ pc' = "ret" /\ loc'.rval = TRUE
        \/ pc = "it.next" /\ pc' = "it.tail"
        \/ pc = "it.tail" /\ pc' = "it.size"
    BY <1>1, <1>3 DEF QInsertHead, SetFirstTail, QInsertTail, SetTail, Goto
  <2>2. QED
    BY <2>1 DEF Inserted, LibSame
<1>4. QED
  BY <1>2, <1>3

LEMMA InsertLibrary ==
    ASSUME HeapInv, ModesInv, LibSame, ContentsMove, op \in Insertions,
           NewElement \/ QInsertHead \/ QInsertTail, pc \in AtInsertion \ {"ret"},
           before \in Seq(Str) \cup {NoStr}, InsertDone
    PROVE  InsertDone'
<1>1. SUFFICES ASSUME q' # NULL
               PROVE  \E k \in Nat : Len(Was') + k = Inserted' /\ InsertedTo(k)'
  BY DEF InsertDone
<1>2. q' = q
  BY DEF NewElement, FreeNewElement, QInsertHead, SetFirstTail, QInsertTail, SetTail, memory
<1>3. PICK k \in Nat : Len(Was) + k = Inserted /\ InsertedTo(k)
  BY <1>1, <1>2 DEF InsertDone
<1>4. Was \in Seq(Str) /\ Was' = Was /\ Len(Was) \in Nat /\ cmd.str \in Str /\ op' = op
  <2>1. before' = before /\ op' = op
    BY DEF LibSame
  <2>2. Was \in Seq(Str)
    BY DEF Was
  <2>3. cmd.str \in Str
    BY InsertedStrings DEF AtInsertion
  <2>4. QED
    BY <2>1, <2>2, <2>3 DEF Was
<1>5. \A j : Copies(j)' = Copies(j)
  BY DEF LibSame, Copies
<1>6. CASE pc \notin {"ih.head", "it"}
  <2>1. Inserted' = Inserted
    BY <1>6, InsertedSame DEF HeapInv, Typed
  <2>2. Contents' = Contents
    BY <1>6 DEF ContentsMove, AtInsertion
  <2>3. InsertedTo(k)'
    BY <1>3, <1>4, <1>5, <2>2 DEF InsertedTo
  <2>4. QED
    BY <1>3, <1>4, <2>1, <2>3
<1>7. CASE pc = "ih.head"
  <2>1. op = "ih" /\ pc' = "ih.size" /\ qcnt' = qcnt
    BY <1>7 DEF NewElement, FreeNewElement, QInsertHead, SetFirstTail, QInsertTail, SetTail,
       Goto, LibSame, ModesInv, OperationFits
  <2>2. Inserted = qcnt /\ Inserted' = qcnt + 1 /\ qcnt \in Nat
    BY <1>7, <2>1 DEF Inserted, HeapInv, Typed
  <2>3. Contents' = <<cmd.str>> \o (Copies(k) \o Was)
    BY <1>3, <1>7, <2>1 DEF ContentsMove, InsertedTo
  <2>4. Contents' = Copies(k + 1) \o Was
    BY <1>4, <2>3, OneMoreFirst
  <2>5. InsertedTo(k + 1)'
    BY <1>4, <1>5, <2>1, <2>4 DEF InsertedTo
  <2>6. Len(Was') + (k + 1) = Inserted' /\ k + 1 \in Nat
    BY <1>3, <1>4, <2>2
  <2>7. QED
    BY <2>5, <2>6
<1>8. CASE pc = "it"
  <2>1. op = "it" /\ pc' = "it.next" /\ qcnt' = qcnt
    BY <1>8 DEF NewElement, FreeNewElement, QInsertHead, SetFirstTail, QInsertTail, SetTail,
       Goto, LibSame, ModesInv, OperationFits
  <2>2. Inserted = qcnt /\ Inserted' = qcnt + 1 /\ qcnt \in Nat
    BY <1>8, <2>1 DEF Inserted, HeapInv, Typed
  <2>3. Contents' = Append(Was \o Copies(k), cmd.str)
    BY <1>3, <1>8, <2>1 DEF ContentsMove, InsertedTo
  <2>4. Contents' = Was \o Copies(k + 1)
    BY <1>4, <2>3, OneMoreLast
  <2>5. InsertedTo(k + 1)'
    BY <1>4, <1>5, <2>1, <2>4 DEF InsertedTo
  <2>6. Len(Was') + (k + 1) = Inserted' /\ k + 1 \in Nat
    BY <1>3, <1>4, <2>2
  <2>7. QED
    BY <2>5, <2>6
<1>9. QED
  BY <1>6, <1>7, <1>8

LEMMA RemoveLibrary ==
    ASSUME HeapInv, ModesInv, Calm, LibSame, ContentsMove, op \in Removals, QRemoveHead,
           before \in Seq(Str) \cup {NoStr}, RemoveDone
    PROVE  RemoveDone'
<1>1. op' = op /\ before' = before /\ loc \in LocalTypes
  BY DEF LibSame, HeapInv, Typed
<1>2. Contents' = Contents \/ pc = "remove.head"
  BY DEF ContentsMove, QRemoveHead, ShrinkSize
<1>3. CASE pc = "remove" /\ (q = NULL \/ heap[q].head = NULL) /\ Returns(FALSE)
  <2>1. pc' = "cancel" /\ loc'.rval = FALSE
    BY <1>1, <1>3, LocalsKept DEF Returns, Goto, Removals
  <2>2. Contents' = before
    BY <1>2, <1>3 DEF RemoveDone
  <2>3. Was = << >>
    <3>1. CASE q = NULL
      <4>1. Contents = NoStr
        BY <3>1, HiddenContents DEF Shown
      <4>2. QED
        BY <1>2, <1>3, <2>2, <4>1 DEF Was
    <3>2. CASE q # NULL
      <4>1. Contents = << >>
        BY <1>3, <3>2, NothingFirst
      <4>2. QED
        BY <1>2, <1>3, <2>2, <4>1 DEF Was
    <3>3. QED
      BY <3>1, <3>2
  <2>4. QED
    BY <1>1, <2>1, <2>2, <2>3 DEF RemoveDone, Unlinked, Was
<1>4. CASE /\ pc = "remove" /\ q # NULL /\ heap[q].head # NULL
           /\ loc' = [loc EXCEPT !.ptr = heap[q].head,
                                 !.taken = heap[heap[heap[q].head].value].str]
           /\ pc' = "remove.head"
  <2>1. Contents = before /\ Contents' = before
    BY <1>2, <1>4 DEF RemoveDone
  <2>2. loc'.taken = heap[heap[heap[q].head].value].str
    BY <1>1, <1>4, LocalsKept DEF LocalTypes
  <2>3. before \in Seq(Str) /\ before # << >> /\ loc'.taken = Head(before)
    BY <1>4, <2>1, <2>2, TakenFirst
  <2>4. QED
    BY <1>1, <1>4, <2>1, <2>3 DEF RemoveDone, Unlinked, FirstTaken
<1>5. CASE pc = "remove.head" /\ pc' = "remove.value" /\ loc' = loc
  <2>1. Contents' = Tail(Contents) /\ Contents = before /\ FirstTaken
    BY <1>5 DEF ContentsMove, RemoveDone
  <2>2. QED
    BY <1>1, <1>5, <2>1 DEF RemoveDone, Unlinked, FirstTaken
<1>6. CASE pc \in {"remove.value", "remove.element"} /\ loc' = loc
           /\ pc' \in {"remove.element", "remove.size"}
  <2>1. Contents' = Tail(before) /\ FirstTaken
    BY <1>2, <1>6 DEF RemoveDone, Unlinked
  <2>2. QED
    BY <1>1, <1>6, <2>1 DEF RemoveDone, Unlinked, FirstTaken
<1>7. CASE pc = "remove.size" /\ Returns(TRUE)
  <2>1. pc' = "cancel" /\ loc'.rval = TRUE /\ loc'.taken = loc.taken
    BY <1>1, <1>7, LocalsKept DEF Returns, Goto, Removals
  <2>2. Contents' = Tail(before) /\ FirstTaken
    BY <1>2, <1>7 DEF RemoveDone, Unlinked
  <2>3. QED
    BY <1>1, <2>1, <2>2 DEF RemoveDone, Unlinked, FirstTaken
<1>8. QED
  BY <1>3, <1>4, <1>5, <1>6, <1>7 DEF QRemoveHead, ShrinkSize, Goto

LEMMA SizeLibrary ==
    ASSUME LibSame, ContentsMove, op = "size", QSize, SizeDone
    PROVE  SizeDone'
<1>1. pc = "size" /\ qcnt' = qcnt /\ before' = before
  BY DEF QSize, LibSame
<1>2. Contents' = Contents
  BY <1>1 DEF ContentsMove
<1>3. QED
  BY <1>1, <1>2 DEF SizeDone, Was

LEMMA ReverseLibrary ==
    ASSUME HeapInv, ModesInv, Calm, LibSame, ContentsMove, op = "reverse", QReverse,
           ReverseDone
    PROVE  ReverseDone'
<1>1. op' = op /\ before' = before /\ q' = q
  BY DEF LibSame, QReverse, BeginReverse, TurnElement
<1>2. CASE pc = "reverse" /\ ~(q # NULL /\ heap[q].size > 1) /\ pc' = "cancel"
  <2>1. Contents' = before /\ Contents = before
    BY <1>2 DEF ContentsMove, ReverseDone
  <2>2. q # NULL => before \in Seq(Str) /\ Reverse(before) = before
    BY <1>2, <2>1, ShortReverse
  <2>3. QED
    BY <1>1, <1>2, <2>1, <2>2 DEF ReverseDone
<1>3. CASE /\ pc = "reverse" \/ (pc = "reverse.loop" /\ loc.ptr # NULL)
           /\ pc' = "reverse.loop"
  <2>1. Contents' = before
    BY <1>3 DEF ContentsMove, ReverseDone
  <2>2. QED
    BY <1>1, <1>3, <2>1 DEF ReverseDone
<1>4. CASE pc = "reverse.loop" /\ loc.ptr = NULL /\ pc' = "cancel"
  <2>1. before \in Seq(Str) /\ Contents' = Reverse(before)
    BY <1>4 DEF ContentsMove, ReverseDone
  <2>2. QED
    BY <1>1, <1>4, <2>1 DEF ReverseDone
<1>5. QED
  BY <1>2, <1>3, <1>4 DEF QReverse, BeginReverse, TurnElement, Goto

LEMMA NewLibrary ==
    ASSUME HeapInv, ModesInv, LibSame, op = "new", QNew
    PROVE  NewDone'
<1>1. loc \in LocalTypes
  BY DEF HeapInv, Typed
<1>2. pc \in {"new", "new.ret"}
  BY DEF QNew
<1>3. q = NULL
  BY <1>2 DEF HeapInv, QueueThere
<1>4. CASE pc = "new"
  <2>1. q' = NULL /\ (pc' = "new.ret" \/ loc'.rval = FALSE)
    BY <1>1, <1>3, <1>4, LocalsKept DEF QNew, Goto, Returns, memory
  <2>2. QED
    BY <2>1 DEF NewDone
<1>5. CASE pc = "new.ret"
  <2>1. loc.ptr # NULL
    BY <1>5 DEF HeapInv, QueueThere, Block, NULL
  <2>2. q' = loc.ptr /\ loc'.rval = TRUE
    BY <1>1, <1>5, LocalsKept DEF QNew, Goto, Returns
  <2>3. QED
    BY <2>1, <2>2 DEF NewDone
<1>6. QED
  BY <1>2, <1>4, <1>5

LEMMA LibraryDone ==
    ASSUME HeapInv, ModesInv, HeapInv', ModesInv', Calm, ~BadPointer, Library, EffectInv
    PROVE  EffectInv'
<1>1. LibSame /\ ContentsMove
  BY LibraryLeaves, LibraryEffect
<1>2. /\ before \in Seq(Str) \cup {NoStr} /\ before' = before /\ op' = op
      /\ InsertDone /\ RemoveDone /\ SizeDone /\ ReverseDone /\ NewDone
  BY <1>1 DEF EffectInv, LibSame
<1>3. InsertDone'
  <2>1. CASE op \in Insertions
    BY <1>1, <1>2, <2>1, LibraryKinds, InsertLibrary
  <2>2. QED
    BY <1>2, <2>1 DEF InsertDone
<1>4. RemoveDone'
  <2>1. CASE op \in Removals
    BY <1>1, <1>2, <2>1, LibraryKinds, RemoveLibrary
  <2>2. QED
    BY <1>2, <2>1 DEF RemoveDone
<1>5. SizeDone'
  <2>1. CASE op = "size"
    BY <1>1, <1>2, <2>1, LibraryKinds, SizeLibrary
  <2>2. QED
    BY <1>2, <2>1 DEF SizeDone
<1>6. ReverseDone'
  <2>1. CASE op = "reverse"
    BY <1>1, <1>2, <2>1, LibraryKinds, ReverseLibrary
  <2>2. QED
    BY <1>2, <2>1 DEF ReverseDone
<1>7. NewDone'
  <2>1. CASE op = "new"
    BY <1>1, <2>1, LibraryKinds, NewLibrary
  <2>2. QED
    BY <1>2, <2>1 DEF NewDone
<1>8. QED
  BY <1>2, <1>3, <1>4, <1>5, <1>6, <1>7 DEF EffectInv

-----------------------------------------------------------------------------
(* The other statements.                                                     *)

LEMMA SetupDone ==
    ASSUME HeapInv, ModesInv, Calm, ExceptionSetup, EffectInv
    PROVE  EffectInv'
<1>1. /\ pc = "setup" /\ pc' = First /\ q' = q /\ qcnt' = qcnt /\ loc' = loc
      /\ op' = op /\ cmd' = cmd /\ before' = before /\ Contents' = Contents
  <2>1. Contents' = Contents
    BY VerdictEffect
  <2>2. QED
    BY <2>1 DEF ExceptionSetup, Goto, memory, tally, console, history
<1>2. /\ before \in Seq(Str) \cup {NoStr}
      /\ InsertDone /\ RemoveDone /\ SizeDone /\ ReverseDone
  BY DEF EffectInv
<1>3. /\ op \in Insertions \cup {"size"} => pc' = "loop"
      /\ op \in Removals => pc' = "remove"
      /\ op \in {"reverse", "new"} => pc' = op
  BY <1>1 DEF First, Insertions, Removals
<1>4. InsertDone'
  <2>1. CASE op \in Insertions /\ q # NULL
    <3>1. PICK k \in Nat : Len(Was) + k = Inserted /\ InsertedTo(k)
      BY <1>1, <1>2, <2>1 DEF InsertDone
    <3>2. Inserted' = Inserted /\ Was' = Was
      BY <1>1, <1>3, <2>1 DEF Inserted, Was
    <3>3. InsertedTo(k)'
      BY <1>1, <3>1 DEF InsertedTo, Copies, Was
    <3>4. QED
      BY <3>1, <3>2, <3>3 DEF InsertDone
  <2>2. QED
    BY <1>1, <2>1 DEF InsertDone
<1>5. RemoveDone'
  BY <1>1, <1>2, <1>3 DEF RemoveDone, Unlinked
<1>6. SizeDone'
  BY <1>1, <1>2 DEF SizeDone, Was
<1>7. ReverseDone' /\ NewDone'
  BY <1>1, <1>2, <1>3 DEF ReverseDone, NewDone
<1>8. QED
  BY <1>1, <1>2, <1>4, <1>5, <1>6, <1>7 DEF EffectInv

\* The rounds of the insertions and of do_size.
LEMMA RoundDone ==
    ASSUME HeapInv, ModesInv, Calm, Loop \/ AfterInsertion \/ NextRound, EffectInv
    PROVE  EffectInv'
<1>1. /\ q' = q /\ op' = op /\ cmd' = cmd /\ before' = before /\ Contents' = Contents
      /\ loc \in LocalTypes
  <2>1. Contents' = Contents
    BY VerdictEffect
  <2>2. QED
    BY <2>1 DEF Loop, AfterInsertion, NextRound, memory, console, history, HeapInv, Typed
<1>2. /\ before \in Seq(Str) \cup {NoStr} /\ InsertDone /\ SizeDone
  BY DEF EffectInv
<1>3. pc \in {"loop", "ret", "check"} /\ pc' \in {"cancel", "size", "insert", "check", "loop"}
  BY DEF Loop, AfterInsertion, NextRound, Goto
<1>4. op \in Insertions \cup {"size"} /\ (pc = "ret" => op \in Insertions)
  BY <1>3 DEF ModesInv, OperationFits, AtInsertion, AtRound
<1>5. Inserted' = Inserted
  <2>1. CASE AfterInsertion
    BY <1>1, <2>1 DEF AfterInsertion, Inserted, Goto
  <2>2. CASE Loop \/ NextRound
    <3>1. qcnt' = qcnt /\ pc \in {"loop", "check"} /\ pc' \in {"cancel", "size", "insert", "loop"}
      BY <2>2 DEF Loop, NextRound, Goto, tally
    <3>2. QED
      BY <3>1 DEF Inserted
  <2>3. QED
    BY <2>1, <2>2
<1>6. InsertDone'
  <2>1. CASE op \in Insertions /\ q # NULL
    <3>1. PICK k \in Nat : Len(Was) + k = Inserted /\ InsertedTo(k)
      BY <1>2, <1>3, <2>1 DEF InsertDone, AtInsertion, AtRound
    <3>2. Was' = Was
      BY <1>1 DEF Was
    <3>3. InsertedTo(k)'
      BY <1>1, <3>1 DEF InsertedTo, Copies, Was
    <3>4. QED
      BY <1>5, <3>1, <3>2, <3>3 DEF InsertDone
  <2>2. QED
    BY <1>1, <2>1 DEF InsertDone
<1>7. SizeDone'
  <2>1. CASE op = "size"
    <3>1. qcnt' = qcnt /\ pc \in {"loop", "check"}
      BY <1>3, <1>4, <2>1 DEF Loop, AfterInsertion, NextRound, tally, Insertions
    <3>2. QED
      BY <1>1, <1>2, <2>1, <3>1 DEF SizeDone, Was
  <2>2. QED
    BY <1>1, <2>1 DEF SizeDone
<1>8. RemoveDone' /\ ReverseDone' /\ NewDone'
  BY <1>1, <1>4 DEF RemoveDone, ReverseDone, NewDone, Insertions, Removals
<1>9. QED
  BY <1>1, <1>2, <1>6, <1>7, <1>8 DEF EffectInv

\* After exception_cancel nothing is said any more.
LEMMA NothingSaid ==
    ASSUME before' \in Seq(Str) \cup {NoStr},
           \/ pc' \in {"show", "show.loop", "show.cancel", "after", "idle", "exit"}
           \/ op' \in {"new", "free", "quit"} /\ pc' = "setup"
    PROVE  EffectInv'
<1>1. InsertDone' /\ RemoveDone' /\ SizeDone'
  BY DEF InsertDone, RemoveDone, SizeDone, Unlinked, Insertions, Removals, AtInsertion, AtRound
<1>2. ReverseDone' /\ NewDone'
  BY DEF ReverseDone, NewDone
<1>3. QED
  BY <1>1, <1>2 DEF EffectInv

LEMMA AfterCancelDone ==
    ASSUME HeapInv, Calm, EffectInv,
           ExceptionCancel \/ BeginShow \/ ShowNext \/ EndShow \/ Return \/ Finish
    PROVE  EffectInv'
<1>1. before' \in {before, NoStr}
  BY DEF ExceptionCancel, BeginShow, ShowNext, EndShow, Return, Record, Finish, history
<1>2. \/ pc' \in {"show", "show.loop", "show.cancel", "after", "idle", "exit"}
      \/ op' \in {"new", "free", "quit"} /\ pc' = "setup"
  BY DEF ExceptionCancel, BeginShow, ShowNext, EndShow, Return, Record, Finish, Enter, Goto
<1>3. before' \in Seq(Str) \cup {NoStr}
  BY <1>1 DEF EffectInv
<1>4. QED
  BY <1>2, <1>3, NothingSaid

-----------------------------------------------------------------------------
(* A command begins.                                                         *)

LEMMA BeginDone ==
    ASSUME HeapInv, ModesInv, Calm, NEW c, Begin(c)
    PROVE  EffectInv'
<1>1. /\ pc = "idle" /\ q' = q /\ qcnt' = qcnt /\ pc' \in {"setup", "show"}
      /\ Contents' = Contents
      /\ before' = IF q = NULL \/ alarms > 0 THEN NoStr ELSE Strings(heap[q].head)
  <2>1. Contents' = Contents
    BY PromptEffect
  <2>2. QED
    BY <2>1 DEF Begin, Enter, Goto, memory, tally
<1>2. before' = Contents
  <2>1. op = "none" /\ ~(alarms > 0)
    BY <1>1 DEF HeapInv, CommandOK, Calm
  <2>2. QED
    BY <1>1, <2>1 DEF Contents
<1>3. IF q = NULL THEN qcnt = 0 /\ Contents = NoStr
      ELSE Contents \in Seq(Str) /\ qcnt = Len(Contents)
  BY <1>1, CountAtPrompt
<1>4. before' \in Seq(Str) \cup {NoStr}
  BY <1>2, <1>3
<1>5. Was' \in Seq(Str) /\ qcnt' = Len(Was') /\ (q # NULL => Was' = Contents')
  <2>1. CASE q = NULL
    <3>1. Was' = << >>
      BY <1>2, <1>3, <2>1 DEF Was
    <3>2. << >> \in Seq(Str) /\ Len(<< >>) = 0
      OBVIOUS
    <3>3. QED
      BY <1>1, <1>3, <2>1, <3>1, <3>2
  <2>2. CASE q # NULL
    <3>1. Was' = Contents
      BY <1>2, <1>3, <2>2, NoStrApart DEF Was
    <3>2. QED
      BY <1>1, <1>3, <2>2, <3>1
  <2>3. QED
    BY <2>1, <2>2
<1>6. CASE pc' = "show"
  BY <1>4, <1>6, NothingSaid
<1>7. CASE pc' = "setup"
  <2>1. InsertDone'
    <3>1. CASE q # NULL
      <4>1. Copies(0)' \o Was' = Was' /\ Was' \o Copies(0)' = Was'
        <5>1. PICK w \in Seq(Str) : w = Was'
          BY <1>5
        <5>2. Copies(0)' = << >>
          <6>1. 1 .. 0 = {}
            OBVIOUS
          <6>2. QED
            BY <6>1 DEF Copies
        <5>3. << >> \o w = w /\ w \o << >> = w
          OBVIOUS
        <5>4. QED
          BY <5>1, <5>2, <5>3
      <4>2. InsertedTo(0)'
        BY <1>5, <3>1, <4>1 DEF InsertedTo
      <4>3. Inserted' = qcnt'
        BY <1>7 DEF Inserted
      <4>4. Len(Was') + 0 = Inserted'
        BY <1>5, <4>3
      <4>5. QED
        BY <4>2, <4>4 DEF InsertDone
    <3>2. QED
      BY <1>1, <3>1 DEF InsertDone
  <2>2. RemoveDone'
    BY <1>1, <1>2, <1>7 DEF RemoveDone, Unlinked
  <2>3. SizeDone'
    BY <1>1, <1>2, <1>5 DEF SizeDone
  <2>4. ReverseDone' /\ NewDone'
    BY <1>1, <1>2, <1>7 DEF ReverseDone, NewDone
  <2>5. QED
    BY <1>4, <2>1, <2>2, <2>3, <2>4 DEF EffectInv
<1>8. QED
  BY <1>1, <1>6, <1>7

LEMMA PromptDone ==
    ASSUME HeapInv, Calm, EffectInv, NEW c, BadCommand(c) \/ Quit \/ Leave
    PROVE  EffectInv'
<1>1. before' \in {before, NoStr}
  BY DEF BadCommand, Quit, Leave, Record, history
<1>2. \/ pc' \in {"idle", "exit"}
      \/ op' = "quit" /\ pc' = "setup"
  BY DEF BadCommand, Quit, Leave, Record, Enter, Goto
<1>3. before' \in Seq(Str) \cup {NoStr}
  BY <1>1 DEF EffectInv
<1>4. QED
  BY <1>2, <1>3, NothingSaid

LEMMA EffectUnchanged ==
    ASSUME EffectInv, vars' = vars
    PROVE  EffectInv'
<1>1. /\ q' = q /\ qcnt' = qcnt /\ pc' = pc /\ op' = op /\ cmd' = cmd /\ loc' = loc
      /\ before' = before
  BY DEF vars, memory, tally, console, history
<1>2. Contents' = Contents /\ (Calm' <=> Calm)
  BY StutterEffect
<1>3. SUFFICES ASSUME Calm'
               PROVE  /\ before' \in Seq(Str) \cup {NoStr}
                      /\ InsertDone' /\ RemoveDone' /\ SizeDone' /\ ReverseDone' /\ NewDone'
  BY DEF EffectInv
<1>4. /\ before \in Seq(Str) \cup {NoStr}
      /\ InsertDone /\ RemoveDone /\ SizeDone /\ ReverseDone /\ NewDone
  BY <1>2, <1>3 DEF EffectInv
<1>5. InsertDone'
  <2>1. \A k : InsertedTo(k) => InsertedTo(k)'
    BY <1>1, <1>2 DEF InsertedTo, Copies, Was
  <2>2. Inserted' = Inserted /\ Was' = Was
    BY <1>1 DEF Inserted, Was
  <2>3. QED
    BY <1>1, <1>4, <2>1, <2>2 DEF InsertDone
<1>6. RemoveDone' /\ SizeDone'
  BY <1>1, <1>2, <1>4 DEF RemoveDone, Unlinked, FirstTaken, SizeDone, Was
<1>7. ReverseDone' /\ NewDone'
  BY <1>1, <1>2, <1>4 DEF ReverseDone, NewDone
<1>8. QED
  BY <1>1, <1>4, <1>5, <1>6, <1>7

LEMMA EffectInitially == Init => EffectInv
  BY DEF Init, EffectInv, InsertDone, RemoveDone, Unlinked, SizeDone, ReverseDone, NewDone,
     Insertions, Removals

LEMMA EffectStep ==
    ASSUME HeapInv, ModesInv, HeapInv', ModesInv', EffectInv, [Next \/ Ended]_vars
    PROVE  EffectInv'
<1>1. CASE ~Calm'
  BY <1>1 DEF EffectInv
<1>2. CASE Calm' /\ ~Calm
  BY <1>2, AlarmsGrow
<1>3. CASE Calm' /\ Calm
  <2>1. CASE vars' = vars \/ Ended
    BY <2>1, EffectUnchanged DEF Ended
  <2>2. ASSUME NEW c \in Command, Begin(c) \/ BadCommand(c)
        PROVE  EffectInv'
    BY <1>3, <2>2, BeginDone, PromptDone
  <2>3. CASE Quit \/ Leave
    <3>1. PICK c : c = NoCommand
      OBVIOUS
    <3>2. BadCommand(c) \/ Quit \/ Leave
      BY <2>3
    <3>3. QED
      BY <1>3, <3>2, PromptDone
  <2>4. CASE Statement
    <3>1. ~BadPointer
      BY <2>4 DEF Statement
    <3>2. CASE Library
      BY <1>3, <3>1, <3>2, LibraryDone
    <3>3. CASE ExceptionSetup
      BY <1>3, <3>3, SetupDone
    <3>4. CASE Loop \/ AfterInsertion \/ NextRound
      BY <1>3, <3>4, RoundDone
    <3>5. CASE ExceptionCancel \/ BeginShow \/ ShowNext \/ EndShow \/ Return \/ Finish
      BY <1>3, <3>5, AfterCancelDone
    <3>6. QED
      BY <2>4, <3>2, <3>3, <3>4, <3>5 DEF Statement
  <2>5. CASE Segv \/ Alarm
    <3>1. Alarm
      BY <1>3, <2>5, GoodPointers DEF Segv, Good
    <3>2. QED
      BY <1>3, <3>1 DEF Alarm, Calm
  <2>6. QED
    BY <2>1, <2>2, <2>3, <2>4, <2>5 DEF Next, Step
<1>4. QED
  BY <1>1, <1>2, <1>3

\* At every statement of an uninterrupted command the list is the one that the
\* command found, with the strings added or taken that it has linked or unlinked
\* so far, whether or not the tester has counted them.
THEOREM EffectInvariance == Spec => []EffectInv
<1>1. Spec => []HeapInv /\ []ModesInv
  BY HeapInvariance, ModesInvariance, PTL
<1>2. HeapInv /\ ModesInv /\ HeapInv' /\ ModesInv' /\ EffectInv /\ [Next \/ Ended]_vars
          => EffectInv'
  BY EffectStep
<1>3. QED
  BY <1>1, <1>2, EffectInitially, PTL DEF Spec

\* What CommandEffect says, with the names of the invariant.
Effects ==
    /\ op = "new" => loc.rval = (Contents = << >>)
    /\ op = "ih" /\ q # NULL => Contents = Copies(qcnt - Len(Was)) \o Was
    /\ op = "it" /\ q # NULL => Contents = Was \o Copies(qcnt - Len(Was))
    /\ op \in Removals => /\ loc.rval = (Was # << >>)
                          /\ q # NULL => Contents = IF loc.rval THEN Tail(Was) ELSE Was
                          /\ loc.rval /\ op = "rh" => loc.taken = Head(Was)
    /\ op = "size" => loc.seen = Len(Was) /\ Contents = before
    /\ op = "reverse" /\ q # NULL => Contents = Reverse(Was)

LEMMA EffectsSaid ==
    ASSUME Calm /\ pc = "cancel" => Effects
    PROVE  CommandEffect
<1>1. SUFFICES ASSUME Calm, pc = "cancel" PROVE CommandEffect
  BY DEF CommandEffect
<1>2. Effects
  BY <1>1
<1>3. CASE op = "new"
  BY <1>2, <1>3 DEF Effects, CommandEffect, Counted, Was
<1>4. CASE op = "ih"
  BY <1>2, <1>4 DEF Effects, CommandEffect, Counted, Copies, Was
<1>5. CASE op = "it"
  BY <1>2, <1>5 DEF Effects, CommandEffect, Counted, Copies, Was
<1>6. CASE op \in Removals
  <2>1. Counted /\ op \notin {"new", "ih", "it"}
    BY <1>6 DEF Counted, Removals
  <2>2. QED
    BY <1>2, <1>6, <2>1 DEF Effects, CommandEffect, Was
<1>7. CASE op = "size"
  BY <1>2, <1>7 DEF Effects, CommandEffect, Counted, Was
<1>8. CASE op = "reverse"
  BY <1>2, <1>8 DEF Effects, CommandEffect, Counted, Was
<1>9. CASE op \notin {"new", "ih", "it", "size", "reverse"} \cup Removals
  BY <1>9 DEF CommandEffect, Counted, Removals
<1>10. QED
  BY <1>3, <1>4, <1>5, <1>6, <1>7, <1>8, <1>9

LEMMA EffectsHold ==
    ASSUME HeapInv, ModesInv, VerdictInv, EffectInv, Calm, pc = "cancel"
    PROVE  Effects
<1>1. /\ before \in Seq(Str) \cup {NoStr} /\ loc.rval \in BOOLEAN /\ qcnt \in Nat
      /\ InsertDone /\ RemoveDone /\ SizeDone /\ ReverseDone /\ NewDone
  BY LocalFields DEF EffectInv, HeapInv, Typed
<1>2. before \in Seq(Str) => Was = before
  BY NoStrApart DEF Was
<1>3. Was \in Seq(Str) /\ Len(Was) \in Nat
  BY <1>1 DEF Was
<1>4. op \notin {"free", "quit"} /\ q # NULL => Shown /\ Contents \in Seq(Str)
  BY StringsShown DEF Shown
<1>5. q = NULL => Contents = NoStr
  BY HiddenContents DEF Shown
<1>6. CASE op = "new"
  <2>1. q # NULL => Contents = << >>
    BY <1>4, <1>6, NewEmpty DEF NewIsEmpty
  <2>2. loc.rval <=> Contents = << >>
    BY <1>1, <1>5, <1>6, <2>1, NoStrApart DEF NewDone
  <2>3. loc.rval = (Contents = << >>)
    BY <1>1, <2>2
  <2>4. QED
    BY <1>6, <2>3 DEF Effects, Removals
<1>7. CASE op \in Insertions
  <2>1. ASSUME q # NULL
        PROVE  Contents = IF op = "ih" THEN Copies(qcnt - Len(Was)) \o Was
                          ELSE Was \o Copies(qcnt - Len(Was))
    <3>1. PICK k \in Nat : Len(Was) + k = Inserted /\ InsertedTo(k)
      BY <1>1, <1>7, <2>1 DEF InsertDone
    <3>2. Inserted = qcnt
      BY DEF Inserted
    <3>3. k = qcnt - Len(Was)
      BY <1>1, <1>3, <3>1, <3>2
    <3>4. QED
      BY <3>1, <3>3 DEF InsertedTo
  <2>2. QED
    BY <1>7, <2>1 DEF Effects, Insertions, Removals
<1>8. CASE op \in Removals
  <2>1. CASE loc.rval
    <3>1. FirstTaken /\ Contents = Tail(before)
      BY <1>1, <1>8, <2>1 DEF RemoveDone, Unlinked
    <3>2. Was = before /\ Was # << >> /\ loc.taken = Head(Was) /\ Contents = Tail(Was)
      BY <1>2, <3>1 DEF FirstTaken
    <3>3. loc.rval = (Was # << >>)
      BY <1>1, <2>1, <3>2
    <3>4. QED
      BY <1>8, <2>1, <3>2, <3>3 DEF Effects, Removals
  <2>2. CASE ~loc.rval
    <3>1. Was = << >> /\ Contents = before
      BY <1>1, <1>8, <2>2 DEF RemoveDone
    <3>2. q # NULL => Contents = Was
      BY <1>2, <1>4, <1>8, <3>1 DEF Removals
    <3>3. loc.rval = (Was # << >>)
      BY <1>1, <2>2, <3>1
    <3>4. QED
      BY <1>8, <2>2, <3>2, <3>3 DEF Effects, Removals
  <2>3. QED
    BY <2>1, <2>2
<1>9. CASE op = "size"
  <2>1. Contents = before /\ qcnt = Len(Was)
    BY <1>1, <1>9 DEF SizeDone
  <2>2. loc.seen = qcnt
    BY <1>9 DEF VerdictInv, SizeSeen
  <2>3. QED
    BY <1>9, <2>1, <2>2 DEF Effects, Removals
<1>10. CASE op = "reverse"
  <2>1. q # NULL => Contents = Reverse(Was)
    BY <1>1, <1>2, <1>10 DEF ReverseDone
  <2>2. QED
    BY <1>10, <2>1 DEF Effects, Removals
<1>11. CASE op \notin {"new", "size", "reverse"} \cup Insertions \cup Removals
  BY <1>11 DEF Effects, Insertions, Removals
<1>12. QED
  BY <1>6, <1>7, <1>8, <1>9, <1>10, <1>11

\* When the function of an uninterrupted command returns, what it reports is what
\* it has done to the list, whichever allocations failed.
THEOREM EffectCorrect == Spec => []CommandEffect
<1>1. Spec => []HeapInv /\ []ModesInv /\ []VerdictInv /\ []EffectInv
  BY HeapInvariance, ModesInvariance, VerdictInvariance, EffectInvariance, PTL
<1>2. HeapInv /\ ModesInv /\ VerdictInv /\ EffectInv => CommandEffect
  BY EffectsSaid, EffectsHold
<1>3. QED
  BY <1>1, <1>2, PTL
=============================================================================
