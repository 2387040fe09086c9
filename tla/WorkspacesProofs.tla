--------------------------- MODULE WorkspacesProofs ---------------------------
(***************************************************************************)
(* Proofs about the calls in a workspace, for every value of Workspaces's  *)
(* constants: what a command's result says stays true, edits that do not   *)
(* overlap compose, and a model that pages through a file misses no line.  *)
(***************************************************************************)
EXTENDS Workspaces, Sums

-----------------------------------------------------------------------------
(* Commands *)

BashStates == {"start", "env", "waiting", "killed", "draining", "ended"}

CommandType ==
  /\ pc \in [Calls -> BashStates \union {"reading", "writing"}]
  /\ outcome \in [Calls -> {"none", "done", "error", "timed out", "cancelled"}]
  /\ shell \in [Calls -> BOOLEAN] /\ kids \in [Calls -> BOOLEAN] /\ strays \in [Calls -> BOOLEAN]
  /\ written \in [Calls -> Nat] /\ got \in [Calls -> Nat]

\* A shell lives only while it is waited for: then nothing new joins its group,
\* and once the pipe's last holder is gone nothing is written to it.
Settled(c) ==
  /\ pc[c] \in BashStates
  /\ outcome[c] # "none" => pc[c] = "ended"
  /\ shell[c] => pc[c] = "waiting"
  /\ pc[c] = "killed" => ~kids[c]
  /\ outcome[c] \in {"done", "timed out"} => ~kids[c] /\ ~strays[c] /\ got[c] = written[c]

CommandInv == \A c \in Calls : Is(c, "bash") => Settled(c)

LEMMA CommandInit == Init => CommandType /\ CommandInv
BY DEF Init, CommandType, CommandInv, Settled, BashStates

\* What the step of one call leaves alone of another's.
Others(c) ==
  /\ job' = job
  /\ \A d \in Calls \ {c} :
       /\ pc'[d] = pc[d] /\ outcome'[d] = outcome[d]
       /\ shell'[d] = shell[d] /\ kids'[d] = kids[d] /\ strays'[d] = strays[d]
       /\ written'[d] = written[d] /\ got'[d] = got[d]

LEMMA CommandFrame ==
  ASSUME CommandInv, NEW c \in Calls, Others(c),
         Is(c, "bash") => Settled(c)'
  PROVE  CommandInv'
<1>1. ASSUME NEW d \in Calls, d # c, Is(d, "bash")' PROVE Settled(d)'
  <2>1. Is(d, "bash")
    BY <1>1 DEF Others, Is
  <2>2. Settled(d)
    BY <2>1 DEF CommandInv
  <2>3. /\ pc'[d] = pc[d] /\ outcome'[d] = outcome[d]
        /\ shell'[d] = shell[d] /\ kids'[d] = kids[d] /\ strays'[d] = strays[d]
        /\ written'[d] = written[d] /\ got'[d] = got[d]
    BY <1>1 DEF Others
  <2> QED
    BY <2>2, <2>3 DEF Settled
<1>2. Is(c, "bash")' => Is(c, "bash")
  BY DEF Others, Is
<1> QED
  BY <1>1, <1>2 DEF CommandInv

LEMMA CommandStep == CommandType /\ CommandInv /\ [Next]_vars => (CommandType /\ CommandInv)'
<1> SUFFICES ASSUME CommandType, CommandInv, [Next]_vars PROVE (CommandType /\ CommandInv)'
  OBVIOUS
<1>1. CASE UNCHANGED vars
  BY <1>1 DEF vars, execVars, CommandType, CommandInv, Settled, Is
<1>2. ASSUME NEW c \in Calls,
             Thread(c) \/ CallStep(c) \/ TimesOut(c) \/ Command(c) \/ BackgroundEnds(c) \/ Cancel(c)
      PROVE  (CommandType /\ CommandInv)'
  <2>1. CASE Thread(c)
    BY <2>1 DEF Thread, OpenFile, FillFile, execVars, CommandType, CommandInv, Settled, Is
  <2>2. CASE ReadForEdit(c) \/ Wrote(c) \/ ReadNoText(c) \/ \E limit \in Limits : ReadPage(c, limit)
    <3>1. CommandType'
      BY <2>2 DEF ReadForEdit, Wrote, ReadNoText, ReadPage, execVars, Ends, Go, CommandType, BashStates
    <3>2. Others(c)
      BY <2>2 DEF ReadForEdit, Wrote, ReadNoText, ReadPage, execVars, Ends, Go, CommandType, Others
    <3>3. ~Is(c, "bash")
      BY <2>2 DEF ReadForEdit, Wrote, ReadNoText, ReadPage, CommandInv, Settled, BashStates
    <3> QED
      BY <3>1, <3>2, <3>3, CommandFrame
  <2>3. CASE Start(c)
    <3>1. CommandType'
      BY <2>3 DEF Start, execVars, Ends, Go, CommandType, BashStates
    <3>2. Others(c)
      BY <2>3 DEF Start, execVars, Ends, Go, CommandType, Others
    <3>3. Is(c, "bash") => Settled(c)'
      BY <2>3 DEF Start, execVars, Ends, Go, CommandType, CommandInv, Settled, BashStates, Is
    <3> QED
      BY <3>1, <3>2, <3>3, CommandFrame
  <2>4. CASE Refuse(c)
    <3>1. CommandType'
      BY <2>4 DEF Refuse, execVars, Ends, CommandType, BashStates
    <3>2. Others(c)
      BY <2>4 DEF Refuse, execVars, Ends, CommandType, Others
    <3>3. Is(c, "bash") => Settled(c)'
      BY <2>4 DEF Refuse, execVars, Ends, CommandType, CommandInv, Settled, BashStates, Is
    <3> QED
      BY <3>1, <3>2, <3>3, CommandFrame
  <2>5. CASE RunCommand(c)
    <3>1. CommandType'
      BY <2>5 DEF RunCommand, Ends, Go, CommandType, BashStates
    <3>2. Others(c)
      BY <2>5 DEF RunCommand, Ends, Go, CommandType, Others
    <3>3. Is(c, "bash") => Settled(c)'
      BY <2>5 DEF RunCommand, Ends, Go, CommandType, CommandInv, Settled, BashStates, Is
    <3> QED
      BY <3>1, <3>2, <3>3, CommandFrame
  <2>6. CASE Drain(c)
    <3>1. CommandType'
      <4>1. got[c] + 1 \in Nat
        <5>1. got \in [Calls -> Nat]
          BY DEF CommandType
        <5>2. got[c] \in Nat
          BY <5>1
        <5> QED
          BY <5>2
      <4>2. got' \in [Calls -> Nat]
        BY <2>6, <4>1 DEF Drain, CommandType
      <4> QED
        BY <2>6, <4>2 DEF Drain, CommandType
    <3>2. Others(c)
      BY <2>6 DEF Drain, CommandType, Others
    <3>3. Is(c, "bash") => Settled(c)'
      BY <2>6 DEF Drain, CommandType, CommandInv, Settled, BashStates, Is
    <3> QED
      BY <3>1, <3>2, <3>3, CommandFrame
  <2>7. CASE Waited(c)
    <3>1. CommandType'
      BY <2>7 DEF Waited, execVars, Go, CommandType, BashStates
    <3>2. Others(c)
      BY <2>7 DEF Waited, execVars, Go, CommandType, Others
    <3>3. Is(c, "bash") => Settled(c)'
      BY <2>7 DEF Waited, execVars, Go, CommandType, CommandInv, Settled, BashStates, Is
    <3> QED
      BY <3>1, <3>2, <3>3, CommandFrame
  <2>8. CASE Returns(c)
    <3>1. CommandType'
      BY <2>8 DEF Returns, execVars, Ends, Drained, Holding, CommandType, BashStates
    <3>2. Others(c)
      BY <2>8 DEF Returns, execVars, Ends, Drained, Holding, CommandType, Others
    <3>3. Is(c, "bash") => Settled(c)'
      BY <2>8 DEF Returns, execVars, Ends, Drained, Holding, CommandType, CommandInv, Settled, BashStates, Is
    <3> QED
      BY <3>1, <3>2, <3>3, CommandFrame
  <2>9. CASE TimesOut(c)
    <3>1. CommandType'
      BY <2>9 DEF TimesOut, KillGroup, Go, CommandType, BashStates
    <3>2. Others(c)
      BY <2>9 DEF TimesOut, KillGroup, Go, CommandType, Others
    <3>3. Is(c, "bash") => Settled(c)'
      BY <2>9 DEF TimesOut, KillGroup, Go, CommandType, CommandInv, Settled, BashStates, Is
    <3> QED
      BY <3>1, <3>2, <3>3, CommandFrame
  <2>10. CASE Fork(c)
    <3>1. CommandType'
      BY <2>10 DEF Fork, CommandType, BashStates
    <3>2. Others(c)
      BY <2>10 DEF Fork, CommandType, Others
    <3>3. Is(c, "bash") => Settled(c)'
      BY <2>10 DEF Fork, CommandType, CommandInv, Settled, BashStates, Is
    <3> QED
      BY <3>1, <3>2, <3>3, CommandFrame
  <2>11. CASE Output(c)
    <3>1. CommandType'
      <4>1. written[c] + 1 \in Nat
        <5>1. written \in [Calls -> Nat]
          BY DEF CommandType
        <5>2. written[c] \in Nat
          BY <5>1
        <5> QED
          BY <5>2
      <4>2. written' \in [Calls -> Nat]
        BY <2>11, <4>1 DEF Output, Holding, CommandType
      <4> QED
        BY <2>11, <4>2 DEF Output, Holding, CommandType
    <3>2. Others(c)
      BY <2>11 DEF Output, Holding, CommandType, Others
    <3>3. Is(c, "bash") => Settled(c)'
      BY <2>11 DEF Output, Holding, CommandType, CommandInv, Settled, BashStates, Is
    <3> QED
      BY <3>1, <3>2, <3>3, CommandFrame
  <2>12. CASE Exit(c)
    <3>1. CommandType'
      BY <2>12 DEF Exit, CommandType, BashStates
    <3>2. Others(c)
      BY <2>12 DEF Exit, CommandType, Others
    <3>3. Is(c, "bash") => Settled(c)'
      BY <2>12 DEF Exit, CommandType, CommandInv, Settled, BashStates, Is
    <3> QED
      BY <3>1, <3>2, <3>3, CommandFrame
  <2>13. CASE BackgroundEnds(c)
    <3>1. CommandType'
      BY <2>13 DEF BackgroundEnds, CommandType, BashStates
    <3>2. Others(c)
      BY <2>13 DEF BackgroundEnds, CommandType, Others
    <3>3. Is(c, "bash") => Settled(c)'
      BY <2>13 DEF BackgroundEnds, CommandType, CommandInv, Settled, BashStates, Is
    <3> QED
      BY <3>1, <3>2, <3>3, CommandFrame
  <2>14. CASE Cancel(c)
    <3>1. CommandType'
      BY <2>14 DEF Cancel, KillGroup, Ends, CommandType, BashStates
    <3>2. Others(c)
      BY <2>14 DEF Cancel, KillGroup, Ends, CommandType, Others
    <3>3. Is(c, "bash") => Settled(c)'
      BY <2>14 DEF Cancel, KillGroup, Ends, CommandType, CommandInv, Settled, BashStates, Is
    <3> QED
      BY <3>1, <3>2, <3>3, CommandFrame
  <2> QED
    BY <1>2, <2>1, <2>2, <2>3, <2>4, <2>5, <2>6, <2>7, <2>8, <2>9, <2>10, <2>11, <2>12, <2>13, <2>14 DEF CallStep, Command
<1> QED
  BY <1>1, <1>2 DEF Next

\* Whatever a command leaves behind and however its call ends, one that timed
\* out is dead with its group, the shell of a cancelled one is dead, and a result
\* has all that was printed (local.py exec).
THEOREM ResultIsFinalAlways == Spec => []ResultIsFinal
<1>1. CommandType /\ CommandInv => ResultIsFinal
  BY DEF CommandType, CommandInv, Settled, ResultIsFinal
<1> QED
  BY <1>1, CommandInit, CommandStep, PTL DEF Spec

-----------------------------------------------------------------------------
(* Edits *)

Entry == [call : Calls, what : {"read", "wrote"}, text : Seq(Lines)]

EditType ==
  /\ job \in [Calls -> Jobs]
  /\ pc \in [Calls -> BashStates \union {"reading", "writing"}]
  /\ thread \in [Calls -> {"none", "open", "write", "over"}]
  /\ DOMAIN data = Calls
  /\ IsText(file) => file \in Seq(Lines)
  /\ log \in Seq(Entry)

\* A thread runs once its call has what it writes, which stays as it is.
ThreadInv ==
  \A c \in Calls :
    /\ pc[c] \in {"start", "reading"} => thread[c] = "none"
    /\ thread[c] # "none" => data[c] \in Seq(Lines)

IsWrite(k) == log[k].what = "wrote"

\* Each entry is the one of its call and kind; a write's is of a thread that is
\* over, an edit's of a text it may edit, and it writes that text edited.
EntryInv ==
  /\ \A i, j \in DOMAIN log : log[i].call = log[j].call /\ log[i].what = log[j].what => i = j
  /\ \A i \in DOMAIN log :
       LET e == log[i] IN
       /\ pc[e.call] \notin {"start", "reading"}
       /\ IsWrite(i) => thread[e.call] = "over" /\ e.text = data[e.call]
       /\ ~IsWrite(i) => /\ MayEdit(e.text, job[e.call])
                        /\ data[e.call] = Edited(e.text, job[e.call])

\* The file is empty or as it was last written, so that what an edit reads right
\* after a write is what was written.
FileInv ==
  /\ \A k \in DOMAIN log :
       IsWrite(k) /\ (\A m \in DOMAIN log : m > k => ~IsWrite(m)) => file = <<>> \/ file = log[k].text
  /\ \A i \in DOMAIN log :
       i > 1 /\ ~IsWrite(i) /\ IsWrite(i - 1) => log[i].text = log[i - 1].text

EditInv == EditType /\ ThreadInv /\ EntryInv /\ FileInv

LEMMA EditInit == Init => EditInv
<1> SUFFICES ASSUME Init PROVE EditInv
  OBVIOUS
<1>1. EditType
  BY TextsAssumption DEF Init, EditType, BashStates
<1>2. log = <<>> /\ DOMAIN log = {} /\ \A c \in Calls : thread[c] = "none"
  BY DEF Init
<1> QED
  BY <1>1, <1>2 DEF EditInv, ThreadInv, EntryInv, FileInv

\* What an edit writes is made of lines.
LEMMA EditedType ==
  ASSUME NEW text \in Seq(Lines), NEW edit, edit.new \in Lines
  PROVE  Edited(text, edit) \in Seq(Lines)
BY DEF Edited

\* A call moves on, or its thread never starts.
Silent ==
  /\ UNCHANGED <<job, file, log, data>>
  /\ pc' \in [Calls -> BashStates \union {"reading", "writing"}]
  /\ thread' \in [Calls -> {"none", "open", "write", "over"}]
  /\ \A c \in Calls :
       /\ pc'[c] \in {"start", "reading"} => pc[c] \in {"start", "reading"} /\ thread'[c] = thread[c]
       /\ thread'[c] # thread[c] => thread[c] # "over" /\ thread'[c] = "none"

LEMMA EditSilent ==
  ASSUME EditInv, Silent
  PROVE  EditInv'
<1>1. EditType'
  BY DEF EditInv, EditType, Silent
<1>2. ThreadInv'
  BY DEF EditInv, ThreadInv, Silent
<1>3. EntryInv'
  <2>1. ASSUME NEW i \in DOMAIN log
        PROVE  /\ log[i].call \in Calls
               /\ pc'[log[i].call] \notin {"start", "reading"}
               /\ IsWrite(i) => thread'[log[i].call] = "over"
    <3>1. log[i] \in Entry
      BY DEF EditInv, EditType
    <3>2. log[i].call \in Calls
      BY <3>1 DEF Entry
    <3> QED
      BY <3>2 DEF EditInv, EntryInv, Silent
  <2>2. \A i \in DOMAIN log : IsWrite(i)' <=> IsWrite(i)
    BY DEF IsWrite, Silent
  <2>3. UNCHANGED <<job, log, data>>
    BY DEF Silent
  <2> QED
    BY <2>1, <2>2, <2>3 DEF EditInv, EntryInv
<1>4. FileInv'
  BY DEF EditInv, FileInv, IsWrite, Silent
<1> QED
  BY <1>1, <1>2, <1>3, <1>4 DEF EditInv

LEMMA SilentMove ==
  ASSUME EditType, NEW c \in Calls, UNCHANGED <<job, file, log, data, thread>>,
         NEW to \in BashStates \union {"reading", "writing"}, pc' = [pc EXCEPT ![c] = to],
         to \in {"start", "reading"} => pc[c] \in {"start", "reading"}
  PROVE  Silent
BY DEF EditType, Silent

\* An entry more, of call c.
LEMMA EntryAdded ==
  ASSUME EditInv, NEW c \in Calls, NEW what \in {"read", "wrote"}, NEW text \in Seq(Lines),
         log' = Append(log, [call |-> c, what |-> what, text |-> text]),
         job' = job, pc' \in [Calls -> BashStates \union {"reading", "writing"}],
         thread' \in [Calls -> {"none", "open", "write", "over"}],
         \A d \in Calls \ {c} : pc'[d] = pc[d] /\ thread'[d] = thread[d] /\ data'[d] = data[d],
         pc'[c] \notin {"start", "reading"},
         \A i \in DOMAIN log : log[i].call = c =>
           /\ log[i].what # what /\ data'[c] = data[c]
           /\ log[i].what = "wrote" => thread'[c] = "over",
         what = "wrote" => thread'[c] = "over" /\ text = data'[c],
         what # "wrote" => MayEdit(text, job[c]) /\ data'[c] = Edited(text, job[c])
  PROVE  /\ EntryInv'
         /\ log' \in Seq(Entry)
         /\ DOMAIN log' = DOMAIN log \union {Len(log) + 1} /\ Len(log) + 1 \notin DOMAIN log
         /\ \A i \in DOMAIN log : log'[i] = log[i]
         /\ log'[Len(log) + 1].what = what /\ log'[Len(log) + 1].text = text
<1> DEFINE new == [call |-> c, what |-> what, text |-> text]
           n == Len(log) + 1
<1>1. log \in Seq(Entry) /\ new \in Entry /\ new.call = c /\ new.what = what /\ new.text = text
  BY DEF EditInv, EditType, Entry
<1> HIDE DEF new
<1>2. /\ log' \in Seq(Entry)
      /\ DOMAIN log' = DOMAIN log \union {n} /\ n \notin DOMAIN log
      /\ \A i \in DOMAIN log : log'[i] = log[i]
      /\ log'[n] = new
  BY <1>1 DEF new
<1>3. \A i, j \in DOMAIN log' : log'[i].call = log'[j].call /\ log'[i].what = log'[j].what => i = j
  BY <1>1, <1>2 DEF EditInv, EntryInv
<1>4. ASSUME NEW i \in DOMAIN log
      PROVE  LET e == log[i] IN
             /\ pc'[e.call] \notin {"start", "reading"}
             /\ e.what = "wrote" => thread'[e.call] = "over" /\ e.text = data'[e.call]
             /\ e.what # "wrote" => /\ MayEdit(e.text, job'[e.call])
                                    /\ data'[e.call] = Edited(e.text, job'[e.call])
  <2>1. log[i] \in Entry
    BY <1>1
  <2>2. log[i].call \in Calls
    BY <2>1 DEF Entry
  <2>3. data'[log[i].call] = data[log[i].call]
    BY <2>2
  <2> QED
    BY <2>2, <2>3 DEF EditInv, EntryInv, IsWrite
<1>5. \A i \in DOMAIN log' :
        LET e == log'[i] IN
        /\ pc'[e.call] \notin {"start", "reading"}
        /\ e.what = "wrote" => thread'[e.call] = "over" /\ e.text = data'[e.call]
        /\ e.what # "wrote" => /\ MayEdit(e.text, job'[e.call])
                               /\ data'[e.call] = Edited(e.text, job'[e.call])
  BY <1>1, <1>2, <1>4
<1>6. EntryInv'
  BY <1>3, <1>5 DEF EntryInv, IsWrite
<1> QED
  BY <1>1, <1>2, <1>6

LEMMA EditStart == ASSUME EditInv, NEW c \in Calls, Start(c) PROVE EditInv'
<1>1. CASE Is(c, "write")
  <2>1. /\ pc[c] = "start" /\ pc' = [pc EXCEPT ![c] = "writing"]
        /\ thread' = [thread EXCEPT ![c] = "open"] /\ data' = [data EXCEPT ![c] = job[c].text]
        /\ UNCHANGED <<job, file, log>>
    BY <1>1 DEF Start, Go, Is
  <2>2. job[c].text \in Seq(Lines)
    BY <1>1, TextsAssumption DEF EditInv, EditType, Is
  <2>3. EditType'
    BY <2>1 DEF EditInv, EditType, BashStates
  <2>4. \A d \in Calls \ {c} : pc'[d] = pc[d] /\ thread'[d] = thread[d] /\ data'[d] = data[d]
    BY <2>1 DEF EditInv, EditType
  <2>5. pc'[c] = "writing" /\ data'[c] = job[c].text
    BY <2>1 DEF EditInv, EditType
  <2>6. ThreadInv'
    BY <2>2, <2>4, <2>5 DEF EditInv, ThreadInv
  <2>7. \A i \in DOMAIN log : log[i].call \in Calls \ {c}
    <3>1. \A i \in DOMAIN log : log[i] \in Entry
      BY DEF EditInv, EditType
    <3>2. \A e \in Entry : e.call \in Calls
      BY DEF Entry
    <3> QED
      BY <2>1, <3>1, <3>2 DEF EditInv, EntryInv
  <2>8. \A i \in DOMAIN log : IsWrite(i)' <=> IsWrite(i)
    BY <2>1 DEF IsWrite
  <2>9. EntryInv'
    BY <2>1, <2>4, <2>7, <2>8 DEF EditInv, EntryInv
  <2>10. FileInv'
    BY <2>1 DEF EditInv, FileInv, IsWrite
  <2> QED
    BY <2>3, <2>6, <2>9, <2>10 DEF EditInv
<1>2. CASE ~Is(c, "write")
  <2>1. PICK to \in {"env", "reading"} :
          pc[c] = "start" /\ pc' = [pc EXCEPT ![c] = to] /\ UNCHANGED <<job, file, log, data, thread>>
    BY <1>2 DEF Start, Go, Is, fileVars
  <2>2. EditType /\ to \in BashStates \union {"reading", "writing"}
    BY DEF EditInv, BashStates
  <2>3. Silent
    BY <2>1, <2>2, SilentMove
  <2> QED
    BY <2>3, EditSilent
<1> QED
  BY <1>1, <1>2

LEMMA EditReads == ASSUME EditInv, NEW c \in Calls, ReadForEdit(c) PROVE EditInv'
<1>1. EditType /\ job[c] \in Jobs
  BY DEF EditInv, EditType
<1>2. CASE ~IsText(file) \/ ~MayEdit(file, job[c])
  <2>1. pc' = [pc EXCEPT ![c] = "ended"] /\ UNCHANGED <<job, file, log, data, thread>>
    BY <1>2 DEF ReadForEdit, Ends, fileVars
  <2>2. "ended" \in BashStates \union {"reading", "writing"}
    BY DEF BashStates
  <2>3. Silent
    BY <1>1, <2>1, <2>2, SilentMove
  <2> QED
    BY <2>3, EditSilent
<1>3. CASE IsText(file) /\ MayEdit(file, job[c])
  <2>1. /\ pc[c] = "reading" /\ Is(c, "edit") /\ pc' = [pc EXCEPT ![c] = "writing"]
        /\ thread' = [thread EXCEPT ![c] = "open"]
        /\ data' = [data EXCEPT ![c] = Edited(file, job[c])]
        /\ log' = Append(log, [call |-> c, what |-> "read", text |-> file])
        /\ UNCHANGED <<job, file>>
    BY <1>3 DEF ReadForEdit, Go
  <2>2. file \in Seq(Lines) /\ job[c].new \in Lines
    BY <1>1, <1>3, <2>1, TextsAssumption DEF EditType, Is
  <2>3. Edited(file, job[c]) \in Seq(Lines)
    BY <2>2, EditedType
  <2>4. /\ pc' \in [Calls -> BashStates \union {"reading", "writing"}]
        /\ thread' \in [Calls -> {"none", "open", "write", "over"}]
        /\ DOMAIN data' = Calls
        /\ pc'[c] = "writing" /\ data'[c] = Edited(file, job[c])
        /\ \A d \in Calls \ {c} : pc'[d] = pc[d] /\ thread'[d] = thread[d] /\ data'[d] = data[d]
    BY <1>1, <2>1 DEF EditType, BashStates
  <2>5. \A i \in DOMAIN log : log[i].call # c
    BY <2>1 DEF EditInv, EntryInv
  <2>6. /\ EntryInv'
        /\ log' \in Seq(Entry)
        /\ DOMAIN log' = DOMAIN log \union {Len(log) + 1} /\ Len(log) + 1 \notin DOMAIN log
        /\ \A i \in DOMAIN log : log'[i] = log[i]
        /\ log'[Len(log) + 1].what = "read" /\ log'[Len(log) + 1].text = file
    <3>1. pc'[c] \notin {"start", "reading"} /\ "read" \in {"read", "wrote"} /\ "read" # "wrote"
      BY <2>4
    <3>2. \A i \in DOMAIN log : log[i].call = c =>
            /\ log[i].what # "read" /\ data'[c] = data[c]
            /\ log[i].what = "wrote" => thread'[c] = "over"
      BY <2>5
    <3>3. job' = job /\ log' = Append(log, [call |-> c, what |-> "read", text |-> file])
      BY <2>1
    <3> QED
      BY <1>3, <2>2, <2>4, <3>1, <3>2, <3>3, EntryAdded
  <2>7. EditType'
    BY <1>1, <2>1, <2>4, <2>6 DEF EditType
  <2>8. ThreadInv'
    BY <2>3, <2>4 DEF EditInv, ThreadInv
  <2>9. file # <<>>
    <3>1. Occurrences(file, job[c].old) # {}
      BY <1>3 DEF MayEdit
    <3> QED
      BY <3>1 DEF Occurrences
  <2>10. log \in Seq(Entry) /\ Len(log) \in Nat /\ DOMAIN log = 1..Len(log)
    BY <1>1 DEF EditType
  <2>11. \A i \in DOMAIN log : (log'[i].what = "wrote" <=> IsWrite(i)) /\ log'[i] = log[i]
    BY <2>6 DEF IsWrite
  <2>12. ASSUME NEW k \in DOMAIN log', log'[k].what = "wrote",
                \A m \in DOMAIN log' : m > k => log'[m].what # "wrote"
         PROVE  file = log'[k].text
    <3>1. k \in DOMAIN log
      BY <2>6, <2>12
    <3>2. IsWrite(k) /\ \A m \in DOMAIN log : m > k => ~IsWrite(m)
      BY <2>6, <2>11, <2>12, <3>1
    <3> QED
      BY <2>9, <2>11, <3>1, <3>2 DEF EditInv, FileInv
  <2>13. ASSUME NEW i \in DOMAIN log', i > 1, log'[i].what # "wrote", log'[i - 1].what = "wrote"
         PROVE  log'[i].text = log'[i - 1].text
    <3>1. CASE i \in DOMAIN log
      <4>1. i - 1 \in DOMAIN log
        BY <2>10, <2>13, <3>1
      <4> QED
        BY <2>11, <2>13, <3>1, <4>1 DEF EditInv, FileInv
    <3>2. CASE i = Len(log) + 1
      <4>1. i - 1 \in DOMAIN log /\ \A m \in DOMAIN log : ~(m > i - 1)
        BY <2>10, <2>13, <3>2
      <4>2. file = log[i - 1].text
        BY <2>9, <2>11, <2>13, <4>1 DEF EditInv, FileInv
      <4> QED
        BY <2>6, <2>11, <3>2, <4>1, <4>2
    <3> QED
      BY <2>6, <2>13, <3>1, <3>2
  <2>14. FileInv'
    BY <2>1, <2>12, <2>13 DEF FileInv, IsWrite
  <2> QED
    BY <2>6, <2>7, <2>8, <2>14 DEF EditInv
<1> QED
  BY <1>2, <1>3

LEMMA EditOpens == ASSUME EditInv, NEW c \in Calls, OpenFile(c) PROVE EditInv'
<1>1. /\ thread[c] = "open" /\ thread' = [thread EXCEPT ![c] = "write"] /\ file' = <<>>
      /\ UNCHANGED <<job, pc, data, log>>
  BY DEF OpenFile
<1>2. EditType'
  BY <1>1 DEF EditInv, EditType
<1>3. ThreadInv'
  BY <1>1 DEF EditInv, ThreadInv, EditType
<1>4. \A i \in DOMAIN log : IsWrite(i)' <=> IsWrite(i)
  BY <1>1 DEF IsWrite
<1>5. EntryInv'
  <2>1. \A i \in DOMAIN log : log[i].call \in Calls
    <3>1. \A i \in DOMAIN log : log[i] \in Entry
      BY DEF EditInv, EditType
    <3>2. \A e \in Entry : e.call \in Calls
      BY DEF Entry
    <3> QED
      BY <3>1, <3>2
  <2>2. \A d \in Calls : thread[d] = "over" => thread'[d] = "over"
    BY <1>1 DEF EditInv, EditType
  <2> QED
    BY <1>1, <1>4, <2>1, <2>2 DEF EditInv, EntryInv
<1>6. FileInv'
  <2>1. file' = <<>> /\ log' = log
    BY <1>1
  <2>2. FileInv
    BY DEF EditInv
  <2> QED
    BY <2>1, <2>2 DEF FileInv, IsWrite
<1> QED
  BY <1>2, <1>3, <1>5, <1>6 DEF EditInv

LEMMA EditFills == ASSUME EditInv, NEW c \in Calls, FillFile(c) PROVE EditInv'
<1>1. /\ thread[c] = "write" /\ thread' = [thread EXCEPT ![c] = "over"] /\ file' = data[c]
      /\ log' = Append(log, [call |-> c, what |-> "wrote", text |-> data[c]])
      /\ UNCHANGED <<job, pc, data>>
  BY DEF FillFile
<1>2. EditType /\ data[c] \in Seq(Lines) /\ pc[c] \notin {"start", "reading"}
  BY <1>1 DEF EditInv, ThreadInv
<1>3. /\ thread' \in [Calls -> {"none", "open", "write", "over"}] /\ thread'[c] = "over"
      /\ \A d \in Calls \ {c} : thread'[d] = thread[d]
  BY <1>1, <1>2 DEF EditType
<1>4. \A i \in DOMAIN log : log[i].call = c => log[i].what # "wrote"
  BY <1>1 DEF EditInv, EntryInv, IsWrite
<1>5. /\ EntryInv'
      /\ log' \in Seq(Entry)
      /\ DOMAIN log' = DOMAIN log \union {Len(log) + 1} /\ Len(log) + 1 \notin DOMAIN log
      /\ \A i \in DOMAIN log : log'[i] = log[i]
      /\ log'[Len(log) + 1].what = "wrote" /\ log'[Len(log) + 1].text = data[c]
  <2>1. pc' \in [Calls -> BashStates \union {"reading", "writing"}] /\ "wrote" \in {"read", "wrote"}
    BY <1>1, <1>2 DEF EditType
  <2> QED
    BY <1>1, <1>2, <1>3, <1>4, <2>1, EntryAdded
<1>6. EditType'
  BY <1>1, <1>2, <1>3, <1>5 DEF EditType
<1>7. ThreadInv'
  BY <1>1, <1>2, <1>3 DEF EditInv, ThreadInv
<1>8. log \in Seq(Entry) /\ Len(log) \in Nat /\ DOMAIN log = 1..Len(log)
  BY <1>2 DEF EditType
<1>9. \A i \in DOMAIN log : (log'[i].what = "wrote" <=> IsWrite(i)) /\ log'[i] = log[i]
  BY <1>5 DEF IsWrite
<1>10. ASSUME NEW k \in DOMAIN log', log'[k].what = "wrote",
              \A m \in DOMAIN log' : m > k => log'[m].what # "wrote"
       PROVE  file' = log'[k].text
  <2>1. k = Len(log) + 1
    BY <1>5, <1>8, <1>10
  <2> QED
    BY <1>1, <1>5, <2>1
<1>11. ASSUME NEW i \in DOMAIN log', i > 1, log'[i].what # "wrote", log'[i - 1].what = "wrote"
       PROVE  log'[i].text = log'[i - 1].text
  <2>1. i \in DOMAIN log /\ i - 1 \in DOMAIN log
    BY <1>5, <1>8, <1>11
  <2> QED
    BY <1>9, <1>11, <2>1 DEF EditInv, FileInv
<1>12. FileInv'
  BY <1>10, <1>11 DEF FileInv, IsWrite
<1> QED
  BY <1>5, <1>6, <1>7, <1>12 DEF EditInv

LEMMA EditCancel == ASSUME EditInv, NEW c \in Calls, Cancel(c) PROVE EditInv'
<1>1. /\ pc' = [pc EXCEPT ![c] = "ended"] /\ UNCHANGED <<job, file, log, data>>
      /\ \/ thread[c] = "open" /\ thread' = [thread EXCEPT ![c] = "none"]
         \/ UNCHANGED thread
  BY DEF Cancel, Ends
<1>2. EditType
  BY DEF EditInv
<1>3. \A d \in Calls : thread'[d] # thread[d] => thread[d] = "open" /\ thread'[d] = "none"
  BY <1>1, <1>2 DEF EditType
<1>4. \A d \in Calls : pc'[d] \in {"start", "reading"} => pc[d] \in {"start", "reading"} /\ d # c
  BY <1>1, <1>2 DEF EditType
<1>5. Silent
  <2>1. \A d \in Calls : d # c => thread'[d] = thread[d]
    BY <1>1, <1>2 DEF EditType
  <2>2. /\ pc' \in [Calls -> BashStates \union {"reading", "writing"}]
        /\ thread' \in [Calls -> {"none", "open", "write", "over"}]
    BY <1>1, <1>2 DEF EditType, BashStates
  <2> QED
    BY <1>1, <1>3, <1>4, <2>1, <2>2 DEF Silent
<1> QED
  BY <1>5, EditSilent

LEMMA EditUnchanged == ASSUME EditInv, UNCHANGED <<job, pc, file, thread, data, log>> PROVE EditInv'
BY DEF EditInv, EditType, ThreadInv, EntryInv, FileInv, IsWrite

LEMMA EditStep == EditInv /\ [Next]_vars => EditInv'
<1> SUFFICES ASSUME EditInv, [Next]_vars PROVE EditInv'
  OBVIOUS
<1>1. CASE UNCHANGED vars
  BY <1>1, EditUnchanged DEF vars, fileVars
<1>2. ASSUME NEW c \in Calls,
             Thread(c) \/ CallStep(c) \/ TimesOut(c) \/ Command(c) \/ BackgroundEnds(c) \/ Cancel(c)
      PROVE  EditInv'
  <2>1. CASE Thread(c)
    BY <2>1, EditOpens, EditFills DEF Thread
  <2>2. CASE Start(c)
    BY <2>2, EditStart
  <2>3. CASE ReadForEdit(c)
    BY <2>3, EditReads
  <2>4. CASE Cancel(c)
    BY <2>4, EditCancel
  <2>5. CASE Fork(c) \/ Output(c) \/ Exit(c) \/ BackgroundEnds(c) \/ Drain(c)
    BY <2>5, EditUnchanged DEF Fork, Output, Exit, BackgroundEnds, Drain, fileVars
  <2>6. CASE \/ Refuse(c) \/ RunCommand(c) \/ Wrote(c) \/ ReadNoText(c)
             \/ (\E limit \in Limits : ReadPage(c, limit))
             \/ Waited(c) \/ Returns(c) \/ TimesOut(c)
    <3>1. PICK to \in {"ended", "waiting", "draining", "killed", "reading"} :
            /\ pc' = [pc EXCEPT ![c] = to] /\ UNCHANGED <<job, file, log, data, thread>>
            /\ to = "reading" => pc[c] = "reading"
      <4>1. CASE \E limit \in Limits : ReadPage(c, limit)
        BY <4>1 DEF ReadPage, Ends, Go
      <4>2. CASE Refuse(c) \/ RunCommand(c) \/ Wrote(c) \/ ReadNoText(c)
        BY <4>2 DEF Refuse, RunCommand, Wrote, ReadNoText, Ends, Go, fileVars
      <4>3. CASE Waited(c) \/ Returns(c) \/ TimesOut(c)
        BY <4>3 DEF Waited, Returns, TimesOut, Ends, Go, fileVars
      <4> QED
        BY <2>6, <4>1, <4>2, <4>3
    <3>2. EditType /\ to \in BashStates \union {"reading", "writing"}
      BY DEF EditInv, BashStates
    <3>3. to \in {"start", "reading"} => pc[c] \in {"start", "reading"}
      BY <3>1
    <3>4. Silent
      BY <3>1, <3>2, <3>3, SilentMove
    <3> QED
      BY <3>4, EditSilent
  <2> QED
    BY <1>2, <2>1, <2>2, <2>3, <2>4, <2>5, <2>6 DEF CallStep, Command
<1> QED
  BY <1>1, <1>2 DEF Next

\* What an edit that is allowed does: the lines it names, and no other, become
\* the new one.
LEMMA EditedExactly ==
  ASSUME NEW text \in Seq(Lines), NEW edit, MayEdit(text, edit)
  PROVE  LET after == Edited(text, edit)
             changed == {i \in DOMAIN text : text[i] # after[i]}
         IN /\ Len(text) = Len(after)
            /\ \A i \in changed : text[i] = edit.old /\ after[i] = edit.new
            /\ IF edit.all THEN \A i \in DOMAIN text : after[i] # edit.old
               ELSE Cardinality(changed) = 1 /\ changed = Occurrences(text, edit.old)
<1> DEFINE spots == Occurrences(text, edit.old)
           due == IF edit.all THEN spots ELSE {Min(spots)}
           after == Edited(text, edit)
           changed == {i \in DOMAIN text : text[i] # after[i]}
<1>1. /\ spots = {i \in DOMAIN text : text[i] = edit.old}
      /\ edit.old # edit.new /\ spots # {} /\ (Cardinality(spots) = 1 \/ edit.all)
  BY DEF Occurrences, MayEdit
<1>2. after = [i \in DOMAIN text |-> IF i \in due THEN edit.new ELSE text[i]]
  BY DEF Edited
<1>3. due = spots
  <2>1. CASE edit.all
    BY <2>1
  <2>2. CASE ~edit.all
    <3>1. IsFiniteSet(spots)
      <4>1. DOMAIN text = 1..Len(text) /\ Len(text) \in Nat
        OBVIOUS
      <4>2. IsFiniteSet(1..Len(text))
        BY <4>1, FS_Interval
      <4>3. spots \subseteq 1..Len(text)
        BY <1>1, <4>1
      <4> QED
        BY <4>2, <4>3, FS_Subset
    <3>2. PICK x : spots = {x}
      BY <1>1, <2>2, <3>1, FS_Singleton
    <3>3. x \in 1..Len(text)
      BY <1>1, <3>2
    <3>4. Min(spots) = x
      <4>1. Min({x}) = CHOOSE y \in {x} : \A z \in {x} : y =< z
        BY DEF Min
      <4>2. x =< x
        BY <3>3
      <4> QED
        BY <3>2, <4>1, <4>2
    <3> QED
      BY <2>2, <3>2, <3>4
  <2> QED
    BY <2>1, <2>2
<1> HIDE DEF spots, due, after
<1>4. \A i \in DOMAIN text : after[i] = IF i \in spots THEN edit.new ELSE text[i]
  BY <1>2, <1>3
<1>5. changed = spots
  BY <1>1, <1>4
<1>6. Len(after) = Len(text)
  BY <1>2
<1>7. \A i \in changed : text[i] = edit.old /\ after[i] = edit.new
  BY <1>1, <1>4, <1>5
<1>8. \A i \in DOMAIN text : after[i] # edit.old
  BY <1>1, <1>4
<1> QED
  BY <1>1, <1>5, <1>6, <1>7, <1>8 DEF spots, after

\* Edits and writes that do not overlap compose, whatever else the batch does,
\* whichever calls are cancelled and in whatever order the threads run (_edit).
THEOREM EditsComposeAlways == Spec => []EditsCompose
<1>1. EditInv => EditsCompose
  <2> SUFFICES ASSUME EditInv PROVE EditsCompose
    OBVIOUS
  <2> DEFINE Read(i) == log[i].what = "read"
             serial == \A i \in 1..(Len(log) - 1) : Read(i) => log[i + 1].call = log[i].call
             Exact(c, before, after) ==
               LET changed == {i \in DOMAIN before : before[i] # after[i]} IN
               /\ Len(before) = Len(after)
               /\ \A i \in changed : before[i] = job[c].old /\ after[i] = job[c].new
               /\ IF job[c].all THEN \A i \in DOMAIN before : after[i] # job[c].old
                  ELSE Cardinality(changed) = 1 /\ changed = Occurrences(before, job[c].old)
  <2>1. log \in Seq(Entry) /\ Len(log) \in Nat /\ DOMAIN log = 1..Len(log)
    BY DEF EditInv, EditType
  <2>2. ASSUME serial, NEW i \in 2..Len(log)
        PROVE  /\ i \in DOMAIN log /\ i - 1 \in DOMAIN log /\ i > 1
               /\ Read(i - 1) => log[i].call = log[i - 1].call
               /\ log[i] \in Entry /\ log[i - 1] \in Entry
    <3>1. i - 1 \in 1..(Len(log) - 1) /\ (i - 1) + 1 = i
      BY <2>1
    <3> QED
      BY <2>1, <2>2, <3>1
  <2>3. ASSUME serial, NEW i \in 2..Len(log), Read(i - 1)
        PROVE  log[i].what = "wrote" /\ log[i].call = log[i - 1].call
    <3>1. i # i - 1 /\ log[i].what \in {"read", "wrote"}
      BY <2>2, <2>3 DEF Entry
    <3>2. log[i].call = log[i - 1].call /\ i \in DOMAIN log /\ i - 1 \in DOMAIN log
      BY <2>2, <2>3
    <3> QED
      BY <2>3, <3>1, <3>2 DEF EditInv, EntryInv
  <2>4. ASSUME serial, NEW i \in 2..Len(log), Read(i)
        PROVE  log[i].text = log[i - 1].text
    <3>1. ~Read(i - 1)
      BY <2>3, <2>4
    <3>2. i \in DOMAIN log /\ i > 1 /\ log[i - 1] \in Entry
      BY <2>2, <2>4
    <3>3. log[i - 1].what = "wrote"
      BY <3>1, <3>2 DEF Entry
    <3> QED
      BY <2>4, <3>2, <3>3 DEF EditInv, FileInv, IsWrite
  <2>5. ASSUME serial, NEW i \in 2..Len(log), Read(i - 1)
        PROVE  Exact(log[i].call, log[i - 1].text, log[i].text)
    <3> DEFINE c == log[i].call
               text == log[i - 1].text
    <3>1. /\ log[i].what = "wrote" /\ c = log[i - 1].call
          /\ i \in DOMAIN log /\ i - 1 \in DOMAIN log
      BY <2>2, <2>3, <2>5
    <3>2. text \in Seq(Lines)
      BY <2>2, <2>5 DEF Entry
    <3>3. log[i].text = data[c] /\ MayEdit(text, job[c]) /\ data[c] = Edited(text, job[c])
      BY <2>5, <3>1 DEF EditInv, EntryInv, IsWrite
    <3> HIDE DEF c, text
    <3>4. Exact(c, text, Edited(text, job[c]))
      BY <3>2, <3>3, EditedExactly
    <3> QED
      BY <3>3, <3>4 DEF c, text
  <2> QED
    BY <2>4, <2>5 DEF EditsCompose
<1> QED
  BY <1>1, EditInit, EditStep, PTL DEF Spec

-----------------------------------------------------------------------------
(* Pages *)

\* A call that pages through a file nobody has changed since it began has shown
\* the lines before its offset; one that has shown nothing is at the first.
PageOf(c) ==
  /\ pc[c] \in {"start", "reading", "ended"}
  /\ pc[c] # "ended" => outcome[c] = "none"
  /\ pc[c] = "start" => steady[c] = NoFile
  /\ offset[c] \in Nat \ {0} /\ (offset[c] = 1 => shown[c] = <<>>)
  /\ steady[c] # NoFile =>
       /\ IsPrefix(shown[c], steady[c])
       /\ outcome[c] # "error" /\ (outcome[c] = "done" => shown[c] = steady[c])
       /\ pc[c] = "reading" => /\ steady[c] = file /\ IsText(file) /\ offset[c] <= Len(file)
                               /\ shown[c] = SubSeq(file, 1, offset[c] - 1)

PageType ==
  /\ DOMAIN pc = Calls /\ DOMAIN outcome = Calls /\ DOMAIN offset = Calls
  /\ DOMAIN shown = Calls /\ DOMAIN steady = Calls

PageInv == PageType /\ \A c \in Calls : Is(c, "read") => PageOf(c)

LEMMA PageInit == Init => PageInv
BY DEF Init, PageInv, PageType, PageOf

\* A page ends at a line of the file, or shows none.
LEMMA LastShownBounds ==
  ASSUME NEW text \in Seq(Lines), NEW first \in Nat \ {0}, NEW limit
  PROVE  /\ LastShown(text, first, limit) \in Nat /\ LastShown(text, first, limit) >= first - 1
         /\ LastShown(text, first, limit) <= Len(text) \/ LastShown(text, first, limit) = first - 1
<1> DEFINE Size_(n) == FoldLeft(LAMBDA total, line : total + Rendered(line), 0, SubSeq(text, first, n))
           fit == {n \in first..Len(text) : n < first + limit /\ Size_(n) <= CharCap}
           all == {first - 1} \cup fit
<1>1. LastShown(text, first, limit) = Max(all)
  BY DEF LastShown
<1>2. fit \subseteq first..Len(text)
  OBVIOUS
<1> HIDE DEF fit
<1>3. all \subseteq Nat /\ all # {} /\ \A n \in all : n <= Len(text) + first
  BY <1>2
<1>4. \A n \in all : n >= first - 1 /\ (n <= Len(text) \/ n = first - 1)
  BY <1>2
<1>5. Max(all) \in all
  <2> HIDE DEF all
  <2>1. Len(text) + first \in Nat
    OBVIOUS
  <2>2. \E n \in all : \A m \in all : n >= m
    BY <1>3, <2>1, NatMax
  <2> QED
    BY <2>2 DEF Max
<1> QED
  BY <1>1, <1>3, <1>4, <1>5

\* Pages one after the other are a longer page from the start.
LEMMA PagesJoin ==
  ASSUME NEW text \in Seq(Lines), NEW first \in 1..(Len(text) + 1), NEW last \in (first - 1)..Len(text)
  PROVE  /\ SubSeq(text, 1, first - 1) \o SubSeq(text, first, last) = SubSeq(text, 1, last)
         /\ IsPrefix(SubSeq(text, 1, last), text)
         /\ SubSeq(text, 1, Len(text)) = text
<1>1. SubSeq(text, 1, first - 1) \o SubSeq(text, first, last) = SubSeq(text, 1, last)
  OBVIOUS
<1>2. Len(SubSeq(text, 1, last)) = last /\ SubSeq(SubSeq(text, 1, last), 1, last) = SubSeq(text, 1, last)
  OBVIOUS
<1>3. SubSeq(text, 1, Len(text)) = text
  OBVIOUS
<1> QED
  BY <1>1, <1>2, <1>3 DEF IsPrefix

\* A step that shows no page moves only calls that are over or are no reads.
LEMMA PageSilent ==
  ASSUME PageInv, NEW c \in Calls, UNCHANGED <<job, offset, shown>>, PageType',
         \A d \in Calls \ {c} : pc'[d] = pc[d] /\ outcome'[d] = outcome[d],
         \/ ~Is(c, "read")
         \/ pc'[c] = pc[c] /\ outcome'[c] = outcome[c]
         \/ pc[c] = "start" /\ pc'[c] = "reading" /\ outcome'[c] = outcome[c]
         \/ pc[c] = "start" /\ pc'[c] = "ended"
         \/ pc[c] = "reading" /\ pc'[c] = "ended" /\ outcome'[c] = "cancelled",
         \/ steady' = Changed
         \/ UNCHANGED <<file, steady>>
  PROVE  PageInv'
<1> SUFFICES ASSUME NEW d \in Calls, Is(d, "read") PROVE PageOf(d)'
  BY DEF PageInv, Is
<1>1. PageOf(d)
  BY DEF PageInv
<1>2. CASE steady' = Changed
  BY <1>1, <1>2 DEF PageOf, Changed
<1>3. CASE UNCHANGED <<file, steady>>
  BY <1>1, <1>3 DEF PageOf
<1> QED
  BY <1>2, <1>3

LEMMA NotBefore == ASSUME NEW m \in Int, NEW n \in Int, m <= n, ~(m < n) PROVE m = n
OBVIOUS

LEMMA PageShown ==
  ASSUME PageInv, EditInv, NEW c \in Calls, NEW limit, ReadPage(c, limit)
  PROVE  PageInv'
<1> DEFINE first == offset[c]
           last == LastShown(file, first, limit)
<1>1. /\ pc[c] = "reading" /\ Is(c, "read") /\ IsText(file) /\ file \in Seq(Lines)
      /\ UNCHANGED <<job, file>> /\ PageType /\ PageOf(c)
  BY DEF ReadPage, PageInv, EditInv, EditType
<1>2. file # NoFile
  BY <1>1 DEF IsText
<1>3. outcome[c] = "none" /\ first \in Nat \ {0}
  BY <1>1 DEF PageOf
<1>4. ASSUME NEW to, pc' = [pc EXCEPT ![c] = to], outcome' = outcome
             \/ \E how : outcome' = [outcome EXCEPT ![c] = how],
             \A d \in Calls \ {c} : /\ offset'[d] = offset[d] /\ shown'[d] = shown[d]
                                    /\ steady'[d] = steady[d],
             PageType', PageOf(c)'
      PROVE  PageInv'
  <2> SUFFICES ASSUME NEW d \in Calls \ {c}, Is(d, "read") PROVE PageOf(d)'
    BY <1>1, <1>4 DEF PageInv, Is
  <2>1. PageOf(d)
    BY DEF PageInv
  <2>2. pc'[d] = pc[d] /\ outcome'[d] = outcome[d]
    BY <1>1, <1>4 DEF PageType
  <2> QED
    BY <1>1, <1>4, <2>1, <2>2 DEF PageOf
<1>5. CASE file # <<>> /\ first > Len(file)
  <2>1. /\ pc' = [pc EXCEPT ![c] = "ended"] /\ outcome' = [outcome EXCEPT ![c] = "error"]
        /\ UNCHANGED <<offset, shown, steady>>
    BY <1>5 DEF ReadPage, Ends, readVars
  <2>2. steady[c] = NoFile
    BY <1>1, <1>3, <1>5 DEF PageOf
  <2>3. PageType' /\ PageOf(c)'
    BY <1>1, <2>1, <2>2 DEF PageType, PageOf
  <2> QED
    BY <1>4, <2>1, <2>3
<1>6. CASE ~(file # <<>> /\ first > Len(file))
  <2>1. /\ shown' = [shown EXCEPT ![c] = shown[c] \o SubSeq(file, first, last)]
        /\ offset' = [offset EXCEPT ![c] = last + 1]
        /\ steady' = [steady EXCEPT ![c] = IF first = 1 THEN file ELSE steady[c]]
        /\ IF last < Len(file) THEN Go(c, "reading") ELSE Ends(c, "done")
    BY <1>6 DEF ReadPage, NextOffset
  <2>2. last \in Nat /\ last >= first - 1 /\ (last <= Len(file) \/ last = first - 1)
    BY <1>1, <1>3, LastShownBounds
  <2> HIDE DEF last
  <2>3. /\ shown'[c] = shown[c] \o SubSeq(file, first, last) /\ offset'[c] = last + 1
        /\ steady'[c] = (IF first = 1 THEN file ELSE steady[c])
        /\ \A d \in Calls \ {c} : /\ offset'[d] = offset[d] /\ shown'[d] = shown[d]
                                  /\ steady'[d] = steady[d]
    BY <1>1, <2>1 DEF PageType
  <2>4. PageType'
    BY <1>1, <2>1 DEF PageType, Go, Ends
  <2>5. offset'[c] \in Nat \ {0} /\ (offset'[c] = 1 => shown'[c] = <<>>)
    <3>1. ASSUME offset'[c] = 1 PROVE shown'[c] = <<>>
      <4>1. last = 0 /\ first = 1
        BY <1>3, <2>2, <2>3, <3>1
      <4>2. shown[c] = <<>> /\ SubSeq(file, 1, 0) = <<>>
        BY <1>1, <4>1 DEF PageOf
      <4> QED
        BY <2>3, <4>1, <4>2
    <3> QED
      BY <2>2, <2>3, <3>1
  <2>6. ASSUME steady'[c] # NoFile
        PROVE  /\ steady'[c] = file /\ shown'[c] = SubSeq(file, 1, last) /\ last <= Len(file)
               /\ IsPrefix(shown'[c], steady'[c])
    <3>1. steady'[c] = file /\ shown[c] = SubSeq(file, 1, first - 1) /\ first \in 1..(Len(file) + 1)
      <4>1. CASE first = 1
        <5>1. first - 1 = 0 /\ shown[c] = <<>> /\ steady'[c] = file
          BY <1>1, <2>3, <4>1 DEF PageOf
        <5>2. SubSeq(file, 1, 0) = <<>> /\ Len(file) \in Nat
          BY <1>1
        <5> QED
          BY <4>1, <5>1, <5>2
      <4>2. CASE first # 1
        BY <1>1, <1>3, <2>3, <2>6, <4>2 DEF PageOf
      <4> QED
        BY <4>1, <4>2
    <3>2. Len(file) \in Nat
      BY <1>1
    <3> HIDE DEF first
    <3>3. last \in (first - 1)..Len(file) /\ last <= Len(file)
      BY <2>2, <3>1, <3>2
    <3>4. /\ SubSeq(file, 1, first - 1) \o SubSeq(file, first, last) = SubSeq(file, 1, last)
          /\ IsPrefix(SubSeq(file, 1, last), file)
      <4>1. file \in Seq(Lines) /\ first \in 1..(Len(file) + 1) /\ last \in (first - 1)..Len(file)
        BY <1>1, <3>1, <3>3
      <4> QED
        BY <4>1, PagesJoin, ZenonT(40)
    <3>5. shown'[c] = SubSeq(file, 1, last)
      BY <2>3, <3>1, <3>4
    <3> QED
      BY <3>1, <3>3, <3>4, <3>5
  <2>7. SubSeq(file, 1, Len(file)) = file /\ Len(file) \in Nat
    BY <1>1
  <2>8. CASE last < Len(file)
    <3>1. pc' = [pc EXCEPT ![c] = "reading"] /\ outcome' = outcome
      BY <2>1, <2>8 DEF Go
    <3>2. pc'[c] = "reading" /\ outcome'[c] = "none"
      BY <1>1, <1>3, <3>1 DEF PageType
    <3>3. steady'[c] # NoFile => /\ steady'[c] = file' /\ IsText(file)' /\ offset'[c] <= Len(file')
                                 /\ shown'[c] = SubSeq(file', 1, offset'[c] - 1)
      <4>1. offset'[c] - 1 = last /\ offset'[c] <= Len(file)
        BY <2>2, <2>3, <2>7, <2>8
      <4> QED
        BY <1>1, <2>6, <4>1 DEF IsText
    <3>4. PageOf(c)'
      BY <2>5, <2>6, <3>2, <3>3 DEF PageOf
    <3> QED
      BY <1>4, <2>3, <2>4, <3>1, <3>4
  <2>9. CASE ~(last < Len(file))
    <3>1. pc' = [pc EXCEPT ![c] = "ended"] /\ outcome' = [outcome EXCEPT ![c] = "done"]
      BY <2>1, <2>9 DEF Ends
    <3>2. pc'[c] = "ended" /\ outcome'[c] = "done"
      BY <1>1, <3>1 DEF PageType
    <3>3. steady'[c] # NoFile => shown'[c] = steady'[c]
      <4> SUFFICES ASSUME steady'[c] # NoFile PROVE shown'[c] = steady'[c]
        OBVIOUS
      <4>1. last <= Len(file) /\ steady'[c] = file /\ shown'[c] = SubSeq(file, 1, last)
        BY <2>6
      <4>2. last = Len(file)
        <5>1. last \in Int /\ Len(file) \in Int
          BY <2>2, <2>7
        <5>2. last <= Len(file) /\ ~(last < Len(file))
          BY <2>9, <4>1
        <5> QED
          BY <5>1, <5>2, NotBefore
      <4> QED
        BY <2>7, <4>1, <4>2
    <3>4. PageOf(c)'
      BY <2>5, <2>6, <3>2, <3>3 DEF PageOf
    <3> QED
      BY <1>4, <2>3, <2>4, <3>1, <3>4
  <2> QED
    BY <2>8, <2>9
<1> QED
  BY <1>5, <1>6

LEMMA PageStep == EditInv /\ PageInv /\ [Next]_vars => PageInv'
<1> SUFFICES ASSUME EditInv, PageInv, [Next]_vars PROVE PageInv'
  OBVIOUS
<1>0. PageType /\ \A c \in Calls : Is(c, "read") => PageOf(c)
  BY DEF PageInv
<1>1. ASSUME NEW c \in Calls, OpenFile(c) \/ FillFile(c) PROVE PageInv'
  <2>1. /\ UNCHANGED <<job, pc, outcome, offset, shown>> /\ steady' = Changed /\ PageType'
    BY <1>0, <1>1 DEF OpenFile, FillFile, readVars, PageType, Changed
  <2> QED
    BY <2>1, PageSilent
<1>2. ASSUME NEW c \in Calls, Start(c) PROVE PageInv'
  <2>1. /\ UNCHANGED <<job, offset, shown, file, steady, outcome>> /\ PageType' /\ pc[c] = "start"
        /\ \A d \in Calls \ {c} : pc'[d] = pc[d]
    BY <1>0, <1>2 DEF Start, Go, readVars, fileVars, PageType
  <2>2. Is(c, "read") => pc'[c] = "reading"
    BY <1>0, <1>2 DEF Start, Go, Is, PageType
  <2> QED
    BY <2>1, <2>2, PageSilent
<1>3. ASSUME NEW c \in Calls, Refuse(c) PROVE PageInv'
  <2>1. /\ UNCHANGED <<job, offset, shown, file, steady>> /\ PageType'
        /\ pc[c] = "start" /\ pc'[c] = "ended"
        /\ \A d \in Calls \ {c} : pc'[d] = pc[d] /\ outcome'[d] = outcome[d]
    BY <1>0, <1>3 DEF Refuse, Ends, readVars, fileVars, PageType
  <2> QED
    BY <2>1, PageSilent
<1>4. ASSUME NEW c \in Calls, RunCommand(c) \/ Wrote(c) \/ Waited(c) \/ Returns(c) \/ TimesOut(c)
      PROVE PageInv'
  <2>1. ~Is(c, "read")
    BY <1>0, <1>4 DEF RunCommand, Wrote, Waited, Returns, TimesOut, PageOf
  <2>2. /\ UNCHANGED <<job, offset, shown, file, steady>> /\ PageType'
        /\ \A d \in Calls \ {c} : pc'[d] = pc[d] /\ outcome'[d] = outcome[d]
    BY <1>0, <1>4
       DEF RunCommand, Wrote, Waited, Returns, TimesOut, Ends, Go, readVars, fileVars, PageType
  <2> QED
    BY <2>1, <2>2, PageSilent
<1>5. ASSUME NEW c \in Calls, ReadForEdit(c) PROVE PageInv'
  <2>1. ~Is(c, "read")
    BY <1>5 DEF ReadForEdit, Is
  <2>2. /\ UNCHANGED <<job, offset, shown, file, steady>> /\ PageType'
        /\ \A d \in Calls \ {c} : pc'[d] = pc[d] /\ outcome'[d] = outcome[d]
    BY <1>0, <1>5 DEF ReadForEdit, Ends, Go, readVars, fileVars, PageType
  <2> QED
    BY <2>1, <2>2, PageSilent
<1>6. ASSUME NEW c \in Calls, ReadNoText(c) PROVE PageInv'
  <2>1. /\ UNCHANGED <<job, offset, shown, file, steady>> /\ PageType' /\ pc'[c] = "ended"
        /\ \A d \in Calls \ {c} : pc'[d] = pc[d] /\ outcome'[d] = outcome[d]
    BY <1>0, <1>6 DEF ReadNoText, Ends, readVars, fileVars, PageType
  <2>2. steady[c] = NoFile
    BY <1>0, <1>6 DEF ReadNoText, PageOf
  <2>3. ASSUME NEW d \in Calls, Is(d, "read") PROVE PageOf(d)'
    BY <1>0, <2>1, <2>2, <2>3 DEF PageOf
  <2> QED
    BY <2>1, <2>3 DEF PageInv, Is
<1>7. ASSUME NEW c \in Calls, Fork(c) \/ Output(c) \/ Exit(c) \/ BackgroundEnds(c) \/ Drain(c)
      PROVE PageInv'
  <2>1. UNCHANGED <<job, pc, outcome, offset, shown, file, steady>> /\ PageType'
    BY <1>0, <1>7 DEF Fork, Output, Exit, BackgroundEnds, Drain, readVars, fileVars, PageType
  <2> QED
    BY <2>1, PageSilent
<1>8. ASSUME NEW c \in Calls, Cancel(c) PROVE PageInv'
  <2>1. /\ UNCHANGED <<job, offset, shown, file, steady>> /\ PageType'
        /\ pc'[c] = "ended" /\ outcome'[c] = "cancelled"
        /\ pc[c] # "start" /\ pc[c] # "ended"
        /\ \A d \in Calls \ {c} : pc'[d] = pc[d] /\ outcome'[d] = outcome[d]
    BY <1>0, <1>8 DEF Cancel, Ends, readVars, PageType
  <2>2. Is(c, "read") => pc[c] = "reading"
    BY <1>0, <2>1 DEF PageOf
  <2> QED
    BY <2>1, <2>2, PageSilent
<1>9. CASE UNCHANGED vars
  <2>1. UNCHANGED <<job, pc, outcome, offset, shown, file, steady>>
    BY <1>9 DEF vars, readVars, fileVars
  <2> QED
    BY <1>0, <2>1 DEF PageInv, PageType, PageOf, Is
<1> QED
  BY <1>1, <1>2, <1>3, <1>4, <1>5, <1>6, <1>7, <1>8, <1>9, PageShown
     DEF Next, Thread, CallStep, Command

\* A model that pages through a file nobody changes meanwhile sees each of its
\* lines once, in order, and comes to its end, whatever the limits it passes and
\* however long the lines are (_read's last line and notice).
THEOREM PagesCoverFileAlways == Spec => []PagesCoverFile
<1>1. PageInv => PagesCoverFile
  BY DEF PageInv, PageOf, PagesCoverFile
<1> QED
  BY <1>1, EditInit, EditStep, PageInit, PageStep, PTL DEF Spec

=============================================================================
