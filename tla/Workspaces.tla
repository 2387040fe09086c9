------------------------------ MODULE Workspaces ------------------------------
(***************************************************************************)
(* The calls of a batch in one local workspace: Read, Write and Edit on a  *)
(* file (workspace/tools.py), whose reads and writes run in threads that a *)
(* cancelled call leaves running, and Bash commands (workspace/local.py)   *)
(* with what they start: processes of their group, and ones that left it.  *)
(* A file is a sequence of lines, or one of the values that are no text.   *)
(***************************************************************************)
EXTENDS Integers, Sequences, FiniteSets, FiniteSetsExt, SequencesExt

CONSTANTS
  Calls,
  Lines,      \* the lines files are made of
  Jobs,       \* what a call may be: see Init
  Contents,   \* what the file may hold at first
  NoFile,     \* there is no file, or it is a directory
  Binary,     \* a file that is no text
  Picture, BigPicture, \* an image, and one past _READ_MAX_IMAGE_BYTES
  Size(_),    \* characters of a line
  LineCap,    \* _READ_MAX_LINE_CHARS
  CharCap,    \* _READ_MAX_CHARS
  Limits,     \* what the model may pass as limit, the default among it
  MaxOutput   \* pieces a command writes

VARIABLES
  job, pc,    \* each call, and where it is
  outcome,    \* "none", "done", "error", "timed out", "cancelled"
  file,       \* the file
  thread,     \* each call's writing thread: "none", "open", "write", "over"
  data,       \* what it writes
  log,        \* history: the edits and writes that read or began, and ended
  offset,     \* the line each Read goes on from
  shown,      \* history: the lines it has shown
  steady,     \* history: the file as it was when it started, NoFile if it changed
  shell, kids, strays, \* whether the command's shell, its group, and what left
                       \* the group, are alive
  written, got \* pieces in the pipe so far, and read from it

fileVars == <<file, thread, data, log, steady>>
readVars == <<offset, shown>>
execVars == <<shell, kids, strays, written, got>>
vars == <<job, pc, outcome, fileVars, readVars, execVars>>

Init ==
  /\ job \in [Calls -> Jobs] /\ pc = [c \in Calls |-> "start"]
  /\ outcome = [c \in Calls |-> "none"]
  /\ file \in Contents
  /\ thread = [c \in Calls |-> "none"] /\ data = [c \in Calls |-> <<>>] /\ log = <<>>
  /\ offset = [c \in Calls |-> 1] /\ shown = [c \in Calls |-> <<>>]
  /\ steady = [c \in Calls |-> NoFile]
  /\ shell = [c \in Calls |-> FALSE] /\ kids = shell /\ strays = shell
  /\ written = [c \in Calls |-> 0] /\ got = written

Ends(c, how) ==
  /\ pc' = [pc EXCEPT ![c] = "ended"] /\ outcome' = [outcome EXCEPT ![c] = how]
Go(c, to) == pc' = [pc EXCEPT ![c] = to] /\ UNCHANGED outcome

Is(c, kind) == job[c].kind = kind
-----------------------------------------------------------------------------
\* A call starts; arguments that are missing, and a run without a workspace,
\* are refused.
Start(c) ==
  /\ pc[c] = "start"
  /\ CASE Is(c, "bash") -> Go(c, "env") /\ UNCHANGED <<fileVars, readVars, execVars>>
       [] Is(c, "write") ->
            /\ Go(c, "writing") /\ thread' = [thread EXCEPT ![c] = "open"]
            /\ data' = [data EXCEPT ![c] = job[c].text]
            /\ UNCHANGED <<file, log, steady, readVars, execVars>>
       [] OTHER -> Go(c, "reading") /\ UNCHANGED <<fileVars, readVars, execVars>>
  /\ UNCHANGED job

Refuse(c) ==
  /\ pc[c] = "start"
  /\ Ends(c, "error")
  /\ UNCHANGED <<job, fileVars, readVars, execVars>>

\* run_command: the hook for the command's environment may take its time, and
\* raise; a blank command is refused.
RunCommand(c) ==
  /\ pc[c] = "env"
  /\ \/ Go(c, "waiting") /\ shell' = [shell EXCEPT ![c] = TRUE]
     \/ Ends(c, "error") /\ UNCHANGED shell
  /\ UNCHANGED <<job, fileVars, readVars, kids, strays, written, got>>

\* What can be read as text: an image has a NUL among its first bytes.
IsText(content) == content \notin {NoFile, Binary, Picture, BigPicture}

ASSUME TextsAssumption ==
  /\ \A content \in Contents : IsText(content) => content \in Seq(Lines)
  /\ \A j \in Jobs : /\ j.kind = "write" => j.text \in Seq(Lines)
                     /\ j.kind = "edit" => j.new \in Lines

Occurrences(text, line) == {i \in DOMAIN text : text[i] = line}

\* Mutant: several occurrences are no error.
MayEdit_First(text, edit) == Occurrences(text, edit.old) # {}

MayEdit(text, edit) ==
  /\ edit.old # edit.new
  /\ Occurrences(text, edit.old) # {}
  /\ Cardinality(Occurrences(text, edit.old)) = 1 \/ edit.all

Edited(text, edit) ==
  LET spots == Occurrences(text, edit.old)
      due == IF edit.all THEN spots ELSE {Min(spots)}
  IN [i \in DOMAIN text |-> IF i \in due THEN edit.new ELSE text[i]]

\* _edit has read the file.
ReadForEdit(c) ==
  /\ pc[c] = "reading" /\ Is(c, "edit")
  /\ IF ~IsText(file) \/ ~MayEdit(file, job[c])
     THEN Ends(c, "error") /\ UNCHANGED fileVars
     ELSE /\ data' = [data EXCEPT ![c] = Edited(file, job[c])]
          /\ log' = Append(log, [call |-> c, what |-> "read", text |-> file])
          /\ thread' = [thread EXCEPT ![c] = "open"]
          /\ Go(c, "writing") /\ UNCHANGED <<file, steady>>
  /\ UNCHANGED <<job, readVars, execVars>>

Changed == [d \in Calls |-> NoFile]

\* write_bytes empties the file, then fills it; a cancelled call's thread does
\* too, once it has started.
OpenFile(c) ==
  /\ thread[c] = "open"
  /\ thread' = [thread EXCEPT ![c] = "write"]
  /\ file' = <<>> /\ steady' = Changed
  /\ UNCHANGED <<job, pc, outcome, data, log, readVars, execVars>>

FillFile(c) ==
  /\ thread[c] = "write"
  /\ thread' = [thread EXCEPT ![c] = "over"]
  /\ file' = data[c] /\ steady' = Changed
  /\ log' = Append(log, [call |-> c, what |-> "wrote", text |-> data[c]])
  /\ UNCHANGED <<job, pc, outcome, data, readVars, execVars>>

Wrote(c) ==
  /\ pc[c] = "writing" /\ thread[c] = "over"
  /\ Ends(c, "done")
  /\ UNCHANGED <<job, fileVars, readVars, execVars>>
-----------------------------------------------------------------------------
\* What a line takes in a page: it is cut, numbered and ended.
Rendered(line) == (IF Size(line) > LineCap THEN LineCap ELSE Size(line)) + 2
ASSUME PagesAssumption == CharCap >= LineCap + 2 /\ \A limit \in Limits : limit > 0

\* The last line of a page: limit lines from offset, as far as they fit.
LastShown(text, first, limit) ==
  LET Size_(n) == FoldLeft(LAMBDA total, line : total + Rendered(line), 0, SubSeq(text, first, n))
  IN Max({first - 1} \cup {n \in first..Len(text) : n < first + limit /\ Size_(n) <= CharCap})

\* Mutant: the model is told to go on after limit lines.
NextOffset_ByLimit(text, first, limit) == first + limit

NextOffset(text, first, limit) == LastShown(text, first, limit) + 1

\* _read has the file and shows a page of it; the model reads on from where
\* the page says, until there is no more. An offset past the end of a file that
\* got shorter is an error.
ReadPage(c, limit) ==
  /\ pc[c] = "reading" /\ Is(c, "read")
  /\ IsText(file)
  /\ IF file # <<>> /\ offset[c] > Len(file)
     THEN Ends(c, "error") /\ UNCHANGED <<readVars, steady>>
     ELSE LET last == LastShown(file, offset[c], limit) IN
          /\ shown' = [shown EXCEPT ![c] = @ \o SubSeq(file, offset[c], last)]
          /\ offset' = [offset EXCEPT ![c] = NextOffset(file, offset[c], limit)]
          /\ steady' = [steady EXCEPT ![c] = IF offset[c] = 1 THEN file ELSE @]
          /\ IF last < Len(file) THEN Go(c, "reading") ELSE Ends(c, "done")
  /\ UNCHANGED <<job, file, thread, data, log, execVars>>

\* An image comes whole or not at all; of anything else there is nothing to see.
ReadNoText(c) ==
  /\ pc[c] = "reading" /\ Is(c, "read")
  /\ ~IsText(file)
  /\ Ends(c, IF file = Picture THEN "done" ELSE "error")
  /\ UNCHANGED <<job, fileVars, readVars, execVars>>
-----------------------------------------------------------------------------
Holding(c) == shell[c] \/ kids[c] \/ strays[c]

\* The command, while its shell runs: it starts processes in the background,
\* some of which leave its group, and exits. Whoever lives may write.
Fork(c) ==
  /\ shell[c]
  /\ \/ ~kids[c] /\ kids' = [kids EXCEPT ![c] = TRUE] /\ UNCHANGED strays
     \/ ~strays[c] /\ strays' = [strays EXCEPT ![c] = TRUE] /\ UNCHANGED kids
  /\ UNCHANGED <<job, pc, outcome, fileVars, readVars, shell, written, got>>
Output(c) ==
  /\ Holding(c) /\ written[c] < MaxOutput
  /\ written' = [written EXCEPT ![c] = @ + 1]
  /\ UNCHANGED <<job, pc, outcome, fileVars, readVars, shell, kids, strays, got>>
Exit(c) ==
  /\ shell[c] /\ shell' = [shell EXCEPT ![c] = FALSE]
  /\ UNCHANGED <<job, pc, outcome, fileVars, readVars, kids, strays, written, got>>
BackgroundEnds(c) ==
  /\ \/ kids[c] /\ kids' = [kids EXCEPT ![c] = FALSE] /\ UNCHANGED strays
     \/ strays[c] /\ strays' = [strays EXCEPT ![c] = FALSE] /\ UNCHANGED kids
  /\ UNCHANGED <<job, pc, outcome, fileVars, readVars, shell, written, got>>

\* The tasks that drain the pipe.
Drain(c) ==
  /\ pc[c] \in {"waiting", "killed", "draining"} /\ got[c] < written[c]
  /\ got' = [got EXCEPT ![c] = @ + 1]
  /\ UNCHANGED <<job, pc, outcome, fileVars, readVars, shell, kids, strays, written>>

\* Mutant: the shell alone is killed.
KillGroup_Shell(c) == shell' = [shell EXCEPT ![c] = FALSE] /\ UNCHANGED kids

\* _kill_group: the shell and its group.
KillGroup(c) == shell' = [shell EXCEPT ![c] = FALSE] /\ kids' = [kids EXCEPT ![c] = FALSE]

\* proc.wait() returns.
Waited(c) ==
  /\ pc[c] = "waiting" /\ ~shell[c]
  /\ Go(c, "draining")
  /\ UNCHANGED <<job, fileVars, readVars, execVars>>

\* Mutant: the wait has no limit.
TimesOut_Never(c) == pc[c] = "timeout" /\ UNCHANGED vars

\* The timeout strikes first and the group is killed; the shell may have exited
\* unnoticed.
TimesOut(c) ==
  /\ pc[c] = "waiting"
  /\ KillGroup(c) /\ Go(c, "killed")
  /\ UNCHANGED <<job, fileVars, readVars, strays, written, got>>

\* Mutant: what was read before the kill is lost, and nobody waits for more.
Drained_AtKill(c) == pc[c] = "killed" \/ (got[c] = written[c] /\ ~Holding(c))

\* Both pipes have reached their end.
Drained(c) == got[c] = written[c] /\ ~Holding(c)

\* exec returns; an exit code is information, a timeout an error.
Returns(c) ==
  /\ pc[c] \in {"draining", "killed"} /\ Drained(c)
  /\ Ends(c, IF pc[c] = "killed" THEN "timed out" ELSE "done")
  /\ UNCHANGED <<job, fileVars, readVars, execVars>>

\* A call is cancelled at an await: a thread that has started goes on, one that
\* waits for its turn may never start, and a command is killed if its shell is
\* being waited for.
Cancel(c) ==
  /\ pc[c] \in {"env", "reading", "writing", "waiting", "killed", "draining"}
  /\ Ends(c, "cancelled")
  /\ IF pc[c] = "waiting" THEN KillGroup(c) ELSE UNCHANGED <<shell, kids>>
  /\ \/ thread[c] = "open" /\ thread' = [thread EXCEPT ![c] = "none"]
     \/ UNCHANGED thread
  /\ UNCHANGED <<job, file, data, log, steady, readVars, strays, written, got>>

Thread(c) == OpenFile(c) \/ FillFile(c)
CallStep(c) ==
  \/ Start(c) \/ Refuse(c) \/ RunCommand(c) \/ ReadForEdit(c) \/ Wrote(c) \/ ReadNoText(c)
  \/ \E limit \in Limits : ReadPage(c, limit)
  \/ Drain(c) \/ Waited(c) \/ Returns(c)
Command(c) == Fork(c) \/ Output(c) \/ Exit(c)

Next == \E c \in Calls : Thread(c) \/ CallStep(c) \/ TimesOut(c) \/ Command(c) \/ BackgroundEnds(c) \/ Cancel(c)

\* The loop, its threads and its timers are scheduled. A command need not do
\* anything, nor end, and nor need what it left behind in the background.
Spec ==
  /\ Init /\ [][Next]_vars
  /\ \A c \in Calls : WF_vars(Thread(c)) /\ WF_vars(CallStep(c)) /\ WF_vars(TimesOut(c))
-----------------------------------------------------------------------------
\* A command that timed out is dead with all of its group when its result goes
\* to the model, and so is the shell of one that was cancelled (_kill_group); and
\* what a command printed is in its result, all of it, though it was killed while
\* its output was being read (the reader tasks of exec).
ResultIsFinal ==
  \A c \in Calls : Is(c, "bash") =>
    /\ pc[c] = "killed" \/ outcome[c] = "timed out" => ~shell[c] /\ ~kids[c]
    /\ outcome[c] = "cancelled" => ~shell[c]
    /\ outcome[c] \in {"done", "timed out"} => got[c] = written[c]

\* What alone holds the pipe: processes the command left in the background, and
\* when the group was killed only ones that had left the group.
LeftBehind(c) == ~shell[c] /\ (strays[c] \/ (kids[c] /\ pc[c] = "draining"))

\* A command that never ends by itself still returns, for the timeout ends the
\* wait, and its whole group with it; but what it left in the background holds
\* the call for as long as it lives, which no timeout ends (the readers of exec).
ExecReturns == \A c \in Calls : pc[c] = "waiting" ~> pc[c] = "ended" \/ []LeftBehind(c)

\* Edits and writes that did not overlap compose: each edit starts from the
\* text the one before left, and changes exactly the lines it named, one line
\* that is the only one or all of them (_edit).
EditsCompose ==
  LET Entry(i, what) == log[i].what = what
      serial == \A i \in 1..(Len(log) - 1) : Entry(i, "read") => log[i + 1].call = log[i].call
      Exact(c, before, after) ==
        LET changed == {i \in DOMAIN before : before[i] # after[i]} IN
        /\ Len(before) = Len(after)
        /\ \A i \in changed : before[i] = job[c].old /\ after[i] = job[c].new
        /\ IF job[c].all THEN \A i \in DOMAIN before : after[i] # job[c].old
           ELSE Cardinality(changed) = 1 /\ changed = Occurrences(before, job[c].old)
  IN serial =>
       \A i \in 2..Len(log) :
         /\ Entry(i, "read") => log[i].text = log[i - 1].text
         /\ Entry(i - 1, "read") => Exact(log[i].call, log[i - 1].text, log[i].text)

\* A model that pages through a file nobody changes meanwhile sees each of its
\* lines once, in order, and comes to its end (_read's last line and notice).
PagesCoverFile ==
  \A c \in Calls :
    Is(c, "read") /\ steady[c] # NoFile =>
      /\ IsPrefix(shown[c], steady[c])
      /\ outcome[c] = "done" => shown[c] = steady[c]
      /\ outcome[c] # "error"
=============================================================================
