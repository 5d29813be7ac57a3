---------------------------- MODULE StartupFile ----------------------------
(***************************************************************************)
(* The file of lines that are run when the client starts: a line is added  *)
(* to it or taken out of it (owl_function_addstartup, _delstartup, and     *)
(* owl_util_file_deleteline in util.c), and the client may die while it is *)
(* rewritten.  What is written reaches the disk in full or the client is   *)
(* gone.                                                                   *)
(***************************************************************************)
EXTENDS Subsequences, SequencesExt

CONSTANTS Lines,       \* lines that are added and removed
          LowerCase(_),   \* a line without regard to case
          FirstFile,   \* what the user has written in the file
          MaxStartups  \* bound: the commands given

NoFile == <<"no such file">>

ASSUME StartupAssumption ==
  /\ NoFile[1] \notin Lines
  /\ FirstFile = NoFile \/ (FirstFile \in Seq(ToSet(FirstFile)) /\ NoFile[1] \notin ToSet(FirstFile))

VARIABLES disk,        \* the file, its new version and its backup
          job,         \* the command that is being run
          wanted,      \* the lines the file should have, without regard to case
          given        \* commands given

startupVars == <<disk, job, wanted, given>>

-----------------------------------------------------------------------------
NoJob  == [what |-> "none", line |-> "", step |-> "", read |-> <<>>]
Folded(lines) == IF lines = NoFile THEN {} ELSE {LowerCase(l) : l \in ToSet(lines)}
Same(l, m) == LowerCase(l) = LowerCase(m)
SameLines(file, line) == {l \in ToSet(file) : Same(l, line)}

StartupInit ==
  /\ disk = [file |-> FirstFile, new |-> NoFile, backup |-> NoFile]
  /\ job = NoJob /\ wanted = Folded(FirstFile) /\ given = 0

AtStep(step) == job.step = step
Goto(step) == job' = [job EXCEPT !.step = step]
(* The deletion is over, whether it succeeded or not. *)
Deleted == IF job.what = "startup" THEN "append" ELSE "done"

(* "startup" runs the line and adds it, "unstartup" removes it.            *)
Startup(line) ==
  /\ job = NoJob /\ given < MaxStartups /\ given' = given + 1
  /\ job' = [what |-> "startup", line |-> line, read |-> <<>>,
             step |-> IF disk.file = NoFile THEN "append" ELSE "open"]
  /\ UNCHANGED <<disk, wanted>>
Unstartup(line) ==
  /\ job = NoJob /\ given < MaxStartups /\ given' = given + 1
  /\ job' = [what |-> "unstartup", line |-> line, read |-> <<>>, step |-> "open"]
  /\ wanted' = wanted \ {LowerCase(line)}
  /\ UNCHANGED disk

(* owl_util_file_deleteline: the old file is opened, the new one emptied,  *)
(* filled, closed; the backup is made a link to the old one; the new one   *)
(* takes its place.  A step that fails removes the new one.                *)
OpenFiles ==
  /\ AtStep("open")
  /\ \/ /\ disk.file # NoFile
        /\ disk' = [disk EXCEPT !.new = <<>>]
        /\ job' = [job EXCEPT !.step = "copy", !.read = disk.file]
     \/ UNCHANGED disk /\ Goto(Deleted)
  /\ UNCHANGED <<wanted, given>>
CopyOthers ==
  /\ AtStep("copy")
  /\ disk' = [disk EXCEPT !.new = Without(job.read, SameLines(job.read, job.line))]
  /\ Goto("unlink") /\ UNCHANGED <<wanted, given>>
UnlinkBackup ==
  /\ AtStep("unlink") /\ disk' = [disk EXCEPT !.backup = NoFile]
  /\ Goto("link") /\ UNCHANGED <<wanted, given>>
MoveToBackup ==
  /\ AtStep("link")
  /\ \/ disk' = [disk EXCEPT !.file = NoFile, !.backup = disk.file] /\ Goto("rename")
     \/ disk' = [disk EXCEPT !.new = NoFile] /\ Goto(Deleted)
  /\ UNCHANGED <<wanted, given>>
LinkBackup ==
  /\ AtStep("link")
  /\ \/ disk' = [disk EXCEPT !.backup = disk.file] /\ Goto("rename")
     \/ disk' = [disk EXCEPT !.new = NoFile] /\ Goto(Deleted)
  /\ UNCHANGED <<wanted, given>>

RenameNew ==
  /\ AtStep("rename")
  /\ disk' \in {[disk EXCEPT !.file = disk.new, !.new = NoFile], [disk EXCEPT !.new = NoFile]}
  /\ Goto(Deleted) /\ UNCHANGED <<wanted, given>>
AppendLine ==
  /\ AtStep("append")
  /\ \/ /\ disk' = [disk EXCEPT !.file = IF @ = NoFile THEN <<job.line>> ELSE Append(@, job.line)]
        /\ wanted' = wanted \cup {LowerCase(job.line)} /\ Goto("done")
     \/ UNCHANGED <<disk, wanted>> /\ Goto("failed")
  /\ UNCHANGED given

(* The error, if there was one, has been shown: the file is as it is.      *)
JobEnds ==
  /\ job.step \in {"done", "failed"} /\ job' = NoJob
  /\ wanted' = Folded(disk.file)
  /\ UNCHANGED <<disk, given>>

(* The client dies, and is started again: the user goes on from the file.  *)
ClientDies ==
  /\ job # NoJob /\ job' = NoJob /\ wanted' = Folded(disk.file) /\ UNCHANGED <<disk, given>>

StartupNext ==
  \/ \E l \in Lines : Startup(l) \/ Unstartup(l)
  \/ OpenFiles \/ CopyOthers \/ UnlinkBackup \/ LinkBackup \/ RenameNew \/ AppendLine
  \/ JobEnds \/ ClientDies

-----------------------------------------------------------------------------
(* Whenever the client dies, and whichever step fails, every line that is  *)
(* to stay in the file is in it, and the one that is being added again is  *)
(* there or in the backup; a command that has done what it is for leaves   *)
(* one copy of the line, or none.                                          *)
LinesSurvive ==
  /\ wanted \ {LowerCase(job.line)} \subseteq Folded(disk.file)
  /\ wanted \subseteq Folded(disk.file) \cup Folded(disk.backup)
  /\ AtStep("done") /\ job.what = "startup" =>
       \E i \in DOMAIN disk.file : Same(disk.file[i], job.line)
=============================================================================
