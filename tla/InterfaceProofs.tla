---------------------------- MODULE InterfaceProofs ----------------------------
(***************************************************************************)
(* What holds of the client's own state whatever the user has written and  *)
(* however long the client runs: no line of the startup file is lost       *)
(* (StartupFile), no redraw of a window (Window), no editor, key or typed  *)
(* text (Contexts), and no setting is used or printed otherwise than it    *)
(* was set (Variables).                                                    *)
(***************************************************************************)
EXTENDS StartupFile, Window, Contexts, Variables, FmtextCache, SubsequencesProofs

-----------------------------------------------------------------------------
(* StartupFile: a file is rewritten while the client may die.              *)
StartupSpec == StartupInit /\ [][StartupNext]_startupVars

(* All lines there are: the user's, and those added.                       *)
AllLines == Lines \cup (IF FirstFile = NoFile THEN {} ELSE ToSet(FirstFile))

JobWhat == {"none", "startup", "unstartup"}
JobSteps == {"", "open", "copy", "unlink", "link", "rename", "append", "done", "failed"}

FileTypes ==
  /\ disk \in [file : Seq(AllLines) \cup {NoFile}, new : Seq(AllLines) \cup {NoFile},
               backup : Seq(AllLines) \cup {NoFile}]
  /\ DOMAIN job = {"what", "line", "step", "read"}
  /\ job.what \in JobWhat /\ job.step \in JobSteps
  /\ job.what = "none" => job = NoJob
  /\ job # NoJob => job.what \in {"startup", "unstartup"} /\ job.line \in Lines /\ job.step # ""

(* What the file has at each step of a command.  A line that is being      *)
(* added is taken out first: from "append" on it may be in the backup only.*)
FileInv ==
  /\ job.step \in {"", "open", "copy", "unlink", "link", "rename"} => wanted \subseteq Folded(disk.file)
  /\ job.step = "copy" => job.read = disk.file
  /\ job.step \in {"copy", "unlink", "link", "rename"} => disk.file # NoFile
  /\ job.step \in {"unlink", "link", "rename"} =>
       /\ disk.new # NoFile
       /\ Folded(disk.new) = Folded(disk.file) \ {LowerCase(job.line)}
  /\ job.step = "rename" => disk.backup = disk.file
  /\ job.what = "unstartup" => LowerCase(job.line) \notin wanted
  /\ job.step = "append" => job.what = "startup"

StartupInv == FileTypes /\ FileInv /\ LinesSurvive

(* NoFile is no file of lines.                                             *)
LEMMA FilesAreFiles == NoFile \notin Seq(AllLines)
<1>1. NoFile[1] \notin AllLines  BY StartupAssumption DEF AllLines
<1>2. Len(NoFile) = 1  BY DEF NoFile
<1>. QED  BY <1>1, <1>2, ElementOfSeq

(* What the lines of a file are without regard to case, when a line is     *)
(* appended or those like it are left out.                                 *)
LEMMA FoldedLines ==
  ASSUME NEW file \in Seq(AllLines), NEW line \in Lines
  PROVE  /\ Append(file, line) \in Seq(AllLines)
         /\ Folded(Append(file, line)) = Folded(file) \cup {LowerCase(line)}
         /\ Without(file, SameLines(file, line)) \in Seq(AllLines)
         /\ Folded(Without(file, SameLines(file, line))) = Folded(file) \ {LowerCase(line)}
<1>1. line \in AllLines  BY DEF AllLines
<1>2. PICK more : more = Append(file, line)  OBVIOUS
<1>3. PICK less : less = Without(file, SameLines(file, line))  OBVIOUS
<1>4. more \in Seq(AllLines) /\ ToSet(more) = ToSet(file) \cup {line}
  BY <1>1, <1>2, AppendProperties, ElementsOfAppend
<1>5. less \in Seq(AllLines) /\ ToSet(less) = ToSet(file) \ SameLines(file, line)
  BY <1>3, WithoutElements
<1>6. file # NoFile /\ more # NoFile /\ less # NoFile  BY <1>4, <1>5, FilesAreFiles
<1>7. Folded(more) = Folded(file) \cup {LowerCase(line)}  BY <1>4, <1>6 DEF Folded
<1>8. Folded(less) = Folded(file) \ {LowerCase(line)}
  BY <1>5, <1>6 DEF Folded, SameLines, Same
<1>. QED  BY <1>2, <1>3, <1>4, <1>5, <1>7, <1>8

(* Nothing is wanted of no file, and all of one line of a file of it.      *)
LEMMA FoldedNone ==
  ASSUME NEW line \in Lines
  PROVE  /\ Folded(NoFile) = {} /\ <<line>> \in Seq(AllLines)
         /\ Folded(<<line>>) = {LowerCase(line)} /\ ToSet(<<line>>) = {line}
<1>1. line \in AllLines  BY DEF AllLines
<1>2. <<line>> \in Seq(AllLines)  BY <1>1
<1>3. <<line>> # NoFile  BY <1>2, FilesAreFiles
<1>4. ToSet(<<line>>) = {line}  BY DEF ToSet
<1>. QED  BY <1>2, <1>3, <1>4 DEF Folded

(* Between commands there is no step to take.                              *)
LEMMA NoJobNoStep == NoJob.step = "" /\ NoJob.what = "none"
BY DEF NoJob

(* A command begins, with all that is wanted in the file.                  *)
LEMMA CommandBegins ==
  ASSUME StartupInv, NEW line \in Lines, Startup(line) \/ Unstartup(line)
  PROVE  StartupInv'
<1>1. job = NoJob /\ wanted \subseteq Folded(disk.file) /\ disk' = disk
  BY NoJobNoStep DEF Startup, Unstartup, StartupInv, FileInv
<1>2. CASE Startup(line)
  <2>1. /\ job' = [what |-> "startup", line |-> line, read |-> <<>>,
                   step |-> IF disk.file = NoFile THEN "append" ELSE "open"]
        /\ wanted' = wanted
    BY <1>2 DEF Startup
  <2>2. FileTypes'  BY <1>1, <2>1 DEF StartupInv, FileTypes, JobWhat, JobSteps, NoJob
  <2>3. FileInv'  BY <1>1, <2>1 DEF FileInv, Folded
  <2>4. LinesSurvive'  BY <1>1, <2>1 DEF LinesSurvive, AtStep, Folded
  <2>. QED  BY <2>2, <2>3, <2>4 DEF StartupInv
<1>3. CASE Unstartup(line)
  <2>1. /\ job' = [what |-> "unstartup", line |-> line, read |-> <<>>, step |-> "open"]
        /\ wanted' = wanted \ {LowerCase(line)}
    BY <1>3 DEF Unstartup
  <2>2. FileTypes'  BY <1>1, <2>1 DEF StartupInv, FileTypes, JobWhat, JobSteps, NoJob
  <2>3. FileInv'  BY <1>1, <2>1 DEF FileInv, Folded
  <2>4. LinesSurvive'  BY <1>1, <2>1 DEF LinesSurvive, AtStep, Folded
  <2>. QED  BY <2>2, <2>3, <2>4 DEF StartupInv
<1>. QED  BY <1>2, <1>3

(* What is wanted of the file when a deletion is over is there, but for    *)
(* the line that was to be taken out.                                      *)
LEMMA DeletionEnds ==
  ASSUME StartupInv, job.step \in {"open", "link", "rename"}, Goto(Deleted),
         disk' \in [file : Seq(AllLines) \cup {NoFile}, new : Seq(AllLines) \cup {NoFile},
                    backup : Seq(AllLines) \cup {NoFile}],
         UNCHANGED wanted, Folded(disk.file) \ {LowerCase(job.line)} \subseteq Folded(disk'.file),
         Folded(disk.file) \subseteq Folded(disk'.file) \cup Folded(disk'.backup)
  PROVE  StartupInv'
<1>1. /\ job.what \in {"startup", "unstartup"} /\ job.line \in Lines /\ job # NoJob
      /\ DOMAIN job = {"what", "line", "step", "read"}
      /\ wanted \subseteq Folded(disk.file)
  BY NoJobNoStep DEF StartupInv, FileTypes, FileInv
<1>2. /\ job'.what = job.what /\ job'.line = job.line
      /\ DOMAIN job' = {"what", "line", "step", "read"}
      /\ job'.step = IF job.what = "startup" THEN "append" ELSE "done"
  BY <1>1 DEF Goto, Deleted
<1>3. FileTypes'  BY <1>1, <1>2 DEF FileTypes, JobWhat, JobSteps
<1>4. FileInv'  BY <1>1, <1>2 DEF StartupInv, FileInv
<1>5. LinesSurvive'  BY <1>1, <1>2 DEF LinesSurvive, AtStep
<1>. QED  BY <1>3, <1>4, <1>5 DEF StartupInv

(* The steps of owl_util_file_deleteline.                                  *)
LEMMA DeletionKeeps ==
  ASSUME StartupInv, OpenFiles \/ CopyOthers \/ UnlinkBackup \/ LinkBackup \/ RenameNew
  PROVE  StartupInv'
<1>1. /\ job.what \in {"startup", "unstartup"} /\ job.line \in Lines /\ job # NoJob
      /\ DOMAIN job = {"what", "line", "step", "read"}
      /\ wanted \subseteq Folded(disk.file) /\ wanted' = wanted
      /\ job.step \in {"open", "copy", "unlink", "link", "rename"}
  BY NoJobNoStep
     DEF OpenFiles, CopyOthers, UnlinkBackup, LinkBackup, RenameNew, AtStep, StartupInv, FileTypes,
         FileInv
<1>2. PICK F : F = Seq(AllLines) \cup {NoFile}  OBVIOUS
<1>3. /\ disk \in [file : F, new : F, backup : F] /\ NoFile \in F
      /\ \A file \in Seq(AllLines) : file \in F
  BY <1>2 DEF StartupInv, FileTypes
<1>4. \A d : d \in [file : F, new : F, backup : F] =>
        d \in [file : Seq(AllLines) \cup {NoFile}, new : Seq(AllLines) \cup {NoFile},
              backup : Seq(AllLines) \cup {NoFile}]
  BY <1>2
<1>5. CASE OpenFiles
  <2>1. CASE /\ disk.file # NoFile /\ disk' = [disk EXCEPT !.new = <<>>]
             /\ job' = [job EXCEPT !.step = "copy", !.read = disk.file]
    <3>1. <<>> \in F  BY <1>2, EmptySeq
    <3>2. disk' \in [file : F, new : F, backup : F] /\ disk'.file = disk.file
      BY <1>3, <2>1, <3>1
    <3>3. /\ job'.what = job.what /\ job'.line = job.line /\ job'.step = "copy"
          /\ job'.read = disk.file /\ DOMAIN job' = {"what", "line", "step", "read"}
      BY <1>1, <2>1
    <3>4. FileTypes'  BY <1>1, <1>4, <3>2, <3>3 DEF FileTypes, JobWhat, JobSteps
    <3>5. FileInv'  BY <1>1, <2>1, <3>2, <3>3 DEF StartupInv, FileInv
    <3>6. LinesSurvive'  BY <1>1, <3>2, <3>3 DEF LinesSurvive, AtStep
    <3>. QED  BY <3>4, <3>5, <3>6 DEF StartupInv
  <2>2. CASE UNCHANGED disk /\ Goto(Deleted)
    BY <1>1, <1>3, <1>4, <1>5, <2>2, DeletionEnds DEF OpenFiles, AtStep
  <2>. QED  BY <1>5, <2>1, <2>2 DEF OpenFiles
<1>6. CASE CopyOthers
  <2>1. /\ job.step = "copy" /\ job.read = disk.file /\ disk.file # NoFile
        /\ disk' = [disk EXCEPT !.new = Without(job.read, SameLines(job.read, job.line))]
        /\ job' = [job EXCEPT !.step = "unlink"]
    BY <1>6 DEF CopyOthers, AtStep, Goto, StartupInv, FileInv
  <2>2. PICK file \in Seq(AllLines) : file = disk.file  BY <1>2, <1>3, <2>1
  <2>3. PICK less : less = Without(file, SameLines(file, job.line))  OBVIOUS
  <2>4. less \in Seq(AllLines) /\ Folded(less) = Folded(file) \ {LowerCase(job.line)}
    BY <1>1, <2>3, FoldedLines
  <2>5. less # NoFile  BY <2>4, FilesAreFiles
  <2>6. /\ disk' \in [file : F, new : F, backup : F] /\ disk'.file = disk.file
        /\ disk'.new = less
    BY <1>3, <2>1, <2>2, <2>3, <2>4
  <2>7. /\ job'.what = job.what /\ job'.line = job.line /\ job'.step = "unlink"
        /\ DOMAIN job' = {"what", "line", "step", "read"}
    BY <1>1, <2>1
  <2>8. FileTypes'  BY <1>1, <1>4, <2>6, <2>7 DEF FileTypes, JobWhat, JobSteps
  <2>9. FileInv'  BY <1>1, <2>1, <2>2, <2>4, <2>5, <2>6, <2>7 DEF StartupInv, FileInv
  <2>10. LinesSurvive'  BY <1>1, <2>6, <2>7 DEF LinesSurvive, AtStep
  <2>. QED  BY <2>8, <2>9, <2>10 DEF StartupInv
<1>7. CASE UnlinkBackup
  <2>1. /\ job.step = "unlink" /\ disk' = [disk EXCEPT !.backup = NoFile]
        /\ job' = [job EXCEPT !.step = "link"]
    BY <1>7 DEF UnlinkBackup, AtStep, Goto
  <2>2. /\ disk' \in [file : F, new : F, backup : F]
        /\ disk'.file = disk.file /\ disk'.new = disk.new
    BY <1>3, <2>1
  <2>3. /\ job'.what = job.what /\ job'.line = job.line /\ job'.step = "link"
        /\ DOMAIN job' = {"what", "line", "step", "read"}
    BY <1>1, <2>1
  <2>4. FileTypes'  BY <1>1, <1>4, <2>2, <2>3 DEF FileTypes, JobWhat, JobSteps
  <2>5. FileInv'  BY <1>1, <2>1, <2>2, <2>3 DEF StartupInv, FileInv
  <2>6. LinesSurvive'  BY <1>1, <2>2, <2>3 DEF LinesSurvive, AtStep
  <2>. QED  BY <2>4, <2>5, <2>6 DEF StartupInv
<1>8. CASE LinkBackup
  <2>1. CASE disk' = [disk EXCEPT !.backup = disk.file] /\ Goto("rename")
    <3>1. /\ disk' \in [file : F, new : F, backup : F] /\ disk'.backup = disk.file
          /\ disk'.file = disk.file /\ disk'.new = disk.new
      BY <1>3, <2>1
    <3>2. /\ job'.what = job.what /\ job'.line = job.line /\ job'.step = "rename"
          /\ job.step = "link" /\ DOMAIN job' = {"what", "line", "step", "read"}
      BY <1>1, <1>8, <2>1 DEF Goto, LinkBackup, AtStep
    <3>3. FileTypes'  BY <1>1, <1>4, <3>1, <3>2 DEF FileTypes, JobWhat, JobSteps
    <3>4. FileInv'  BY <1>1, <3>1, <3>2 DEF StartupInv, FileInv
    <3>5. LinesSurvive'  BY <1>1, <3>1, <3>2 DEF LinesSurvive, AtStep
    <3>. QED  BY <3>3, <3>4, <3>5 DEF StartupInv
  <2>2. CASE disk' = [disk EXCEPT !.new = NoFile] /\ Goto(Deleted)
    <3>1. disk' \in [file : F, new : F, backup : F] /\ disk'.file = disk.file
      BY <1>3, <2>2
    <3>. QED  BY <1>1, <1>4, <1>8, <2>2, <3>1, DeletionEnds DEF LinkBackup, AtStep
  <2>. QED  BY <1>8, <2>1, <2>2 DEF LinkBackup
<1>9. CASE RenameNew
  <2>1. job.step = "rename" /\ Goto(Deleted)  BY <1>9 DEF RenameNew, AtStep
  <2>2. CASE disk' = [disk EXCEPT !.file = disk.new, !.new = NoFile]
    <3>1. /\ disk' \in [file : F, new : F, backup : F]
          /\ disk'.file = disk.new /\ disk'.backup = disk.file
      BY <1>3, <2>1, <2>2 DEF StartupInv, FileInv
    <3>2. Folded(disk.new) = Folded(disk.file) \ {LowerCase(job.line)}
      BY <2>1 DEF StartupInv, FileInv
    <3>. QED  BY <1>1, <1>4, <2>1, <3>1, <3>2, DeletionEnds
  <2>3. CASE disk' = [disk EXCEPT !.new = NoFile]
    <3>1. disk' \in [file : F, new : F, backup : F] /\ disk'.file = disk.file
      BY <1>3, <2>3
    <3>. QED  BY <1>1, <1>4, <2>1, <3>1, DeletionEnds
  <2>. QED  BY <1>9, <2>2, <2>3 DEF RenameNew
<1>. QED  BY <1>5, <1>6, <1>7, <1>8, <1>9

(* The line is appended, or the file cannot be opened.                     *)
LEMMA AppendKeeps ==
  ASSUME StartupInv, AppendLine
  PROVE  StartupInv'
<1>1. /\ job.step = "append" /\ job.what = "startup" /\ job.line \in Lines /\ job # NoJob
      /\ DOMAIN job = {"what", "line", "step", "read"}
      /\ wanted \ {LowerCase(job.line)} \subseteq Folded(disk.file)
      /\ wanted \subseteq Folded(disk.file) \cup Folded(disk.backup)
  BY NoJobNoStep DEF AppendLine, AtStep, StartupInv, FileTypes, FileInv, LinesSurvive
<1>2. PICK F : F = Seq(AllLines) \cup {NoFile}  OBVIOUS
<1>3. disk \in [file : F, new : F, backup : F]
  BY <1>2 DEF StartupInv, FileTypes
<1>4. CASE UNCHANGED <<disk, wanted>> /\ Goto("failed")
  <2>1. /\ job'.what = job.what /\ job'.line = job.line /\ job'.step = "failed"
        /\ DOMAIN job' = {"what", "line", "step", "read"}
    BY <1>1, <1>4 DEF Goto
  <2>2. FileTypes'  BY <1>1, <1>4, <2>1 DEF StartupInv, FileTypes, JobWhat, JobSteps
  <2>3. FileInv'  BY <1>1, <1>4, <2>1 DEF StartupInv, FileInv
  <2>4. LinesSurvive'  BY <1>1, <1>4, <2>1 DEF LinesSurvive, AtStep
  <2>. QED  BY <2>2, <2>3, <2>4 DEF StartupInv
<1>5. CASE /\ disk' = [disk EXCEPT !.file = IF @ = NoFile THEN <<job.line>> ELSE Append(@, job.line)]
           /\ wanted' = wanted \cup {LowerCase(job.line)} /\ Goto("done")
  <2>1. PICK file : file = IF disk.file = NoFile THEN <<job.line>> ELSE Append(disk.file, job.line)
    OBVIOUS
  <2>2. /\ file \in Seq(AllLines) /\ Folded(file) = Folded(disk.file) \cup {LowerCase(job.line)}
        /\ \E i \in DOMAIN file : file[i] = job.line
    <3>1. CASE disk.file = NoFile
      <4>1. file = <<job.line>>  BY <2>1, <3>1
      <4>2. 1 \in DOMAIN file /\ file[1] = job.line  BY <4>1
      <4>. QED  BY <1>1, <3>1, <4>1, <4>2, FoldedNone
    <3>2. CASE disk.file # NoFile
      <4>1. PICK old \in Seq(AllLines) : old = disk.file  BY <1>2, <1>3, <3>2
      <4>2. file = Append(old, job.line)  BY <2>1, <3>2, <4>1
      <4>3. file \in Seq(AllLines) /\ Folded(file) = Folded(old) \cup {LowerCase(job.line)}
        BY <1>1, <4>2, FoldedLines
      <4>4. job.line \in AllLines  BY <1>1 DEF AllLines
      <4>5. ToSet(file) = ToSet(old) \cup {job.line}  BY <4>2, <4>4, ElementsOfAppend
      <4>6. \E i \in DOMAIN file : file[i] = job.line  BY <4>5 DEF ToSet
      <4>. QED  BY <4>1, <4>3, <4>6
    <3>. QED  BY <3>1, <3>2
  <2>3. /\ disk' \in [file : F, new : F, backup : F] /\ disk'.file = file
        /\ disk'.backup = disk.backup
    BY <1>2, <1>3, <1>5, <2>1, <2>2
  <2>4. /\ job'.what = job.what /\ job'.line = job.line /\ job'.step = "done"
        /\ DOMAIN job' = {"what", "line", "step", "read"}
    BY <1>1, <1>5 DEF Goto
  <2>5. FileTypes'  BY <1>1, <1>2, <2>3, <2>4 DEF FileTypes, JobWhat, JobSteps
  <2>6. FileInv'  BY <1>1, <2>4 DEF FileInv
  <2>7. LinesSurvive'
    <3>1. wanted' \subseteq Folded(disk'.file)  BY <1>1, <1>5, <2>2, <2>3
    <3>2. \E i \in DOMAIN disk'.file : Same(disk'.file[i], job'.line)
      BY <2>2, <2>3, <2>4 DEF Same
    <3>. QED  BY <3>1, <3>2 DEF LinesSurvive
  <2>. QED  BY <2>5, <2>6, <2>7 DEF StartupInv
<1>. QED  BY <1>4, <1>5 DEF AppendLine

(* A command is over, or the client with it: what is wanted from then on   *)
(* is what is there.                                                       *)
LEMMA EndKeeps ==
  ASSUME StartupInv, JobEnds \/ ClientDies
  PROVE  StartupInv'
<1>1. job' = NoJob /\ wanted' = Folded(disk.file) /\ disk' = disk
  BY DEF JobEnds, ClientDies
<1>2. FileTypes'  BY <1>1 DEF StartupInv, FileTypes, JobWhat, JobSteps, NoJob
<1>3. FileInv'  BY <1>1 DEF FileInv, NoJob, Folded
<1>4. LinesSurvive'  BY <1>1 DEF LinesSurvive, AtStep, NoJob, Folded
<1>. QED  BY <1>2, <1>3, <1>4 DEF StartupInv

(* Every line that is to stay in the file is in it after every step        *)
(* (owl_function_addstartup, owl_function_delstartup,                      *)
(* owl_util_file_deleteline), whatever the file was, wherever the client   *)
(* dies and whichever step fails.                                          *)
THEOREM NoLineIsLost == StartupSpec => []LinesSurvive
<1>1. StartupInit => StartupInv
  <2>. SUFFICES ASSUME StartupInit PROVE StartupInv  OBVIOUS
  <2>1. FirstFile \in Seq(AllLines) \cup {NoFile}  BY StartupAssumption DEF AllLines
  <2>2. FileTypes  BY <2>1 DEF StartupInit, FileTypes, JobWhat, JobSteps, NoJob
  <2>3. FileInv  BY DEF StartupInit, FileInv, NoJob
  <2>4. LinesSurvive  BY DEF StartupInit, LinesSurvive, AtStep, NoJob
  <2>. QED  BY <2>2, <2>3, <2>4 DEF StartupInv
<1>2. StartupInv /\ [StartupNext]_startupVars => StartupInv'
  <2>. SUFFICES ASSUME StartupInv, [StartupNext]_startupVars PROVE StartupInv'  OBVIOUS
  <2>1. CASE UNCHANGED startupVars
    BY <2>1 DEF startupVars, StartupInv, FileTypes, FileInv, LinesSurvive, AtStep, Folded
  <2>2. CASE StartupNext
    BY <2>2, CommandBegins, DeletionKeeps, AppendKeeps, EndKeeps DEF StartupNext
  <2>. QED  BY <2>1, <2>2
<1>3. StartupInv => LinesSurvive  BY DEF StartupInv
<1>. QED  BY <1>1, <1>2, <1>3, PTL DEF StartupSpec

-----------------------------------------------------------------------------
(* Window: the tree and its marks.                                         *)

(* Every window but the screen is in another one.                          *)
LEMMA ParentIsAWindow ==
  ASSUME NEW w \in Windows \ {Screen}
  PROVE  /\ Parent(w) \in Windows
         /\ \A p \in Windows : w \in ToSet(Children[p]) <=> p = Parent(w)
<1>1. PICK p \in Windows : \A q \in Windows : w \in ToSet(Children[q]) <=> q = p
  BY TreeAssumption
<1>. QED  BY <1>1 DEF Parent

LEMMA AboveIsClosed ==
  ASSUME NEW w \in Windows
  PROVE  /\ Above[w] \subseteq Windows /\ w \in Above[w] /\ Screen \in Above[w]
         /\ \A v \in Above[w] \ {Screen} : Parent(v) \in Above[w]
<1>1. \A v \in Windows \ {Screen} : Parent(v) \in Windows  BY ParentIsAWindow
<1>2. Above[w] = {u \in Windows : \A S \in SUBSET Windows :
        w \in S /\ (\A v \in S \ {Screen} : Parent(v) \in S) => u \in S}
  BY DEF Above
<1>3. Screen \in Above[w]  BY ScreenAssumption
<1>. QED  BY <1>1, <1>2, <1>3, Zenon

LEMMA AboveIsLeast ==
  ASSUME NEW w \in Windows, NEW S \in SUBSET Windows, w \in S,
         \A v \in S \ {Screen} : Parent(v) \in S
  PROVE  Above[w] \subseteq S
<1>1. Above[w] = {u \in Windows : \A T \in SUBSET Windows :
        w \in T /\ (\A v \in T \ {Screen} : Parent(v) \in T) => u \in T}
  BY DEF Above
<1>. QED  BY <1>1, Zenon

LEMMA AboveIsTransitive ==
  ASSUME NEW w \in Windows, NEW u \in Above[w]
  PROVE  Above[u] \subseteq Above[w]
<1>1. u \in Windows /\ Above[w] \in SUBSET Windows  BY AboveIsClosed
<1>2. \A v \in Above[w] \ {Screen} : Parent(v) \in Above[w]  BY AboveIsClosed
<1>. QED  BY <1>1, <1>2, AboveIsLeast, Zenon

(* What is above a window is the window and what is above its parent.      *)
LEMMA AboveUnfolds ==
  ASSUME NEW w \in Windows
  PROVE  Above[w] = IF w = Screen THEN {Screen} ELSE {w} \cup Above[Parent(w)]
<1>1. CASE w = Screen
  <2>1. Above[w] \subseteq {Screen}
    BY <1>1, AboveIsLeast
  <2>. QED  BY <1>1, <2>1, AboveIsClosed
<1>2. CASE w # Screen
  <2>1. PICK p : p = Parent(w)  OBVIOUS
  <2>2. p \in Windows  BY <1>2, <2>1, ParentIsAWindow
  <2>3. PICK S : S = {w} \cup Above[p]  OBVIOUS
  <2>4. /\ Above[p] \subseteq Windows /\ p \in Above[p]
        /\ \A v \in Above[p] \ {Screen} : Parent(v) \in Above[p]
    BY <2>2, AboveIsClosed
  <2>5. S \in SUBSET Windows /\ w \in S /\ \A v \in S \ {Screen} : Parent(v) \in S
    BY <2>1, <2>3, <2>4
  <2>6. Above[w] \subseteq S  BY <2>5, AboveIsLeast
  <2>7. w \in Above[w] /\ p \in Above[w]  BY <1>2, <2>1, AboveIsClosed
  <2>8. Above[p] \subseteq Above[w]  BY <2>7, AboveIsTransitive
  <2>. QED  BY <1>2, <2>1, <2>3, <2>6, <2>7, <2>8
<1>. QED  BY <1>1, <1>2

(* Of two windows above the same one, one is above the other: there is one *)
(* way up.                                                                 *)
LEMMA AboveIsAWay ==
  ASSUME NEW w \in Windows, NEW u \in Above[w], NEW v \in Above[w]
  PROVE  u \in Above[v] \/ v \in Above[u]
<1>1. PICK T : T = {x \in Above[w] : \A y \in Above[w] : y \in Above[x] \/ x \in Above[y]}
  OBVIOUS
<1>2. /\ Above[w] \subseteq Windows /\ w \in Above[w]
      /\ \A x \in Above[w] \ {Screen} : Parent(x) \in Above[w]
  BY AboveIsClosed
<1>3. w \in T /\ T \in SUBSET Windows  BY <1>1, <1>2
<1>4. ASSUME NEW x \in T \ {Screen}  PROVE Parent(x) \in T
  <2>1. x \in Above[w] /\ x \in Windows /\ Parent(x) \in Above[w]  BY <1>1, <1>2, <1>4
  <2>2. Above[x] = {x} \cup Above[Parent(x)]  BY <2>1, AboveUnfolds
  <2>3. Parent(x) \in Windows  BY <1>2, <2>1
  <2>4. ASSUME NEW y \in Above[w]  PROVE y \in Above[Parent(x)] \/ Parent(x) \in Above[y]
    <3>1. y \in Windows  BY <1>2, <2>4
    <3>2. CASE y \in Above[x]
      <4>1. Parent(x) \in Above[x]  BY <2>2, <2>3, AboveIsClosed
      <4>. QED  BY <2>2, <3>2, <4>1
    <3>3. CASE x \in Above[y]
      <4>. QED  BY <1>4, <3>1, <3>3, AboveIsClosed
    <3>. QED  BY <1>1, <1>4, <2>4, <3>2, <3>3
  <2>. QED  BY <1>1, <2>1, <2>4
<1>5. Above[w] \subseteq T  BY <1>3, <1>4, AboveIsLeast
<1>. QED  BY <1>1, <1>5

(* No window is in itself.                                                 *)
LEMMA NoWindowIsInItself ==
  ASSUME NEW w \in Windows \ {Screen}
  PROVE  w \notin Above[Parent(w)]
<1>1. SUFFICES ASSUME w \in Above[Parent(w)] PROVE FALSE  OBVIOUS
<1>2. PICK C : C = {x \in Above[w] : w \in Above[x]}  OBVIOUS
<1>3. /\ Above[w] \subseteq Windows /\ w \in Above[w]
      /\ \A x \in Above[w] \ {Screen} : Parent(x) \in Above[w]
  BY AboveIsClosed
<1>4. w \in C /\ C \in SUBSET Windows  BY <1>2, <1>3
<1>5. ASSUME NEW x \in C \ {Screen}  PROVE Parent(x) \in C
  <2>1. x \in Above[w] /\ x \in Windows /\ Parent(x) \in Above[w] /\ w \in Above[x]
    BY <1>2, <1>3, <1>5
  <2>2. Above[x] = {x} \cup Above[Parent(x)]  BY <2>1, <1>5, AboveUnfolds
  <2>. QED  BY <1>1, <1>2, <2>1, <2>2
<1>6. Screen \in C  BY <1>4, <1>5, AboveIsLeast, ScreenAssumption
<1>7. Above[Screen] = {Screen}  BY TreeAssumption, AboveUnfolds
<1>. QED  BY <1>2, <1>6, <1>7

(* Two windows are not in each other.                                      *)
LEMMA AboveIsAntisymmetric ==
  ASSUME NEW w \in Windows, NEW u \in Above[w], w \in Above[u]
  PROVE  u = w
<1>1. SUFFICES ASSUME u # w PROVE FALSE  OBVIOUS
<1>2. CASE w = Screen  BY <1>1, <1>2, AboveUnfolds
<1>3. CASE w # Screen
  <2>1. u \in Above[Parent(w)]  BY <1>1, <1>3, AboveUnfolds
  <2>2. Parent(w) \in Windows  BY <1>3, ParentIsAWindow
  <2>3. Above[u] \subseteq Above[Parent(w)]  BY <2>1, <2>2, AboveIsTransitive
  <2>. QED  BY <1>3, <2>3, NoWindowIsInItself
<1>. QED  BY <1>2, <1>3

(* Whether a window can be realized, and what the flags f say of the tree  *)
(* when un are unlinked, up are shown and the windows have ln lines.       *)
FlagTypes ==
  [realized : SUBSET Windows, dirty : SUBSET Windows,
   subtree : SUBSET Windows, asked : SUBSET Windows]

Belongs(f, w, un, up) ==
  Above[w] \cap un = {} /\ w \in up /\ (w = Screen \/ Parent(w) \in f.realized)

Inside(f, un, up, ln) == \A w \in f.realized : Belongs(f, w, un, up) /\ ln[w] > 0

MarksGoUp(f, un) ==
  \A v \in f.subtree \ {Screen} :
    Above[v] \cap un = {} /\ Parent(v) \in f.realized => Parent(v) \in f.subtree

MarksAgree(f, un) ==
  f.asked \subseteq f.dirty /\ f.dirty \subseteq f.subtree /\ MarksGoUp(f, un)

IsPending(f, w, un, up, ln) ==
  Belongs(f, w, un, up) /\ ln[w] > 0 /\ w \notin f.realized => w \in f.dirty

FlagsInv(f, un, up, ln) ==
  /\ f \in FlagTypes /\ Inside(f, un, up, ln) /\ MarksAgree(f, un)
  /\ \A w \in Windows : IsPending(f, w, un, up, ln)

(* Only marks in the windows ws, which are about to be marked, end there.  *)
CanMark(f, ws, up) ==
  /\ f \in FlagTypes /\ ws \in SUBSET Windows /\ ws \cap unlinked = {}
  /\ \A w \in f.realized : InTree(w)
  /\ f.asked \subseteq f.dirty /\ f.dirty \subseteq f.subtree
  /\ \A v \in f.subtree \ {Screen} :
       InTree(v) /\ Parent(v) \in f.realized =>
         \/ Parent(v) \in f.subtree
         \/ Parent(v) \in ws /\ ShouldRealize(f, Parent(v), up)

(* The windows of ws that it marks.                                        *)
Marked(f, ws, up) == {w \in ws : ShouldRealize(f, w, up)}

(* The marks owl_window_dirty leaves go up to the screen, when those below *)
(* the windows that it marks are all that did not.                         *)
LEMMA DirtyMarks ==
  ASSUME NEW f, NEW ws, NEW up, CanMark(f, ws, up)
  PROVE  /\ Dirty(f, ws, up) \in FlagTypes
         /\ Dirty(f, ws, up).realized = f.realized
         /\ Dirty(f, ws, up).dirty = f.dirty \cup Marked(f, ws, up)
         /\ Dirty(f, ws, up).asked = f.asked \cup Marked(f, ws, up)
         /\ MarksAgree(Dirty(f, ws, up), unlinked)
<1>0. /\ f \in FlagTypes /\ ws \in SUBSET Windows /\ ws \cap unlinked = {}
      /\ \A w \in f.realized : InTree(w)
      /\ f.asked \subseteq f.dirty /\ f.dirty \subseteq f.subtree
  BY DEF CanMark
<1>1. PICK ds : ds = {w \in ws : ShouldRealize(f, w, up)}  OBVIOUS
<1>2. PICK new : new = {u \in Windows : \E w \in ds \ f.dirty :
                          /\ u \in Up(w)
                          /\ \A v \in Above[w] : u \in Above[v] => v \notin f.subtree}
  OBVIOUS
<1>3. PICK g : g = [f EXCEPT !.dirty = @ \cup ds, !.asked = @ \cup ds, !.subtree = @ \cup new]
  OBVIOUS
<1>4. Dirty(f, ws, up) = g  BY <1>1, <1>2, <1>3 DEF Dirty
<1>5. /\ f.realized \in SUBSET Windows /\ f.dirty \in SUBSET Windows
      /\ f.subtree \in SUBSET Windows /\ f.asked \in SUBSET Windows
      /\ ds \in SUBSET Windows /\ new \in SUBSET Windows
  BY <1>0, <1>1, <1>2 DEF FlagTypes
<1>6. /\ g \in FlagTypes /\ g.realized = f.realized /\ g.dirty = f.dirty \cup ds
      /\ g.asked = f.asked \cup ds /\ g.subtree = f.subtree \cup new
  BY <1>0, <1>3, <1>5 DEF FlagTypes
<1>7. ASSUME NEW w \in ds  PROVE InTree(w) /\ Up(w) = Above[w]
  <2>1. w \in Windows /\ w \notin unlinked /\ ShouldRealize(f, w, up)  BY <1>0, <1>1, <1>5
  <2>2. InTree(w)
    <3>1. CASE w = Screen
      BY <2>1, <3>1, AboveUnfolds DEF InTree
    <3>2. CASE w # Screen
      <4>1. Parent(w) \in f.realized  BY <2>1, <3>2 DEF ShouldRealize
      <4>2. InTree(Parent(w))  BY <1>0, <4>1
      <4>. QED  BY <2>1, <3>2, <4>2, AboveUnfolds DEF InTree
    <3>. QED  BY <3>1, <3>2
  <2>. QED  BY <2>2 DEF Up, InTree
<1>8. ds \subseteq g.subtree
  <2>1. SUFFICES ASSUME NEW w \in ds, w \notin f.subtree PROVE w \in new
    BY <1>6
  <2>2. w \in Windows /\ w \notin f.dirty /\ w \in Up(w)  BY <1>0, <1>5, <1>7, <2>1, AboveIsClosed
  <2>3. \A v \in Above[w] : w \in Above[v] => v = w  BY <2>2, AboveIsAntisymmetric
  <2>. QED  BY <1>2, <2>1, <2>2, <2>3
<1>9. ASSUME NEW u \in new \ {Screen}, Parent(u) \notin f.subtree  PROVE Parent(u) \in new
  <2>1. PICK w \in ds \ f.dirty :
          u \in Up(w) /\ \A v \in Above[w] : u \in Above[v] => v \notin f.subtree
    BY <1>2, <1>9
  <2>2. /\ w \in Windows /\ u \in Windows /\ u \in Above[w] /\ Up(w) = Above[w]
        /\ Above[w] \subseteq Windows
    BY <1>5, <1>7, <2>1, AboveIsClosed
  <2>3. PICK p : p = Parent(u)  OBVIOUS
  <2>4. p \in Above[w] /\ p \in Windows  BY <1>9, <2>2, <2>3, AboveIsClosed
  <2>5. ASSUME NEW v \in Above[w], p \in Above[v]  PROVE v \notin f.subtree
    <3>1. v \in Windows  BY <2>2, <2>5
    <3>2. CASE u \in Above[v]  BY <2>1, <2>5, <3>2
    <3>3. CASE v \in Above[u]
      <4>1. v = u \/ v \in Above[p]  BY <1>9, <2>2, <2>3, <3>3, AboveUnfolds
      <4>2. v \in Above[p] => v = p  BY <2>4, <2>5, AboveIsAntisymmetric
      <4>3. u \in Above[u] /\ u \in Above[w]  BY <2>2, AboveIsClosed
      <4>. QED  BY <1>9, <2>1, <2>3, <4>1, <4>2, <4>3
    <3>. QED  BY <2>2, <2>5, <3>2, <3>3, AboveIsAWay
  <2>. QED  BY <1>2, <2>1, <2>2, <2>3, <2>4, <2>5
<1>10. MarksGoUp(g, unlinked)
  <2>1. SUFFICES ASSUME NEW v \in g.subtree \ {Screen}, Above[v] \cap unlinked = {},
                        Parent(v) \in g.realized
                 PROVE  Parent(v) \in g.subtree
    BY DEF MarksGoUp
  <2>2. CASE v \in new  BY <1>6, <1>9, <2>1, <2>2
  <2>3. CASE v \in f.subtree
    <3>1. Parent(v) \in f.subtree \/ Parent(v) \in ds
      BY <1>1, <1>6, <2>1, <2>3 DEF InTree, CanMark
    <3>. QED  BY <1>6, <1>8, <3>1
  <2>. QED  BY <1>6, <2>1, <2>2, <2>3
<1>11. MarksAgree(g, unlinked)  BY <1>0, <1>6, <1>8, <1>10 DEF MarksAgree
<1>. QED  BY <1>1, <1>4, <1>6, <1>11 DEF Marked

(* A window is realized: it gets a curses window, and those in it that are *)
(* shown are marked, to follow.                                            *)
LEMMA RealizeKeeps ==
  ASSUME NEW f \in FlagTypes, NEW up, NEW w \in Windows, lines \in [Windows -> Nat],
         Inside(f, unlinked, up, lines), MarksAgree(f, unlinked),
         \A v \in Windows \ {w} : IsPending(f, v, unlinked, up, lines)
  PROVE  /\ FlagsInv(Realize(f, w, up), unlinked, up, lines)
         /\ Belongs(f, w, unlinked, up) /\ lines[w] > 0 => w \in Realize(f, w, up).realized
         /\ Realize(f, w, up).realized \subseteq f.realized \cup {w}
         /\ f.realized \subseteq Realize(f, w, up).realized
<1>1. CASE w \in f.realized \cup unlinked \/ ~ShouldRealize(f, w, up) \/ lines[w] = 0
  <2>1. Realize(f, w, up) = f  BY <1>1 DEF Realize
  <2>2. w \in Above[w]  BY AboveIsClosed
  <2>3. Belongs(f, w, unlinked, up) /\ lines[w] > 0 => w \in f.realized
    BY <1>1, <2>2 DEF Belongs, ShouldRealize
  <2>. QED  BY <2>1, <2>3 DEF FlagsInv, IsPending
<1>2. CASE ~(w \in f.realized \cup unlinked \/ ~ShouldRealize(f, w, up) \/ lines[w] = 0)
  <2>1. /\ w \notin f.realized /\ w \notin unlinked /\ w \in up /\ lines[w] > 0
        /\ (w = Screen \/ Parent(w) \in f.realized)
    BY <1>2 DEF ShouldRealize
  <2>2. PICK e : e = [f EXCEPT !.realized = @ \cup {w}]  OBVIOUS
  <2>3. PICK h : h = Dirty(e, {w}, up)  OBVIOUS
  <2>4. PICK g : g = Dirty(h, LinkedIn(w) \ h.realized, up)  OBVIOUS
  <2>5. Realize(f, w, up) = g  BY <1>2, <2>2, <2>3, <2>4 DEF Realize, RealizeLater
  <2>6. /\ e \in FlagTypes /\ e.realized = f.realized \cup {w}
        /\ e.dirty = f.dirty /\ e.asked = f.asked /\ e.subtree = f.subtree
    BY <2>2 DEF FlagTypes
  <2>7. f.realized \in SUBSET Windows  BY DEF FlagTypes
  <2>8. Above[w] \cap unlinked = {}
    <3>1. CASE w = Screen  BY <2>1, <3>1, AboveUnfolds
    <3>2. CASE w # Screen
      <4>1. Above[Parent(w)] \cap unlinked = {}  BY <2>1, <3>2 DEF Inside, Belongs
      <4>. QED  BY <2>1, <3>2, <4>1, AboveUnfolds
    <3>. QED  BY <3>1, <3>2
  <2>9. \A v \in e.realized : InTree(v)  BY <2>6, <2>8 DEF Inside, Belongs, InTree
  <2>10. ShouldRealize(e, w, up)  BY <2>1, <2>6 DEF ShouldRealize
  <2>11. \A v \in e.subtree \ {Screen} :
           InTree(v) /\ Parent(v) \in e.realized =>
             \/ Parent(v) \in e.subtree
             \/ Parent(v) \in {w} /\ ShouldRealize(e, Parent(v), up)
    <3>1. SUFFICES ASSUME NEW v \in e.subtree \ {Screen}, InTree(v), Parent(v) \in e.realized,
                          Parent(v) # w
                   PROVE  Parent(v) \in e.subtree
      BY <2>10
    <3>. QED  BY <2>6, <3>1 DEF MarksAgree, MarksGoUp, InTree
  <2>12. e.asked \subseteq e.dirty /\ e.dirty \subseteq e.subtree  BY <2>6 DEF MarksAgree
  <2>13. /\ h \in FlagTypes /\ h.realized = f.realized \cup {w} /\ f.dirty \subseteq h.dirty
         /\ MarksAgree(h, unlinked)
    <3>1. {w} \in SUBSET Windows /\ {w} \cap unlinked = {}  BY <2>1
    <3>2. /\ Dirty(e, {w}, up) \in FlagTypes
          /\ Dirty(e, {w}, up).realized = e.realized
          /\ Dirty(e, {w}, up).dirty = e.dirty \cup Marked(e, {w}, up)
          /\ MarksAgree(Dirty(e, {w}, up), unlinked)
      <4>1. CanMark(e, {w}, up)  BY <2>6, <2>9, <2>11, <2>12, <3>1 DEF CanMark
      <4>. QED  BY <4>1, DirtyMarks
    <3>. QED  BY <2>3, <2>6, <3>2
  <2>14. LinkedIn(w) \subseteq Windows /\ LinkedIn(w) \cap unlinked = {}
    <3>1. Children[w] \in Seq(Windows)  BY TreeAssumption
    <3>. QED  BY <3>1 DEF LinkedIn, ToSet
  <2>15. PICK ws : ws = LinkedIn(w) \ h.realized  OBVIOUS
  <2>16. /\ g \in FlagTypes /\ g.realized = h.realized /\ MarksAgree(g, unlinked)
         /\ g.dirty = h.dirty \cup Marked(h, ws, up)
    <3>1. ws \in SUBSET Windows /\ ws \cap unlinked = {}  BY <2>14, <2>15
    <3>2. \A v \in h.realized : InTree(v)  BY <2>6, <2>9, <2>13
    <3>3. h.asked \subseteq h.dirty /\ h.dirty \subseteq h.subtree  BY <2>13 DEF MarksAgree
    <3>4. \A v \in h.subtree \ {Screen} :
            InTree(v) /\ Parent(v) \in h.realized =>
              \/ Parent(v) \in h.subtree
              \/ Parent(v) \in ws /\ ShouldRealize(h, Parent(v), up)
      <4>1. SUFFICES ASSUME NEW v \in h.subtree \ {Screen}, InTree(v), Parent(v) \in h.realized
                     PROVE  Parent(v) \in h.subtree
        OBVIOUS
      <4>. QED  BY <2>13, <4>1 DEF MarksAgree, MarksGoUp, InTree
    <3>5. /\ Dirty(h, ws, up) \in FlagTypes
          /\ Dirty(h, ws, up).realized = h.realized
          /\ Dirty(h, ws, up).dirty = h.dirty \cup Marked(h, ws, up)
          /\ MarksAgree(Dirty(h, ws, up), unlinked)
      <4>1. CanMark(h, ws, up)  BY <2>13, <3>1, <3>2, <3>3, <3>4 DEF CanMark
      <4>. QED  BY <4>1, DirtyMarks
    <3>. QED  BY <2>4, <2>15, <3>5
  <2>17. Inside(g, unlinked, up, lines)
    BY <2>1, <2>8, <2>13, <2>16 DEF Inside, Belongs
  <2>18. ASSUME NEW v \in Windows  PROVE IsPending(g, v, unlinked, up, lines)
    <3>1. SUFFICES ASSUME Belongs(g, v, unlinked, up), lines[v] > 0, v \notin g.realized
                   PROVE  v \in g.dirty
      BY DEF IsPending
    <3>2. v # w /\ v \notin f.realized  BY <2>13, <2>16, <3>1
    <3>3. CASE v = Screen \/ Parent(v) \in f.realized
      <4>1. Belongs(f, v, unlinked, up)  BY <3>1, <3>3 DEF Belongs
      <4>2. v \in f.dirty  BY <3>1, <3>2, <4>1 DEF IsPending
      <4>. QED  BY <2>13, <2>16, <4>2
    <3>4. CASE v # Screen /\ Parent(v) = w
      <4>1. v \in ToSet(Children[w])  BY <3>4, ParentIsAWindow
      <4>2. v \notin unlinked  BY <3>1, AboveIsClosed DEF Belongs
      <4>3. v \in ws  BY <2>13, <2>15, <2>16, <3>1, <4>1, <4>2 DEF LinkedIn
      <4>4. ShouldRealize(h, v, up)  BY <2>13, <3>1, <3>4 DEF ShouldRealize, Belongs
      <4>. QED  BY <2>16, <4>3, <4>4 DEF Marked
    <3>. QED  BY <2>13, <2>16, <3>1, <3>3, <3>4 DEF Belongs
  <2>. QED  BY <2>5, <2>13, <2>16, <2>17, <2>18 DEF FlagsInv
<1>. QED  BY <1>1, <1>2

(* All that a realized window is in is realized.                           *)
LEMMA RealizedAbove ==
  ASSUME NEW f \in FlagTypes, Inside(f, unlinked, shown, lines), NEW v \in f.realized
  PROVE  v \in Windows /\ Above[v] \subseteq f.realized
<1>1. v \in Windows /\ f.realized \in SUBSET Windows  BY DEF FlagTypes
<1>2. \A u \in f.realized \ {Screen} : Parent(u) \in f.realized  BY DEF Inside, Belongs
<1>. QED  BY <1>1, <1>2, AboveIsLeast

(* A window loses its curses window, with all those in it: what is left    *)
(* agrees with the tree, also when the window is then hidden or unlinked   *)
(* or those in it get new sizes, but that the window may have to come back.*)
LEMMA UnrealizeKeeps ==
  ASSUME NEW f \in FlagTypes, NEW w \in Windows, NEW un, NEW up, NEW ln, NEW as,
         FlagsInv(f, unlinked, shown, lines),
         unlinked \subseteq un, un \subseteq unlinked \cup {w},
         shown \ {w} \subseteq up, up \subseteq shown,
         \A v \in Windows \ Below(w) : ln[v] = lines[v]
  PROVE  /\ Unrealize(f, w, as) \in FlagTypes
         /\ w \notin Unrealize(f, w, as).realized
         /\ Inside(Unrealize(f, w, as), un, up, ln)
         /\ MarksAgree(Unrealize(f, w, as), un)
         /\ MarksAgree(Unrealize(f, w, as), unlinked)
         /\ \A v \in Windows \ {w} : IsPending(Unrealize(f, w, as), v, un, up, ln)
<1>1. PICK g : g = Unrealize(f, w, as)  OBVIOUS
<1>2. /\ Inside(f, unlinked, shown, lines) /\ MarksAgree(f, unlinked)
      /\ \A v \in Windows : IsPending(f, v, unlinked, shown, lines)
  BY DEF FlagsInv
<1>3. /\ f.realized \in SUBSET Windows /\ f.dirty \in SUBSET Windows
      /\ f.subtree \in SUBSET Windows /\ f.asked \in SUBSET Windows
      /\ DOMAIN f = {"realized", "dirty", "subtree", "asked"}
  BY DEF FlagTypes
<1>4. /\ g \in FlagTypes /\ g.realized = f.realized \ Below(w)
      /\ MarksAgree(g, unlinked)
      /\ \A v \in f.dirty : v \in g.dirty \/ v \in Below(w) \cap f.realized
  <2>1. CASE w \notin f.realized
    <3>1. g = f  BY <1>1, <2>1 DEF Unrealize
    <3>2. \A v \in f.realized : v \notin Below(w)
      BY <1>2, <2>1, RealizedAbove DEF Below
    <3>. QED  BY <1>2, <3>1, <3>2
  <2>2. CASE w \in f.realized
    <3>1. PICK B : B = Below(w) \cap f.realized  OBVIOUS
    <3>2. PICK h : h = [part \in DOMAIN f |-> f[part] \ B]  OBVIOUS
    <3>3. g = IF w = Screen THEN h ELSE Dirty(h, {Parent(w)}, as)
      BY <1>1, <2>2, <3>1, <3>2 DEF Unrealize
    <3>4. /\ h.realized = f.realized \ B /\ h.dirty = f.dirty \ B
          /\ h.subtree = f.subtree \ B /\ h.asked = f.asked \ B
      BY <1>3, <3>2
    <3>5. h \in FlagTypes  BY <1>3, <3>2 DEF FlagTypes
    <3>6. h.realized = f.realized \ Below(w)  BY <3>1, <3>4
    <3>7. MarksGoUp(h, unlinked)
      <4>1. SUFFICES ASSUME NEW v \in h.subtree \ {Screen}, Above[v] \cap unlinked = {},
                            Parent(v) \in h.realized
                     PROVE  Parent(v) \in h.subtree
        BY DEF MarksGoUp
      <4>2. Parent(v) \in f.subtree
        BY <1>2, <3>4, <4>1 DEF MarksAgree, MarksGoUp
      <4>. QED  BY <3>1, <3>4, <4>1, <4>2
    <3>8. MarksAgree(h, unlinked)
      BY <1>2, <3>4, <3>7 DEF MarksAgree
    <3>9. CASE w = Screen
      BY <3>1, <3>3, <3>4, <3>5, <3>6, <3>8, <3>9
    <3>10. CASE w # Screen
      <4>1. Parent(w) \in Windows /\ Parent(w) \in f.realized
        BY <1>2, <1>3, <2>2, <3>10 DEF Inside, Belongs
      <4>2. \A v \in f.realized : Above[v] \cap unlinked = {}  BY <1>2 DEF Inside, Belongs
      <4>3. {Parent(w)} \in SUBSET Windows /\ {Parent(w)} \cap unlinked = {}
        BY <4>1, <4>2, AboveIsClosed
      <4>4. \A v \in h.realized : InTree(v)  BY <3>4, <4>2 DEF InTree
      <4>5. CanMark(h, {Parent(w)}, as)
        <5>1. \A v \in h.subtree \ {Screen} :
                InTree(v) /\ Parent(v) \in h.realized => Parent(v) \in h.subtree
          BY <3>7 DEF MarksGoUp, InTree
        <5>2. h.asked \subseteq h.dirty /\ h.dirty \subseteq h.subtree
          BY <3>8 DEF MarksAgree
        <5>. QED  BY <3>5, <4>3, <4>4, <5>1, <5>2 DEF CanMark
      <4>6. /\ g \in FlagTypes /\ g.realized = h.realized /\ MarksAgree(g, unlinked)
            /\ h.dirty \subseteq g.dirty
        <5>1. g = Dirty(h, {Parent(w)}, as)  BY <3>3, <3>10
        <5>2. /\ Dirty(h, {Parent(w)}, as) \in FlagTypes
              /\ Dirty(h, {Parent(w)}, as).realized = h.realized
              /\ Dirty(h, {Parent(w)}, as).dirty =
                   h.dirty \cup Marked(h, {Parent(w)}, as)
              /\ MarksAgree(Dirty(h, {Parent(w)}, as), unlinked)
          BY <4>5, DirtyMarks
        <5>. QED  BY <5>1, <5>2
      <4>. QED  BY <3>1, <3>4, <3>6, <4>6
    <3>. QED  BY <3>9, <3>10
  <2>. QED  BY <2>1, <2>2
<1>5. MarksAgree(g, un)  BY <1>4 DEF MarksAgree, MarksGoUp
<1>6. \A v \in Windows \ {Screen} : v \notin Below(w) => Parent(v) \in Windows \ Below(w)
  <2>1. SUFFICES ASSUME NEW v \in Windows \ {Screen}, v \notin Below(w)
                 PROVE  Parent(v) \in Windows /\ w \notin Above[Parent(v)]
    BY DEF Below
  <2>. QED  BY <2>1, ParentIsAWindow, AboveUnfolds DEF Below
<1>7. Inside(g, un, up, ln)
  <2>1. SUFFICES ASSUME NEW v \in g.realized
                 PROVE  Belongs(g, v, un, up) /\ ln[v] > 0
    BY DEF Inside
  <2>2. v \in f.realized /\ v \in Windows /\ v \notin Below(w)  BY <1>3, <1>4, <2>1
  <2>3. Belongs(f, v, unlinked, shown) /\ lines[v] > 0  BY <1>2, <2>2 DEF Inside
  <2>4. w \notin Above[v] /\ v # w  BY <2>2, AboveIsClosed DEF Below
  <2>5. v = Screen \/ Parent(v) \in g.realized
    BY <1>4, <1>6, <2>2, <2>3 DEF Belongs
  <2>6. Above[v] \cap un = {} /\ v \in up  BY <2>3, <2>4 DEF Belongs
  <2>7. ln[v] > 0  BY <2>2, <2>3
  <2>. QED  BY <2>5, <2>6, <2>7 DEF Belongs
<1>8. ASSUME NEW v \in Windows \ {w}  PROVE IsPending(g, v, un, up, ln)
  <2>1. SUFFICES ASSUME Belongs(g, v, un, up), ln[v] > 0, v \notin g.realized
                 PROVE  v \in g.dirty
    BY DEF IsPending
  <2>2. v \notin Below(w)
    <3>1. CASE v = Screen  BY <1>8, <3>1, AboveUnfolds DEF Below
    <3>2. CASE v # Screen
      <4>1. Parent(v) \in g.realized  BY <2>1, <3>2 DEF Belongs
      <4>2. Parent(v) \notin Below(w) /\ Parent(v) \in Windows
        BY <1>3, <1>4, <4>1
      <4>. QED  BY <1>8, <3>2, <4>2, AboveUnfolds DEF Below
    <3>. QED  BY <3>1, <3>2
  <2>3. v \notin f.realized /\ lines[v] > 0  BY <1>4, <2>1, <2>2
  <2>4. Belongs(f, v, unlinked, shown)  BY <1>4, <2>1 DEF Belongs
  <2>5. v \in f.dirty  BY <1>2, <2>3, <2>4 DEF IsPending
  <2>. QED  BY <1>4, <2>2, <2>5
<1>9. w \notin g.realized  BY <1>4, AboveIsClosed DEF Below
<1>. QED  BY <1>1, <1>4, <1>5, <1>7, <1>8, <1>9

WindowSpec == WindowInit /\ [][WindowNext]_windowVars

WindowTypes ==
  /\ unlinked \subseteq Windows \ {Screen} /\ shown \subseteq Windows
  /\ lines \in [Windows -> Nat]

(* While a redraw handler runs its window has a curses window, and no      *)
(* redraw of it is asked for that has not begun: the end of the handler    *)
(* may take it for clean.  It runs in a pass.                              *)
HandlerInv ==
  drawing \subseteq realized /\ drawing \cap asked = {} /\ (drawing # {} => agenda # <<>>)

WindowInv == WindowTypes /\ HandlerInv /\ FlagsInv(Flags, unlinked, shown, lines)

LEMMA WindowBegins == WindowInit => WindowInv
<1>1. SUFFICES ASSUME WindowInit PROVE WindowInv  OBVIOUS
<1>2. Screen \in Windows /\ MaxLines \in Nat /\ MaxLines > 0  BY TreeAssumption
<1>3. WindowTypes /\ HandlerInv  BY <1>1, <1>2 DEF WindowInit, WindowTypes, HandlerInv
<1>4. Flags \in FlagTypes  BY <1>1, <1>2 DEF WindowInit, Flags, FlagTypes
<1>5. Inside(Flags, unlinked, shown, lines)
  BY <1>1, <1>2, AboveUnfolds DEF WindowInit, Flags, Inside, Belongs
<1>6. MarksAgree(Flags, unlinked)
  BY <1>1, <1>2 DEF WindowInit, Flags, MarksAgree, MarksGoUp
<1>7. \A w \in Windows : IsPending(Flags, w, unlinked, shown, lines)
  BY <1>1, <1>2 DEF WindowInit, Flags, IsPending, Belongs
<1>. QED  BY <1>3, <1>4, <1>5, <1>6, <1>7 DEF WindowInv, FlagsInv

(* Between two passes no handler runs, and a change that leaves the flags  *)
(* in order keeps the invariant.                                           *)
LEMMA ChangeKeeps ==
  ASSUME WindowInv, Change, NEW f, SetFlags(f), WindowTypes',
         FlagsInv(f, unlinked', shown', lines')
  PROVE  WindowInv'
<1>1. drawing = {}  BY DEF WindowInv, HandlerInv, Change
<1>2. HandlerInv'  BY <1>1 DEF HandlerInv, Change
<1>3. Flags' = f  BY DEF Flags, SetFlags, FlagsInv, FlagTypes
<1>. QED  BY <1>2, <1>3 DEF WindowInv

LEMMA ShowKeeps ==
  ASSUME WindowInv, NEW w \in Windows, Show(w)
  PROVE  WindowInv'
<1>1. PICK f : f = Realize(Flags, w, shown')  OBVIOUS
<1>2. /\ Change /\ SetFlags(f) /\ shown' = shown \cup {w}
      /\ unlinked' = unlinked /\ lines' = lines
  BY <1>1 DEF Show
<1>3. WindowTypes /\ WindowTypes'  BY <1>2 DEF WindowInv, WindowTypes
<1>4. Flags \in FlagTypes /\ MarksAgree(Flags, unlinked)
  BY DEF WindowInv, FlagsInv
<1>5. Inside(Flags, unlinked, shown', lines)
  BY <1>2 DEF WindowInv, FlagsInv, Inside, Belongs
<1>6. \A v \in Windows \ {w} : IsPending(Flags, v, unlinked, shown', lines)
  BY <1>2 DEF WindowInv, FlagsInv, IsPending, Belongs
<1>7. lines \in [Windows -> Nat]  BY <1>3 DEF WindowTypes
<1>8. FlagsInv(f, unlinked, shown', lines)
  BY <1>1, <1>4, <1>5, <1>6, <1>7, RealizeKeeps
<1>9. FlagsInv(f, unlinked', shown', lines')  BY <1>2, <1>8
<1>. QED  BY <1>2, <1>3, <1>9, ChangeKeeps

(* Hidden or unlinked, the window need not come back.                      *)
LEMMA HideKeeps ==
  ASSUME WindowInv, NEW w \in Windows, Hide(w) \/ Unlink(w)
  PROVE  WindowInv'
<1>1. PICK as : as = IF Hide(w) THEN shown' ELSE shown  OBVIOUS
<1>2. PICK f : f = Unrealize(Flags, w, as)  OBVIOUS
<1>3. /\ Change /\ w \notin unlinked \cup {Screen} /\ lines' = lines
      /\ \/ shown' = shown \ {w} /\ unlinked' = unlinked
         \/ shown' = shown /\ unlinked' = unlinked \cup {w}
  BY DEF Hide, Unlink
<1>4. SetFlags(f)  BY <1>1, <1>2 DEF Hide, Unlink
<1>5. WindowTypes /\ WindowTypes'  BY <1>3 DEF WindowInv, WindowTypes
<1>6. Flags \in FlagTypes /\ FlagsInv(Flags, unlinked, shown, lines)
  BY DEF WindowInv, FlagsInv
<1>7. /\ unlinked \subseteq unlinked' /\ unlinked' \subseteq unlinked \cup {w}
      /\ shown \ {w} \subseteq shown' /\ shown' \subseteq shown
      /\ \A v \in Windows \ Below(w) : lines'[v] = lines[v]
  BY <1>3
<1>8. /\ f \in FlagTypes /\ Inside(f, unlinked', shown', lines') /\ MarksAgree(f, unlinked')
      /\ \A v \in Windows \ {w} : IsPending(f, v, unlinked', shown', lines')
  BY <1>2, <1>6, <1>7, UnrealizeKeeps
<1>9. IsPending(f, w, unlinked', shown', lines')
  BY <1>3, AboveIsClosed DEF IsPending, Belongs
<1>10. FlagsInv(f, unlinked', shown', lines')  BY <1>8, <1>9 DEF FlagsInv
<1>. QED  BY <1>3, <1>4, <1>5, <1>10, ChangeKeeps

(* What a request to draw a window again does to flags that are in order.  *)
LEMMA RequestKeeps ==
  ASSUME WindowInv, NEW w \in Windows \ unlinked
  PROVE  /\ FlagsInv(Dirty(Flags, {w}, shown), unlinked, shown, lines)
         /\ Dirty(Flags, {w}, shown).realized = realized
<1>1. PICK f : f = Dirty(Flags, {w}, shown)  OBVIOUS
<1>2. /\ Flags \in FlagTypes /\ Inside(Flags, unlinked, shown, lines)
      /\ MarksAgree(Flags, unlinked)
      /\ \A v \in Windows : IsPending(Flags, v, unlinked, shown, lines)
  BY DEF WindowInv, FlagsInv
<1>3. CanMark(Flags, {w}, shown)
  <2>1. \A v \in Flags.realized : InTree(v)  BY <1>2 DEF Inside, Belongs, InTree
  <2>2. \A v \in Flags.subtree \ {Screen} :
          InTree(v) /\ Parent(v) \in Flags.realized => Parent(v) \in Flags.subtree
    BY <1>2 DEF MarksAgree, MarksGoUp, InTree
  <2>3. Flags.asked \subseteq Flags.dirty /\ Flags.dirty \subseteq Flags.subtree
    BY <1>2 DEF MarksAgree
  <2>. QED  BY <1>2, <2>1, <2>2, <2>3 DEF CanMark
<1>4. /\ f \in FlagTypes /\ f.realized = Flags.realized /\ MarksAgree(f, unlinked)
      /\ f.dirty = Flags.dirty \cup Marked(Flags, {w}, shown)
  BY <1>1, <1>3, DirtyMarks
<1>5. Inside(f, unlinked, shown, lines)  BY <1>2, <1>4 DEF Inside, Belongs
<1>6. \A v \in Windows : IsPending(f, v, unlinked, shown, lines)
  BY <1>2, <1>4 DEF IsPending, Belongs
<1>7. Flags.realized = realized  BY DEF Flags
<1>. QED  BY <1>1, <1>4, <1>5, <1>6, <1>7 DEF FlagsInv

LEMMA DirtyKeeps ==
  ASSUME WindowInv, NEW w \in Windows, DirtyWindow(w)
  PROVE  WindowInv'
<1>1. PICK f : f = Dirty(Flags, {w}, shown)  OBVIOUS
<1>2. /\ Change /\ SetFlags(f) /\ w \notin unlinked
      /\ shown' = shown /\ unlinked' = unlinked /\ lines' = lines
  BY <1>1 DEF DirtyWindow
<1>3. WindowTypes'  BY <1>2 DEF WindowInv, WindowTypes
<1>4. FlagsInv(f, unlinked', shown', lines')  BY <1>1, <1>2, RequestKeeps
<1>. QED  BY <1>2, <1>3, <1>4, ChangeKeeps

(* A window with a new size comes back in the next pass, if it is shown.   *)
LEMMA SetPositionKeeps ==
  ASSUME WindowInv, NEW w \in Windows, NEW size \in [Below(w) -> 0 .. MaxLines],
         SetPosition(w, size)
  PROVE  WindowInv'
<1>1. PICK f : f = Unrealize(Flags, w, shown)  OBVIOUS
<1>2. PICK g : g = IF w \in shown THEN Dirty(f, {w} \ f.realized, shown) ELSE f  OBVIOUS
<1>3. /\ Change /\ SetFlags(g) /\ w \notin unlinked
      /\ shown' = shown /\ unlinked' = unlinked
      /\ lines' = [v \in Windows |-> IF v \in Below(w) THEN size[v] ELSE lines[v]]
  BY <1>1, <1>2 DEF SetPosition, RealizeLater
<1>4. WindowTypes'
  <2>1. \A v \in Below(w) : size[v] \in Nat  BY TreeAssumption
  <2>. QED  BY <1>3, <2>1 DEF WindowInv, WindowTypes
<1>5. Flags \in FlagTypes /\ FlagsInv(Flags, unlinked, shown, lines)
  BY DEF WindowInv, FlagsInv
<1>6. /\ f \in FlagTypes /\ w \notin f.realized
      /\ Inside(f, unlinked, shown, lines') /\ MarksAgree(f, unlinked)
      /\ \A v \in Windows \ {w} : IsPending(f, v, unlinked, shown, lines')
  <2>1. /\ unlinked \subseteq unlinked' /\ unlinked' \subseteq unlinked \cup {w}
        /\ shown \ {w} \subseteq shown' /\ shown' \subseteq shown
        /\ \A v \in Windows \ Below(w) : lines'[v] = lines[v]
    BY <1>3
  <2>2. /\ f \in FlagTypes /\ w \notin f.realized
        /\ Inside(f, unlinked', shown', lines') /\ MarksAgree(f, unlinked')
        /\ \A v \in Windows \ {w} : IsPending(f, v, unlinked', shown', lines')
    BY <1>1, <1>5, <2>1, UnrealizeKeeps
  <2>. QED  BY <1>3, <2>2
<1>7. FlagsInv(g, unlinked, shown, lines')
  <2>1. CASE w \notin shown
    <3>1. IsPending(f, w, unlinked, shown, lines')  BY <2>1 DEF IsPending, Belongs
    <3>. QED  BY <1>2, <1>6, <2>1, <3>1 DEF FlagsInv
  <2>2. CASE w \in shown
    <3>2. g = Dirty(f, {w}, shown)
      <4>1. {w} \ f.realized = {w}  BY <1>6
      <4>. QED  BY <1>2, <2>2, <4>1
    <3>3. CanMark(f, {w}, shown)
      <4>1. \A v \in f.realized : InTree(v)  BY <1>6 DEF Inside, Belongs, InTree
      <4>2. \A v \in f.subtree \ {Screen} :
              InTree(v) /\ Parent(v) \in f.realized => Parent(v) \in f.subtree
        BY <1>6 DEF MarksAgree, MarksGoUp, InTree
      <4>3. f.asked \subseteq f.dirty /\ f.dirty \subseteq f.subtree
        BY <1>6 DEF MarksAgree
      <4>. QED  BY <1>3, <1>6, <4>1, <4>2, <4>3 DEF CanMark
    <3>4. /\ Dirty(f, {w}, shown) \in FlagTypes
          /\ Dirty(f, {w}, shown).realized = f.realized
          /\ MarksAgree(Dirty(f, {w}, shown), unlinked)
          /\ Dirty(f, {w}, shown).dirty = f.dirty \cup Marked(f, {w}, shown)
      BY <3>3, DirtyMarks
    <3>5. Inside(g, unlinked, shown, lines')
      BY <1>6, <3>2, <3>4 DEF Inside, Belongs
    <3>6. ASSUME NEW v \in Windows  PROVE IsPending(g, v, unlinked, shown, lines')
      BY <1>6, <3>2, <3>4 DEF IsPending, Belongs, ShouldRealize, Marked
    <3>. QED  BY <3>2, <3>4, <3>5, <3>6 DEF FlagsInv
  <2>. QED  BY <2>1, <2>2
<1>8. FlagsInv(g, unlinked', shown', lines')  BY <1>3, <1>7
<1>. QED  BY <1>3, <1>4, <1>8, ChangeKeeps

(* The pass comes to a window that is dirty: it is realized if it can be,  *)
(* and its handler begins, or it is taken for clean at once.               *)
LEMMA RedrawKeeps ==
  ASSUME WindowInv, NEW w \in Windows, RedrawWindow(w)
  PROVE  WindowInv'
<1>1. PICK f : f = Realize(Flags, w, shown)  OBVIOUS
<1>2. PICK g : g = IF w \in f.realized \ {Screen} THEN [f EXCEPT !.asked = @ \ {w}]
                   ELSE [f EXCEPT !.asked = @ \ {w}, !.dirty = @ \ {w}]
  OBVIOUS
<1>3. /\ SetFlags(g) /\ unlinked' = unlinked /\ shown' = shown /\ lines' = lines
      /\ drawing = {} /\ agenda # <<>>
      /\ \/ w \in f.realized /\ drawing' = {w} /\ agenda' = agenda
         \/ drawing' = {}
  BY <1>1, <1>2 DEF RedrawWindow, At, InPass
<1>4. /\ Flags \in FlagTypes /\ Inside(Flags, unlinked, shown, lines)
      /\ MarksAgree(Flags, unlinked) /\ lines \in [Windows -> Nat]
      /\ \A v \in Windows \ {w} : IsPending(Flags, v, unlinked, shown, lines)
  BY DEF WindowInv, WindowTypes, FlagsInv
<1>5. /\ FlagsInv(f, unlinked, shown, lines)
      /\ Belongs(f, w, unlinked, shown) /\ lines[w] > 0 => w \in f.realized
  <2>1. /\ FlagsInv(f, unlinked, shown, lines)
        /\ Belongs(Flags, w, unlinked, shown) /\ lines[w] > 0 => w \in f.realized
        /\ f.realized \subseteq Flags.realized \cup {w}
    BY <1>1, <1>4, RealizeKeeps
  <2>2. w # Screen => Parent(w) # w
    BY NoWindowIsInItself, AboveIsClosed
  <2>. QED  BY <2>1, <2>2 DEF Belongs
<1>6. /\ g \in FlagTypes /\ g.realized = f.realized /\ g.subtree = f.subtree
      /\ g.asked = f.asked \ {w}
      /\ g.dirty = IF w \in f.realized \ {Screen} THEN f.dirty ELSE f.dirty \ {w}
  BY <1>2, <1>5 DEF FlagsInv, FlagTypes
<1>7. Inside(g, unlinked, shown, lines)
  BY <1>5, <1>6 DEF FlagsInv, Inside, Belongs
<1>8. MarksAgree(g, unlinked)
  BY <1>5, <1>6 DEF FlagsInv, MarksAgree, MarksGoUp
<1>9. \A v \in Windows : IsPending(g, v, unlinked, shown, lines)
  BY <1>5, <1>6 DEF FlagsInv, IsPending, Belongs
<1>10. FlagsInv(g, unlinked', shown', lines')
  BY <1>3, <1>6, <1>7, <1>8, <1>9 DEF FlagsInv
<1>11. Flags' = g  BY <1>3, <1>6 DEF Flags, SetFlags, FlagTypes
<1>12. WindowTypes'  BY <1>3 DEF WindowInv, WindowTypes
<1>13. realized' = g.realized /\ asked' = g.asked  BY <1>3 DEF SetFlags
<1>14. HandlerInv'  BY <1>3, <1>6, <1>13 DEF HandlerInv
<1>. QED  BY <1>10, <1>11, <1>12, <1>14 DEF WindowInv

(* A handler dirties windows; what it asks for its own is forgotten.       *)
LEMMA HandlerDirtyKeeps ==
  ASSUME WindowInv, NEW v \in Windows, HandlerDirty(v)
  PROVE  WindowInv'
<1>1. PICK f : f = Dirty(Flags, {v}, shown)  OBVIOUS
<1>2. PICK g : g = [f EXCEPT !.asked = @ \ drawing]  OBVIOUS
<1>3. /\ SetFlags(g) /\ unlinked' = unlinked /\ shown' = shown /\ lines' = lines
      /\ drawing' = drawing /\ agenda' = agenda /\ v \notin unlinked
  BY <1>1, <1>2 DEF HandlerDirty, InPass
<1>4. FlagsInv(f, unlinked, shown, lines) /\ f.realized = realized
  BY <1>1, <1>3, RequestKeeps
<1>5. /\ g \in FlagTypes /\ g.realized = f.realized /\ g.subtree = f.subtree
      /\ g.asked = f.asked \ drawing /\ g.dirty = f.dirty
  BY <1>2, <1>4 DEF FlagsInv, FlagTypes
<1>6. Inside(g, unlinked, shown, lines)
  BY <1>4, <1>5 DEF FlagsInv, Inside, Belongs
<1>7. MarksAgree(g, unlinked)
  BY <1>4, <1>5 DEF FlagsInv, MarksAgree, MarksGoUp
<1>8. \A u \in Windows : IsPending(g, u, unlinked, shown, lines)
  BY <1>4, <1>5 DEF FlagsInv, IsPending, Belongs
<1>9. FlagsInv(g, unlinked', shown', lines')
  BY <1>3, <1>5, <1>6, <1>7, <1>8 DEF FlagsInv
<1>10. Flags' = g  BY <1>3, <1>5 DEF Flags, SetFlags, FlagTypes
<1>11. WindowTypes'  BY <1>3 DEF WindowInv, WindowTypes
<1>12. realized' = g.realized /\ asked' = g.asked  BY <1>3 DEF SetFlags
<1>13. HandlerInv'  BY <1>3, <1>4, <1>5, <1>12 DEF WindowInv, HandlerInv
<1>. QED  BY <1>9, <1>10, <1>11, <1>13 DEF WindowInv

(* A handler returns, or the pass leaves a window: marks are taken back.   *)
LEMMA MarkEnds ==
  ASSUME WindowInv, NEW w \in Windows, HandlerEnd(w) \/ LeaveWindow(w)
  PROVE  WindowInv'
<1>1. /\ unlinked' = unlinked /\ shown' = shown /\ lines' = lines
      /\ realized' = realized /\ asked' = asked /\ drawing' = {}
  BY DEF HandlerEnd, LeaveWindow, At, InPass
<1>2. \/ w \in drawing /\ dirty' = dirty \ {w} /\ subtree' = subtree
      \/ dirty' = dirty /\ subtree' = subtree
      \/ /\ dirty' = dirty /\ subtree' = subtree \ {w}
         /\ w \notin dirty /\ LinkedIn(w) \cap subtree = {}
  BY DEF HandlerEnd, LeaveWindow
<1>3. /\ Flags.realized = realized /\ Flags.dirty = dirty
      /\ Flags.subtree = subtree /\ Flags.asked = asked
      /\ Flags'.realized = realized' /\ Flags'.dirty = dirty'
      /\ Flags'.subtree = subtree' /\ Flags'.asked = asked'
  BY DEF Flags
<1>4. Flags' \in FlagTypes
  BY <1>1, <1>2 DEF WindowInv, FlagsInv, FlagTypes, Flags
<1>5. WindowTypes' /\ HandlerInv'
  BY <1>1 DEF WindowInv, WindowTypes, HandlerInv
<1>6. Inside(Flags', unlinked', shown', lines')
  BY <1>1, <1>3 DEF WindowInv, FlagsInv, Inside, Belongs
<1>7. MarksGoUp(Flags', unlinked')
  <2>1. SUFFICES ASSUME NEW v \in subtree' \ {Screen}, Above[v] \cap unlinked = {},
                        Parent(v) \in realized
                 PROVE  Parent(v) \in subtree'
    BY <1>1, <1>3 DEF MarksGoUp
  <2>2. v \in subtree /\ v \in Windows
    BY <1>2, <1>3, <2>1 DEF WindowInv, FlagsInv, FlagTypes
  <2>3. Parent(v) \in subtree
    BY <1>3, <2>1, <2>2 DEF WindowInv, FlagsInv, MarksAgree, MarksGoUp
  <2>4. v \notin unlinked  BY <2>1, <2>2, AboveIsClosed
  <2>5. Parent(v) = w => v \in LinkedIn(w)
    BY <2>1, <2>2, <2>4, ParentIsAWindow DEF LinkedIn
  <2>. QED  BY <1>2, <2>2, <2>3, <2>5
<1>8. MarksAgree(Flags', unlinked')
  <2>1. asked \subseteq dirty /\ dirty \subseteq subtree
    BY <1>3 DEF WindowInv, FlagsInv, MarksAgree
  <2>2. w \in drawing => w \notin asked  BY DEF WindowInv, HandlerInv
  <2>. QED  BY <1>1, <1>2, <1>3, <1>7, <2>1, <2>2 DEF MarksAgree
<1>9. ASSUME NEW v \in Windows  PROVE IsPending(Flags', v, unlinked', shown', lines')
  <2>1. IsPending(Flags, v, unlinked, shown, lines)  BY DEF WindowInv, FlagsInv
  <2>2. drawing \subseteq realized  BY DEF WindowInv, HandlerInv
  <2>. QED  BY <1>1, <1>2, <1>3, <2>1, <2>2 DEF IsPending, Belongs
<1>. QED  BY <1>4, <1>5, <1>6, <1>8, <1>9 DEF WindowInv, FlagsInv

(* The other steps only move the pass on.                                  *)
LEMMA PassMovesOn ==
  ASSUME WindowInv, UNCHANGED <<unlinked, shown, lines, flags, drawing>>,
         drawing = {} \/ agenda' = agenda
  PROVE  WindowInv'
<1>1. /\ unlinked' = unlinked /\ shown' = shown /\ lines' = lines /\ drawing' = drawing
      /\ realized' = realized /\ dirty' = dirty /\ subtree' = subtree /\ asked' = asked
  BY DEF flags
<1>2. Flags' = Flags  BY <1>1 DEF Flags
<1>3. WindowTypes'  BY <1>1 DEF WindowInv, WindowTypes
<1>4. HandlerInv'  BY <1>1 DEF WindowInv, HandlerInv
<1>5. FlagsInv(Flags', unlinked', shown', lines')  BY <1>1, <1>2 DEF WindowInv
<1>. QED  BY <1>3, <1>4, <1>5 DEF WindowInv

LEMMA WindowKeeps == WindowInv /\ [WindowNext]_windowVars => WindowInv'
<1>1. SUFFICES ASSUME WindowInv, [WindowNext]_windowVars PROVE WindowInv'  OBVIOUS
<1>2. ASSUME NEW w \in Windows,
             \/ Show(w) \/ Hide(w) \/ DirtyWindow(w) \/ Unlink(w)
             \/ \E size \in [Below(w) -> 0 .. MaxLines] : SetPosition(w, size)
             \/ HandlerDirty(w)
      PROVE  WindowInv'
  BY <1>1, <1>2, ShowKeeps, HideKeeps, DirtyKeeps, SetPositionKeeps, HandlerDirtyKeeps
<1>3. CASE Pass
  <2>1. CASE PassBegin
    <3>1. UNCHANGED <<unlinked, shown, lines, flags, drawing>> /\ agenda = <<>>
      BY <2>1 DEF PassBegin, InPass
    <3>2. drawing = {}  BY <1>1, <3>1 DEF WindowInv, HandlerInv
    <3>. QED  BY <1>1, <3>1, <3>2, PassMovesOn
  <2>2. ASSUME NEW w \in Windows, Skip(w) \/ PassThrough(w)  PROVE WindowInv'
    <3>1. UNCHANGED <<unlinked, shown, lines, flags, drawing>> /\ drawing = {}
      BY <2>2 DEF Skip, PassThrough, At, InPass
    <3>. QED  BY <1>1, <3>1, PassMovesOn
  <2>3. ASSUME NEW w \in Windows, RedrawWindow(w) \/ HandlerEnd(w) \/ LeaveWindow(w)
        PROVE  WindowInv'
    BY <1>1, <2>3, RedrawKeeps, MarkEnds
  <2>. QED  BY <1>3, <2>1, <2>2, <2>3 DEF Pass
<1>4. CASE UNCHANGED windowVars
  <2>1. UNCHANGED <<unlinked, shown, lines, flags, drawing>> /\ agenda' = agenda
    BY <1>4 DEF windowVars
  <2>. QED  BY <1>1, <2>1, PassMovesOn
<1>. QED  BY <1>1, <1>2, <1>3, <1>4 DEF WindowNext

(* A marked window that should be realized is found: the marks above it go *)
(* up to the screen.                                                       *)
LEMMA MarksAreFound ==
  ASSUME WindowInv, NEW w \in subtree, Should(w)
  PROVE  Above[w] \subseteq subtree
<1>1. PICK S : S = {v \in subtree : InTree(v) /\ (v = Screen \/ Parent(v) \in realized)}
  OBVIOUS
<1>2. /\ subtree \in SUBSET Windows /\ realized \in SUBSET Windows
      /\ Flags.realized = realized /\ Flags.subtree = subtree
  BY DEF WindowInv, FlagsInv, FlagTypes, Flags
<1>3. w \in S /\ S \in SUBSET Windows /\ w \in Windows  BY <1>1, <1>2 DEF Should
<1>4. ASSUME NEW v \in S \ {Screen}  PROVE Parent(v) \in S
  <2>1. v \in subtree /\ InTree(v) /\ Parent(v) \in realized  BY <1>1, <1>4
  <2>2. Parent(v) \in subtree
    BY <1>2, <1>4, <2>1 DEF WindowInv, FlagsInv, MarksAgree, MarksGoUp, InTree
  <2>3. InTree(Parent(v)) /\ (Parent(v) = Screen \/ Parent(Parent(v)) \in realized)
    BY <1>2, <2>1 DEF WindowInv, FlagsInv, Inside, Belongs, InTree
  <2>. QED  BY <1>1, <2>2, <2>3
<1>5. Above[w] \subseteq S  BY <1>3, <1>4, AboveIsLeast
<1>. QED  BY <1>1, <1>5

LEMMA MarksFollow == WindowInv => MarksLeadTheRedraw
<1>1. SUFFICES ASSUME WindowInv PROVE MarksLeadTheRedraw  OBVIOUS
<1>2. /\ Flags.realized = realized /\ Flags.dirty = dirty
      /\ Flags.subtree = subtree /\ Flags.asked = asked
  BY DEF Flags
<1>3. RealizedIsInside
  BY <1>1, <1>2 DEF WindowInv, FlagsInv, Inside, Belongs, RealizedIsInside, Should, InTree
<1>4. asked \subseteq dirty /\ dirty \subseteq subtree
  BY <1>1, <1>2 DEF WindowInv, FlagsInv, MarksAgree
<1>5. RequestIsFound  BY <1>1, <1>4, MarksAreFound DEF RequestIsFound
<1>6. \A w \in Windows : Should(w) /\ lines[w] > 0 /\ w \notin realized => w \in dirty
  BY <1>1, <1>2 DEF WindowInv, FlagsInv, IsPending, Belongs, Should, InTree
<1>7. ShownIsRealized  BY <1>1, <1>4, <1>6, MarksAreFound DEF ShownIsRealized
<1>. QED  BY <1>3, <1>5, <1>7 DEF MarksLeadTheRedraw

(* Whatever tree the windows make, and whatever is done to them between    *)
(* the passes and by the handlers of a pass, a window is realized only     *)
(* inside a realized one, and no redraw that is asked for is lost.         *)
THEOREM NoRedrawIsLost == WindowSpec => []MarksLeadTheRedraw
<1>. QED  BY WindowBegins, WindowKeeps, MarksFollow, PTL DEF WindowSpec

-----------------------------------------------------------------------------
(* Contexts: what the keyboard talks to.                                   *)
Chars == Typable \cup {"newline"}
Texts == Seq(Chars)
KeyNames == STRING \cup {"C-c"} \cup {"M-" \o k : k \in Keys \cup {"C-c"}}
ActiveMaps == EditMaps \cup {"recv", "popless"}
HistoryNames == {"cmd", "msg"}
EditHistories == HistoryNames \cup {"none"}
EditStyles == {"line", "multi"}
Callbacks == {"command", "send", "script", "search"}

Frames == [kind : {"recv", "edit", "popless"}, keymap : ActiveMaps, edit : Nat]
Editors == [text : Texts, style : EditStyles, hist : EditHistories,
            callback : Callbacks, refs : Nat, closed : Nat,
            browsing : BOOLEAN, typed : Texts]
Histories == [lines : Seq(Texts), cur : Nat, partial : BOOLEAN]
UI == [stack : Seq(Frames), keymap : ActiveMaps, keys : Seq(KeyNames), esc : BOOLEAN,
       edits : Seq(Editors), tw : Nat, viewer : BOOLEAN, cmdwin : Nat,
       hist : [HistoryNames -> Histories], crashed : BOOLEAN]

(* The stack ends in the message list.  Above it are the viewer, at most   *)
(* once, and the editors of the typing window and of the viewer's command  *)
(* line, once each if there are any; the command line is right above the   *)
(* viewer.                                                                 *)
RecvFrame    == Frame("recv", "recv", NoEdit)
PoplessFrame == Frame("popless", "popless", NoEdit)
Shaped(stack, tw, cmdwin, viewer) ==
  LET above == 1 .. Len(stack) - 1
  IN  /\ stack # <<>> /\ stack[Len(stack)] = RecvFrame
      /\ \A i \in above :
           \/ stack[i] = PoplessFrame
           \/ /\ stack[i].kind = "edit" /\ stack[i].keymap \in EditMaps
              /\ stack[i].edit \in {tw, cmdwin} \ {NoEdit}
      /\ \A i, j \in above : stack[i].edit = stack[j].edit => i = j
      /\ tw # NoEdit => \E i \in above : stack[i].edit = tw
      /\ cmdwin # NoEdit =>
           \E i \in above : stack[i].edit = cmdwin /\ i + 1 \in above /\ stack[i + 1].edit = NoEdit
      /\ viewer <=> \E i \in above : stack[i].edit = NoEdit
      /\ tw = cmdwin => tw = NoEdit

(* Who refers to each editor, and whether it is closed.  An editor that is *)
(* being closed is held by whoever closes it, and is open until its        *)
(* callback is called.                                                     *)
Due(e, tw, cmdwin, held) ==
  (IF e = tw THEN 2 ELSE IF e = cmdwin THEN 1 ELSE 0) + (IF e = held THEN 1 ELSE 0)
Edited(edits, tw, cmdwin, held, open) ==
  /\ {tw, cmdwin, held, open} \subseteq 0 .. Len(edits)
  /\ \A e \in 1 .. Len(edits) :
       /\ edits[e].refs = Due(e, tw, cmdwin, held)
       /\ edits[e].closed = IF e \in {tw, cmdwin, open} THEN 0 ELSE 1
       /\ edits[e].browsing => edits[e].hist # "none" /\ e \in {tw, held}
       /\ e = cmdwin =>
            edits[e].hist = "none" /\ edits[e].style = "line" /\ edits[e].callback = "search"

(* Histories hold no more than their size and repeat no line in a row, but *)
(* for the text being composed; that text is the last while another line   *)
(* is shown.                                                               *)
Tidy(rows) == \A i \in 1 .. Len(rows) - 1 : rows[i] # rows[i + 1]
HistoryKept(h) ==
  /\ Len(h.lines) <= HistorySize /\ h.cur <= Len(h.lines)
  /\ h.cur = 0 => h.lines = <<>>
  /\ h.partial => h.lines # <<>>
  /\ Tidy(Reset(h).lines)
Browsed(edits, tw, hist) ==
  tw # NoEdit /\ edits[tw].browsing /\ IsTouched(hist[edits[tw].hist]) =>
    Last(hist[edits[tw].hist].lines) = edits[tw].typed

Sound(s, held, open) ==
  /\ s \in UI /\ s.crashed = FALSE /\ s.keymap = s.stack[1].keymap
  /\ Shaped(s.stack, s.tw, s.cmdwin, s.viewer)
  /\ Edited(s.edits, s.tw, s.cmdwin, held, open)
  /\ \A h \in HistoryNames : HistoryKept(s.hist[h])
  /\ Browsed(s.edits, s.tw, s.hist)

(* Browsing sees only the editor of the typing window, and the histories.  *)
LEMMA BrowsedStays ==
  ASSUME NEW edits, NEW changed, NEW tw, NEW hist, Browsed(edits, tw, hist),
         tw # NoEdit => /\ changed[tw].browsing = edits[tw].browsing
                        /\ changed[tw].hist = edits[tw].hist
                        /\ changed[tw].typed = edits[tw].typed
  PROVE  Browsed(changed, tw, hist)
<1>1. CASE tw = NoEdit  BY <1>1 DEF Browsed
<1>2. CASE tw # NoEdit  BY <1>2 DEF Browsed
<1>. QED  BY <1>1, <1>2

(* Keys that wait go on waiting in the same keymap only.                   *)
KeysStay(s, t) == t.keys = <<>> \/ (t.keys = s.keys /\ t.keymap = s.keymap)

(* What the keymap on top tells of the stack.                              *)
LEMMA TopIsFirst ==
  ASSUME NEW s \in UI, s.stack # <<>>
  PROVE  Top(s) = s.stack[1] /\ TopEdit(s) = s.stack[1].edit /\ Len(s.stack) \in Nat \ {0}
<1>1. PICK stack \in Seq(Frames) : stack = s.stack  BY DEF UI
<1>2. Head(stack) = stack[1] /\ Len(stack) \in Nat \ {0}  BY <1>1
<1>. QED  BY <1>1, <1>2 DEF Top, TopEdit

(* Pushing a context.                                                      *)
LEMMA PushedIsFirst ==
  ASSUME NEW stack \in Seq(Frames), NEW frame \in Frames
  PROVE  /\ <<frame>> \o stack \in Seq(Frames) /\ Len(<<frame>> \o stack) = Len(stack) + 1
         /\ (<<frame>> \o stack)[1] = frame
         /\ \A i \in 1 .. Len(stack) : (<<frame>> \o stack)[i + 1] = stack[i]
<1>1. PICK one \in Seq(Frames) : one = <<frame>> /\ Len(one) = 1 /\ one[1] = frame
  <2>1. <<frame>> \in Seq(Frames) /\ Len(<<frame>>) = 1 /\ <<frame>>[1] = frame  OBVIOUS
  <2>. QED  BY <2>1, Zenon
<1>2. /\ one \o stack \in Seq(Frames) /\ Len(one \o stack) = 1 + Len(stack)
      /\ \A i \in 1 .. 1 + Len(stack) :
           (one \o stack)[i] = IF i <= 1 THEN one[i] ELSE stack[i - 1]
  BY <1>1, ConcatProperties
<1>3. Len(stack) \in Nat  OBVIOUS
<1>4. (one \o stack)[1] = frame  BY <1>1, <1>2, <1>3
<1>5. ASSUME NEW i \in 1 .. Len(stack) PROVE (one \o stack)[i + 1] = stack[i]
  <2>1. i + 1 \in 1 .. 1 + Len(stack) /\ ~(i + 1 <= 1) /\ (i + 1) - 1 = i  BY <1>3
  <2>. QED  BY <1>2, <2>1
<1>. QED  BY <1>1, <1>2, <1>3, <1>4, <1>5

(* A frame is pushed for the editor it brings, or for the viewer, and the  *)
(* stack keeps its shape.                                                  *)
LEMMA PushKeepsShape ==
  ASSUME NEW stack \in Seq(Frames), NEW tw \in Nat, NEW cmdwin \in Nat, NEW viewer \in BOOLEAN,
         Shaped(stack, tw, cmdwin, viewer), NEW frame \in Frames,
         NEW tw2 \in Nat, NEW cmdwin2 \in Nat, NEW viewer2 \in BOOLEAN,
         \/ /\ frame.kind = "edit" /\ frame.keymap \in EditMaps /\ frame.edit = tw2
            /\ tw = NoEdit /\ tw2 \notin {NoEdit, cmdwin} /\ cmdwin2 = cmdwin /\ viewer2 = viewer
         \/ /\ frame.kind = "edit" /\ frame.keymap \in EditMaps /\ frame.edit = cmdwin2
            /\ cmdwin = NoEdit /\ cmdwin2 \notin {NoEdit, tw} /\ tw2 = tw /\ viewer2 = viewer
            /\ stack[1] = PoplessFrame
         \/ /\ frame = PoplessFrame /\ ~viewer /\ viewer2 /\ tw2 = tw /\ cmdwin2 = cmdwin
  PROVE  Shaped(<<frame>> \o stack, tw2, cmdwin2, viewer2)
<1>1. PICK longer \in Seq(Frames) :
        /\ longer = <<frame>> \o stack /\ Len(longer) = Len(stack) + 1 /\ longer[1] = frame
        /\ \A i \in 1 .. Len(stack) : longer[i + 1] = stack[i]
  BY PushedIsFirst
<1>2. PICK n \in Nat : n = Len(stack)  OBVIOUS
<1>3. n >= 1  BY <1>2 DEF Shaped
<1>4. longer # <<>> /\ longer[Len(longer)] = RecvFrame
  <2>1. longer[n + 1] = stack[n]  BY <1>1, <1>2, <1>3
  <2>. QED  BY <1>1, <1>2, <1>3, <2>1 DEF Shaped
<1>5. \A i \in 1 .. n : i = 1 \/ (i - 1 \in 1 .. n - 1 /\ longer[i] = stack[i - 1])
  <2>1. ASSUME NEW i \in 1 .. n, i # 1 PROVE i - 1 \in 1 .. n - 1 /\ longer[i] = stack[i - 1]
    <3>1. i - 1 \in 1 .. n - 1 /\ i - 1 \in 1 .. n /\ (i - 1) + 1 = i  BY <2>1
    <3>. QED  BY <1>1, <1>2, <3>1
  <2>. QED  BY <2>1
<1>6. \A i \in 1 .. n - 1 : i + 1 \in 1 .. n /\ longer[i + 1] = stack[i]  BY <1>1, <1>2
<1>7. PoplessFrame.edit = NoEdit /\ PoplessFrame.kind = "popless"  BY DEF PoplessFrame, Frame
<1>8. \A i \in 1 .. n - 1 : stack[i].edit \in {tw, cmdwin, NoEdit}
        /\ (stack[i].edit = NoEdit => viewer)
  BY <1>2, <1>7 DEF Shaped
<1>9. \A i \in 1 .. n :
        \/ longer[i] = PoplessFrame
        \/ /\ longer[i].kind = "edit" /\ longer[i].keymap \in EditMaps
           /\ longer[i].edit \in {tw2, cmdwin2} \ {NoEdit}
  <2>1. \/ frame = PoplessFrame
        \/ /\ frame.kind = "edit" /\ frame.keymap \in EditMaps
           /\ frame.edit \in {tw2, cmdwin2} \ {NoEdit}
    OBVIOUS
  <2>2. \A i \in 1 .. n - 1 : 
        \/ stack[i] = PoplessFrame
        \/ /\ stack[i].kind = "edit" /\ stack[i].keymap \in EditMaps
           /\ stack[i].edit \in {tw2, cmdwin2} \ {NoEdit}
    BY <1>2 DEF Shaped
  <2>. QED  BY <1>1, <1>5, <2>1, <2>2
<1>10. \A i \in 1 .. n - 1 : stack[i].edit # frame.edit
  BY <1>7, <1>8
<1>11. \A i, j \in 1 .. n : longer[i].edit = longer[j].edit => i = j
  <2>1. \A i, j \in 1 .. n - 1 : stack[i].edit = stack[j].edit => i = j  BY <1>2 DEF Shaped
  <2>2. ASSUME NEW i \in 1 .. n, NEW j \in 1 .. n, longer[i].edit = longer[j].edit PROVE i = j
    <3>1. CASE i = 1 /\ j = 1  BY <3>1
    <3>2. CASE i = 1 /\ j # 1  BY <1>1, <1>5, <1>10, <2>2, <3>2
    <3>3. CASE i # 1 /\ j = 1  BY <1>1, <1>5, <1>10, <2>2, <3>3
    <3>4. CASE i # 1 /\ j # 1
      <4>1. PICK k \in 1 .. n - 1 : k = i - 1 /\ longer[i] = stack[k]  BY <1>5, <3>4
      <4>2. PICK l \in 1 .. n - 1 : l = j - 1 /\ longer[j] = stack[l]  BY <1>5, <3>4
      <4>3. k = l  BY <2>1, <2>2, <4>1, <4>2
      <4>. QED  BY <4>1, <4>2, <4>3
    <3>. QED  BY <3>1, <3>2, <3>3, <3>4
  <2>. QED  BY <2>2
<1>12. tw2 # NoEdit => \E i \in 1 .. n : longer[i].edit = tw2
  <2>1. CASE frame.edit = tw2 /\ tw2 # NoEdit  BY <1>1, <1>3, <2>1
  <2>2. CASE tw2 = tw /\ tw2 # NoEdit
    <3>1. PICK i \in 1 .. n - 1 : stack[i].edit = tw  BY <1>2, <2>2 DEF Shaped
    <3>. QED  BY <1>6, <2>2, <3>1
  <2>. QED  BY <2>1, <2>2
<1>13. cmdwin2 # NoEdit =>
         \E i \in 1 .. n : longer[i].edit = cmdwin2 /\ i + 1 \in 1 .. n /\ longer[i + 1].edit = NoEdit
  <2>1. CASE cmdwin2 = cmdwin /\ cmdwin2 # NoEdit
    <3>1. PICK i \in 1 .. n - 1 :
            stack[i].edit = cmdwin /\ i + 1 \in 1 .. n - 1 /\ stack[i + 1].edit = NoEdit
      BY <1>2, <2>1 DEF Shaped
    <3>2. /\ longer[i + 1].edit = cmdwin2 /\ i + 1 \in 1 .. n
          /\ (i + 1) + 1 \in 1 .. n /\ longer[(i + 1) + 1].edit = NoEdit
      BY <1>6, <2>1, <3>1
    <3>. QED  BY <3>2
  <2>2. CASE cmdwin2 # cmdwin
    <3>1. frame.edit = cmdwin2 /\ stack[1] = PoplessFrame  BY <2>2
    <3>2. 1 \in 1 .. n - 1
      <4>1. RecvFrame # PoplessFrame  
        <5>1. RecvFrame.kind = "recv"  BY DEF RecvFrame, Frame
        <5>. QED  BY <1>7, <5>1
      <4>2. n # 1  BY <1>2, <3>1, <4>1 DEF Shaped
      <4>. QED  BY <1>3, <4>2
    <3>3. 1 \in 1 .. n /\ 1 + 1 \in 1 .. n /\ longer[1].edit = cmdwin2 /\ longer[1 + 1].edit = NoEdit
      <4>1. 1 + 1 \in 1 .. n /\ longer[1 + 1] = stack[1]  BY <1>6, <3>2
      <4>2. 1 \in 1 .. n /\ longer[1].edit = cmdwin2  BY <1>1, <1>3, <3>1
      <4>3. stack[1].edit = NoEdit  BY <1>7, <3>1
      <4>. QED  BY <4>1, <4>2, <4>3
    <3>. QED  BY <3>3
  <2>. QED  BY <2>1, <2>2
<1>14. viewer2 <=> \E i \in 1 .. n : longer[i].edit = NoEdit
  <2>1. viewer <=> \E i \in 1 .. n - 1 : stack[i].edit = NoEdit  BY <1>2 DEF Shaped
  <2>2. CASE frame = PoplessFrame /\ viewer2
    <3>1. longer[1].edit = NoEdit /\ 1 \in 1 .. n  BY <1>1, <1>3, <1>7, <2>2
    <3>. QED  BY <2>2, <3>1
  <2>3. CASE viewer2 = viewer /\ frame.edit # NoEdit
    <3>1. (\E i \in 1 .. n : longer[i].edit = NoEdit) <=> (\E i \in 1 .. n - 1 : stack[i].edit = NoEdit)
      BY <1>1, <1>5, <1>6, <2>3
    <3>. QED  BY <2>1, <2>3, <3>1
  <2>. QED  BY <2>2, <2>3
<1>15. tw2 = cmdwin2 => tw2 = NoEdit  BY DEF Shaped
<1>16. (n + 1) - 1 = n /\ Len(longer) = n + 1  BY <1>1, <1>2
<1>17. Shaped(longer, tw2, cmdwin2, viewer2)
  BY <1>4, <1>9, <1>11, <1>12, <1>13, <1>14, <1>15, <1>16 DEF Shaped
<1>. QED  BY <1>1, <1>17

(* Popping one: whoever it was of is gone.                                 *)
Leaves(frame, tw, cmdwin, viewer, tw2, cmdwin2, viewer2) ==
  \/ /\ frame.kind = "edit" /\ frame.edit = tw
     /\ tw2 = NoEdit /\ cmdwin2 = cmdwin /\ viewer2 = viewer
  \/ /\ frame.kind = "edit" /\ frame.edit = cmdwin
     /\ cmdwin2 = NoEdit /\ tw2 = tw /\ viewer2 = viewer
  \/ /\ frame.kind = "popless" /\ tw2 = tw /\ cmdwin2 = cmdwin /\ ~viewer2
Lowered(stack, cmdwin, rest) ==
  /\ Len(stack) > 1 /\ rest \in Seq(Frames) /\ Len(rest) = Len(stack) - 1
  /\ rest[1] = stack[2] /\ stack[2] \in Frames
  /\ stack[1].kind = "popless" => cmdwin = NoEdit
  /\ stack[1].edit = cmdwin /\ cmdwin # NoEdit => stack[2].edit = NoEdit

(* The top frame is popped once its editor, or the viewer, has left its    *)
(* place, and the stack keeps its shape.                                   *)
LEMMA PopKeepsShape ==
  ASSUME NEW stack \in Seq(Frames), NEW tw \in Nat, NEW cmdwin \in Nat, NEW viewer \in BOOLEAN,
         Shaped(stack, tw, cmdwin, viewer), stack[1].kind # "recv",
         NEW tw2 \in Nat, NEW cmdwin2 \in Nat, NEW viewer2 \in BOOLEAN,
         Leaves(stack[1], tw, cmdwin, viewer, tw2, cmdwin2, viewer2)
  PROVE  Shaped(Tail(stack), tw2, cmdwin2, viewer2) /\ Lowered(stack, cmdwin, Tail(stack))
<1>0. \/ /\ stack[1].kind = "edit" /\ stack[1].edit = tw
         /\ tw2 = NoEdit /\ cmdwin2 = cmdwin /\ viewer2 = viewer
      \/ /\ stack[1].kind = "edit" /\ stack[1].edit = cmdwin
         /\ cmdwin2 = NoEdit /\ tw2 = tw /\ viewer2 = viewer
      \/ /\ stack[1].kind = "popless" /\ tw2 = tw /\ cmdwin2 = cmdwin /\ ~viewer2
  BY DEF Leaves
<1>1. PICK n \in Nat : n = Len(stack) - 1
  <2>1. Len(stack) \in Nat \ {0}  BY DEF Shaped
  <2>. QED  BY <2>1
<1>2. n >= 1 /\ Len(stack) = n + 1
  <2>1. RecvFrame.kind = "recv"  BY DEF RecvFrame, Frame
  <2>2. Len(stack) # 1  BY <2>1 DEF Shaped
  <2>3. Len(stack) \in Nat  OBVIOUS
  <2>. QED  BY <1>1, <2>2, <2>3
<1>3. PICK rest \in Seq(Frames) :
        /\ rest = Tail(stack) /\ Len(rest) = n /\ \A i \in 1 .. n : rest[i] = stack[i + 1]
  <2>1. /\ Tail(stack) \in Seq(Frames) /\ Len(Tail(stack)) = Len(stack) - 1
        /\ \A i \in 1 .. Len(stack) - 1 : Tail(stack)[i] = stack[i + 1]
    BY <1>2, HeadTailProperties
  <2>. QED  BY <1>1, <2>1
<1>4. rest[1] = stack[2] /\ stack[2] \in Frames  BY <1>2, <1>3
<1>5. PoplessFrame.edit = NoEdit /\ PoplessFrame.kind = "popless"  BY DEF PoplessFrame, Frame
<1>6. /\ \A i \in 1 .. n :
           \/ stack[i] = PoplessFrame
           \/ /\ stack[i].kind = "edit" /\ stack[i].keymap \in EditMaps
              /\ stack[i].edit \in {tw, cmdwin} \ {NoEdit}
      /\ \A i, j \in 1 .. n : stack[i].edit = stack[j].edit => i = j
  BY <1>1, <1>2 DEF Shaped
<1>7. \A i \in 1 .. n - 1 : i + 1 \in 1 .. n /\ rest[i] = stack[i + 1] /\ stack[i + 1].edit # stack[1].edit
  <2>1. ASSUME NEW i \in 1 .. n - 1
        PROVE  i + 1 \in 1 .. n /\ rest[i] = stack[i + 1] /\ stack[i + 1].edit # stack[1].edit
    <3>1. i + 1 \in 1 .. n /\ 1 \in 1 .. n /\ i + 1 # 1 /\ i \in 1 .. n  BY <1>2
    <3>. QED  BY <1>3, <1>6, <3>1
  <2>. QED  BY <2>1
<1>8. \A i \in 2 .. n : i - 1 \in 1 .. n - 1 /\ rest[i - 1] = stack[i]
  <2>1. \A i \in 2 .. n : i - 1 \in 1 .. n - 1 /\ (i - 1) + 1 = i  OBVIOUS
  <2>. QED  BY <1>7, <2>1
<1>9. cmdwin # NoEdit =>
        \E i \in 1 .. n : stack[i].edit = cmdwin /\ i + 1 \in 1 .. n /\ stack[i + 1].edit = NoEdit
  BY <1>1, <1>2 DEF Shaped
<1>10. stack[1].kind = "popless" => stack[1].edit = NoEdit /\ cmdwin = NoEdit
  <2>1. SUFFICES ASSUME stack[1].kind = "popless" PROVE stack[1].edit = NoEdit /\ cmdwin = NoEdit
    OBVIOUS
  <2>2. stack[1].edit = NoEdit  BY <1>2, <1>5, <1>6, <2>1
  <2>3. ASSUME NEW i \in 1 .. n, i + 1 \in 1 .. n, stack[i + 1].edit = NoEdit PROVE FALSE
    <3>1. 1 \in 1 .. n /\ i + 1 # 1  BY <1>2
    <3>. QED  BY <1>6, <2>2, <2>3, <3>1
  <2>. QED  BY <1>9, <2>2, <2>3
<1>11. stack[1].kind = "edit" => stack[1].edit # NoEdit
  <2>1. 1 \in 1 .. n  BY <1>2
  <2>. QED  BY <1>5, <1>6, <2>1
<1>12. rest # <<>> /\ rest[Len(rest)] = RecvFrame
  <2>1. rest[n] = stack[n + 1] /\ rest # <<>>
    <3>1. n \in 1 .. n /\ Len(<<>>) = 0 /\ n # 0  BY <1>2
    <3>. QED  BY <1>3, <3>1
  <2>. QED  BY <1>2, <1>3, <2>1 DEF Shaped
<1>13. \A i \in 1 .. n - 1 :
         \/ rest[i] = PoplessFrame
         \/ /\ rest[i].kind = "edit" /\ rest[i].keymap \in EditMaps
            /\ rest[i].edit \in {tw2, cmdwin2} \ {NoEdit}
  <2>1. SUFFICES ASSUME NEW i \in 1 .. n - 1
                 PROVE  \/ rest[i] = PoplessFrame
                        \/ /\ rest[i].kind = "edit" /\ rest[i].keymap \in EditMaps
                           /\ rest[i].edit \in {tw2, cmdwin2} \ {NoEdit}
    OBVIOUS
  <2>2. PICK k \in 1 .. n : rest[i] = stack[k] /\ stack[k].edit # stack[1].edit  BY <1>7
  <2>. QED  BY <1>0, <1>6, <2>2
<1>14. \A i, j \in 1 .. n - 1 : rest[i].edit = rest[j].edit => i = j
  <2>1. ASSUME NEW i \in 1 .. n - 1, NEW j \in 1 .. n - 1, rest[i].edit = rest[j].edit PROVE i = j
    <3>1. PICK k \in 1 .. n : k = i + 1 /\ rest[i] = stack[k]  BY <1>7
    <3>2. PICK l \in 1 .. n : l = j + 1 /\ rest[j] = stack[l]  BY <1>7
    <3>3. k = l  BY <1>6, <2>1, <3>1, <3>2
    <3>. QED  BY <3>1, <3>2, <3>3
  <2>. QED  BY <2>1
<1>15. tw2 # NoEdit => \E i \in 1 .. n - 1 : rest[i].edit = tw2
  <2>1. SUFFICES ASSUME tw2 # NoEdit PROVE \E i \in 1 .. n - 1 : rest[i].edit = tw2  OBVIOUS
  <2>2. tw2 = tw /\ stack[1].edit # tw
    <3>1. tw = cmdwin => tw = NoEdit  BY DEF Shaped
    <3>. QED  BY <1>0, <1>10, <1>11, <2>1, <3>1
  <2>3. PICK i \in 1 .. n : stack[i].edit = tw  BY <1>1, <1>2, <2>1, <2>2 DEF Shaped
  <2>4. i \in 2 .. n  BY <2>2, <2>3
  <2>. QED  BY <1>8, <2>2, <2>3, <2>4
<1>16. cmdwin2 # NoEdit =>
         \E i \in 1 .. n - 1 :
            rest[i].edit = cmdwin2 /\ i + 1 \in 1 .. n - 1 /\ rest[i + 1].edit = NoEdit
  <2>1. SUFFICES ASSUME cmdwin2 # NoEdit
                 PROVE  \E i \in 1 .. n - 1 :
                          rest[i].edit = cmdwin2 /\ i + 1 \in 1 .. n - 1 /\ rest[i + 1].edit = NoEdit
    OBVIOUS
  <2>2. cmdwin2 = cmdwin /\ stack[1].edit # cmdwin
    <3>1. tw = cmdwin => tw = NoEdit  BY DEF Shaped
    <3>. QED  BY <1>0, <1>10, <1>11, <2>1, <3>1
  <2>3. PICK i \in 1 .. n : stack[i].edit = cmdwin /\ i + 1 \in 1 .. n /\ stack[i + 1].edit = NoEdit
    BY <1>9, <2>1, <2>2
  <2>4. PICK k \in 1 .. n - 1 : k = i - 1 /\ rest[k] = stack[i]
    <3>1. i \in 2 .. n  BY <2>2, <2>3
    <3>. QED  BY <1>8, <3>1
  <2>5. k + 1 \in 1 .. n - 1 /\ rest[k + 1] = stack[i + 1]
    <3>1. i \in Nat /\ i >= 1 /\ i + 1 <= n  BY <2>3
    <3>2. k = i - 1  BY <2>4
    <3>3. k + 1 = i  BY <3>1, <3>2
    <3>4. i <= n - 1  BY <3>1
    <3>5. i \in 1 .. n - 1  BY <3>1, <3>4
    <3>. QED  BY <1>7, <3>3, <3>5
  <2>. QED  BY <2>2, <2>3, <2>4, <2>5
<1>17. viewer2 <=> \E i \in 1 .. n - 1 : rest[i].edit = NoEdit
  <2>1. viewer <=> \E i \in 1 .. n : stack[i].edit = NoEdit  BY <1>1, <1>2 DEF Shaped
  <2>2. CASE stack[1].kind = "edit"
    <3>1. viewer2 = viewer  BY <1>0, <2>2
    <3>2. ASSUME NEW i \in 1 .. n, stack[i].edit = NoEdit
          PROVE  \E k \in 1 .. n - 1 : rest[k].edit = NoEdit
      <4>1. i \in 2 .. n  BY <1>11, <2>2, <3>2
      <4>. QED  BY <1>8, <3>2, <4>1
    <3>3. ASSUME NEW i \in 1 .. n - 1, rest[i].edit = NoEdit
          PROVE  \E k \in 1 .. n : stack[k].edit = NoEdit
      BY <1>7, <3>3
    <3>. QED  BY <2>1, <3>1, <3>2, <3>3
  <2>3. CASE stack[1].kind = "popless"
    <3>1. \A i \in 1 .. n - 1 : rest[i].edit # NoEdit  BY <1>7, <1>10, <2>3
    <3>. QED  BY <1>0, <2>3, <3>1
  <2>. QED  BY <1>0, <2>2, <2>3
<1>18. tw2 = cmdwin2 => tw2 = NoEdit
  <2>1. tw = cmdwin => tw = NoEdit  BY DEF Shaped
  <2>. QED  BY <1>0, <1>10, <2>1
<1>19. Shaped(rest, tw2, cmdwin2, viewer2)
  BY <1>3, <1>12, <1>13, <1>14, <1>15, <1>16, <1>17, <1>18 DEF Shaped
<1>20. stack[1].edit = cmdwin /\ cmdwin # NoEdit => stack[2].edit = NoEdit
  <2>1. SUFFICES ASSUME stack[1].edit = cmdwin, cmdwin # NoEdit PROVE stack[2].edit = NoEdit  OBVIOUS
  <2>2. PICK i \in 1 .. n : stack[i].edit = cmdwin /\ stack[i + 1].edit = NoEdit  BY <1>9, <2>1
  <2>3. i = 1
    <3>1. 1 \in 1 .. n  BY <1>2
    <3>. QED  BY <1>6, <2>1, <2>2, <3>1
  <2>4. i + 1 = 2  BY <2>3
  <2>. QED  BY <2>2, <2>4
<1>21. Lowered(stack, cmdwin, rest)  BY <1>2, <1>3, <1>4, <1>10, <1>20 DEF Lowered
<1>. QED  BY <1>3, <1>19, <1>21

-----------------------------------------------------------------------------
(* What the parts of an operation change, and what they leave alone.       *)
SameStack(s, t)  == t.stack = s.stack /\ t.keymap = s.keymap /\ t.keys = s.keys /\ t.esc = s.esc
SamePlaces(s, t) == t.tw = s.tw /\ t.cmdwin = s.cmdwin /\ t.viewer = s.viewer
SameRest(s, t)   == t.hist = s.hist /\ t.crashed = s.crashed
ChangedAt(edits, e, editor, changed) ==
  /\ editor \in Editors /\ changed \in Seq(Editors) /\ Len(changed) = Len(edits)
  /\ \A x \in 1 .. Len(edits) : changed[x] = IF x = e THEN editor ELSE edits[x]

(* owl_keyhandler_activate changes the keymap, and forgets the keys that   *)
(* wait if it is another.                                                  *)
LEMMA ActivateIs ==
  ASSUME NEW s \in UI, NEW keymap \in ActiveMaps, NEW t, t = Activate(s, keymap)
  PROVE  /\ t \in UI /\ t.stack = s.stack /\ t.keymap = keymap /\ t.edits = s.edits
         /\ SamePlaces(s, t) /\ SameRest(s, t) /\ KeysStay(s, t)
<1>1. CASE s.keymap = keymap
  BY <1>1 DEF Activate, SamePlaces, SameRest, KeysStay
<1>2. CASE s.keymap # keymap
  <2>1. PICK r : r = ResetKeys(s)  OBVIOUS
  <2>2. <<>> \in Seq(KeyNames)  OBVIOUS
  <2>3. /\ r \in UI /\ r.stack = s.stack /\ r.edits = s.edits /\ r.tw = s.tw /\ r.cmdwin = s.cmdwin
        /\ r.viewer = s.viewer /\ r.hist = s.hist /\ r.crashed = s.crashed /\ r.keys = <<>>
    BY <2>1, <2>2 DEF ResetKeys, UI
  <2>4. t = [r EXCEPT !.keymap = keymap]  BY <1>2, <2>1 DEF Activate
  <2>5. /\ t \in UI /\ t.stack = r.stack /\ t.edits = r.edits /\ t.tw = r.tw /\ t.cmdwin = r.cmdwin
        /\ t.viewer = r.viewer /\ t.hist = r.hist /\ t.crashed = r.crashed /\ t.keys = r.keys
        /\ t.keymap = keymap
    BY <2>3, <2>4 DEF UI
  <2>. QED  BY <2>3, <2>5 DEF SamePlaces, SameRest, KeysStay
<1>. QED  BY <1>1, <1>2

(* owl_global_push_context puts a frame on the stack and activates its     *)
(* keymap.                                                                 *)
LEMMA PushContextIs ==
  ASSUME NEW s \in UI, NEW frame \in Frames, NEW t, t = PushContext(s, frame)
  PROVE  /\ t \in UI /\ t.stack = <<frame>> \o s.stack /\ t.keymap = frame.keymap
         /\ t.edits = s.edits /\ SamePlaces(s, t) /\ SameRest(s, t) /\ KeysStay(s, t)
<1>1. PICK longer \in Seq(Frames) : longer = <<frame>> \o s.stack
  <2>1. s.stack \in Seq(Frames)  BY DEF UI
  <2>. QED  BY <2>1, PushedIsFirst
<1>2. PICK r : r = [s EXCEPT !.stack = longer]  OBVIOUS
<1>3. /\ r \in UI /\ r.stack = longer /\ r.edits = s.edits /\ SamePlaces(s, r) /\ SameRest(s, r)
      /\ r.keys = s.keys /\ r.keymap = s.keymap
  BY <1>2 DEF UI, SamePlaces, SameRest
<1>4. t = Activate(r, frame.keymap)  BY <1>1, <1>2 DEF PushContext
<1>5. frame.keymap \in ActiveMaps  BY DEF Frames
<1>6. /\ t \in UI /\ t.stack = r.stack /\ t.keymap = frame.keymap /\ t.edits = r.edits
      /\ SamePlaces(r, t) /\ SameRest(r, t) /\ KeysStay(r, t)
  BY <1>3, <1>4, <1>5, ActivateIs
<1>. QED  BY <1>1, <1>3, <1>6 DEF SamePlaces, SameRest, KeysStay

(* owl_editwin_ref counts one more reference, and changes nothing else.    *)
LEMMA RefIs ==
  ASSUME NEW s \in UI, NEW e \in 1 .. Len(s.edits), NEW t, t = Ref(s, e)
  PROVE  /\ t \in UI /\ SameStack(s, t) /\ SamePlaces(s, t) /\ SameRest(s, t)
         /\ \E editor \in Editors :
              /\ ChangedAt(s.edits, e, editor, t.edits)
              /\ editor = [s.edits[e] EXCEPT !.refs = s.edits[e].refs + 1]
<1>1. PICK edits \in Seq(Editors) : edits = s.edits  BY DEF UI
<1>2. PICK old \in Editors : old = edits[e]  BY <1>1
<1>3. PICK editor : editor = [old EXCEPT !.refs = old.refs + 1]  OBVIOUS
<1>4. editor \in Editors
  <2>1. old.refs + 1 \in Nat  BY DEF Editors
  <2>. QED  BY <1>3, <2>1 DEF Editors
<1>5. PICK changed : changed = [edits EXCEPT ![e] = editor]  OBVIOUS
<1>6. ChangedAt(edits, e, editor, changed)  BY <1>1, <1>4, <1>5, ExceptSeq DEF ChangedAt
<1>7. t = [s EXCEPT !.edits = changed]
  <2>1. t = [s EXCEPT !.edits = [s.edits EXCEPT ![e] = [s.edits[e] EXCEPT !.refs = s.edits[e].refs + 1]]]
    BY DEF Ref
  <2>. QED  BY <1>1, <1>2, <1>3, <1>5, <2>1
<1>8. /\ t \in UI /\ SameStack(s, t) /\ SamePlaces(s, t) /\ SameRest(s, t) /\ t.edits = changed
  <2>1. changed \in Seq(Editors)  BY <1>6 DEF ChangedAt
  <2>. QED  BY <1>7, <2>1 DEF UI, SameStack, SamePlaces, SameRest
<1>. QED  BY <1>1, <1>2, <1>3, <1>4, <1>6, <1>8

(* An editor with one reference less; the text goes with the last one.     *)
LetGo(old, editor) ==
  /\ editor.refs = old.refs - 1 /\ editor.closed = old.closed /\ editor.hist = old.hist
  /\ editor.style = old.style /\ editor.callback = old.callback
  /\ editor.refs = 0 => ~editor.browsing
  /\ editor.refs # 0 => editor.text = old.text /\ editor.typed = old.typed
                        /\ editor.browsing = old.browsing

(* owl_editwin_unref counts one less of a reference that is held, and      *)
(* changes nothing else.                                                   *)
LEMMA UnrefIs ==
  ASSUME NEW s \in UI, NEW e \in 1 .. Len(s.edits), s.edits[e].refs # 0, NEW t, t = Unref(s, e)
  PROVE  /\ t \in UI /\ SameStack(s, t) /\ SamePlaces(s, t) /\ SameRest(s, t)
         /\ \E editor \in Editors :
              ChangedAt(s.edits, e, editor, t.edits) /\ LetGo(s.edits[e], editor)
<1>1. PICK edits \in Seq(Editors) : edits = s.edits  BY DEF UI
<1>2. PICK old \in Editors : old = edits[e]  BY <1>1
<1>3. PICK editor \in Editors :
        /\ editor = IF old.refs = 1
                    THEN [old EXCEPT !.refs = 0, !.text = <<>>, !.typed = <<>>, !.browsing = FALSE]
                    ELSE [old EXCEPT !.refs = old.refs - 1]
        /\ LetGo(old, editor)
  <2>1. <<>> \in Texts /\ FALSE \in BOOLEAN  BY DEF Texts
  <2>2. old.refs \in Nat \ {0}  BY <1>1, <1>2 DEF Editors
  <2>3. CASE old.refs = 1
    <3>1. PICK freed : freed = [old EXCEPT !.refs = 0, !.text = <<>>, !.typed = <<>>, !.browsing = FALSE]
      OBVIOUS
    <3>2. /\ freed \in Editors /\ freed.refs = 0 /\ ~freed.browsing /\ freed.closed = old.closed
          /\ freed.hist = old.hist /\ freed.style = old.style /\ freed.callback = old.callback
      BY <2>1, <3>1 DEF Editors
    <3>3. freed = IF old.refs = 1
                  THEN [old EXCEPT !.refs = 0, !.text = <<>>, !.typed = <<>>, !.browsing = FALSE]
                  ELSE [old EXCEPT !.refs = old.refs - 1]
      BY <2>3, <3>1, Zenon
    <3>4. freed.refs = old.refs - 1  BY <2>3, <3>2
    <3>5. LetGo(old, freed)  BY <3>2, <3>4 DEF LetGo
    <3>. QED  BY <3>2, <3>3, <3>5, Zenon
  <2>4. CASE old.refs # 1
    <3>1. PICK less : less = [old EXCEPT !.refs = old.refs - 1]  OBVIOUS
    <3>2. old.refs - 1 \in Nat /\ old.refs - 1 # 0  BY <2>2, <2>4
    <3>3. /\ less \in Editors /\ less.refs = old.refs - 1 /\ less.closed = old.closed
          /\ less.hist = old.hist /\ less.style = old.style /\ less.callback = old.callback
          /\ less.text = old.text /\ less.typed = old.typed /\ less.browsing = old.browsing
      BY <3>1, <3>2 DEF Editors
    <3>4. LetGo(old, less)  BY <2>2, <2>4, <3>3 DEF LetGo
    <3>5. less = IF old.refs = 1
                 THEN [old EXCEPT !.refs = 0, !.text = <<>>, !.typed = <<>>, !.browsing = FALSE]
                 ELSE [old EXCEPT !.refs = old.refs - 1]
      BY <2>4, <3>1, Zenon
    <3>. QED  BY <3>3, <3>4, <3>5, Zenon
  <2>. QED  BY <2>3, <2>4, Zenon
<1>5. PICK changed : changed = [edits EXCEPT ![e] = editor]  OBVIOUS
<1>6. ChangedAt(edits, e, editor, changed)  BY <1>1, <1>3, <1>5, ExceptSeq DEF ChangedAt
<1>7. t = [s EXCEPT !.edits = changed]
  <2>1. e # NoEdit  BY DEF NoEdit
  <2>2. CASE old.refs = 1
    <3>1. t = [s EXCEPT !.edits = [s.edits EXCEPT ![e] =
                 [s.edits[e] EXCEPT !.refs = 0, !.text = <<>>, !.typed = <<>>, !.browsing = FALSE]]]
      BY <1>1, <1>2, <2>1, <2>2 DEF Unref
    <3>. QED  BY <1>1, <1>2, <1>3, <1>5, <2>2, <3>1
  <2>3. CASE old.refs # 1
    <3>1. t = [s EXCEPT !.edits = [s.edits EXCEPT ![e] =
                 [s.edits[e] EXCEPT !.refs = s.edits[e].refs - 1]]]
      BY <1>1, <1>2, <2>1, <2>3 DEF Unref
    <3>. QED  BY <1>1, <1>2, <1>3, <1>5, <2>3, <3>1
  <2>. QED  BY <2>2, <2>3
<1>8. /\ t \in UI /\ SameStack(s, t) /\ SamePlaces(s, t) /\ SameRest(s, t) /\ t.edits = changed
  <2>1. changed \in Seq(Editors)  BY <1>6 DEF ChangedAt
  <2>. QED  BY <1>7, <2>1 DEF UI, SameStack, SamePlaces, SameRest
<1>. QED  BY <1>1, <1>2, <1>3, <1>6, <1>8

(* A new editor is the last of them.                                       *)
LEMMA NewEditIs ==
  ASSUME NEW s \in UI, NEW editStyle \in EditStyles, NEW hist \in EditHistories,
         NEW callback \in Callbacks,
         NEW t, t = NewEdit(s, editStyle, hist, callback)
  PROVE  /\ t \in UI /\ SameStack(s, t) /\ SamePlaces(s, t) /\ SameRest(s, t)
         /\ Len(t.edits) = Len(s.edits) + 1 /\ \A x \in 1 .. Len(s.edits) : t.edits[x] = s.edits[x]
         /\ \E new \in Editors :
              /\ t.edits[Len(s.edits) + 1] = new
              /\ new.text = <<>> /\ new.refs = 1 /\ new.closed = 0 /\ ~new.browsing
              /\ new.style = editStyle /\ new.hist = hist /\ new.callback = callback
<1>1. PICK edits \in Seq(Editors) : edits = s.edits  BY DEF UI
<1>2. PICK new : new = [text |-> <<>>, style |-> editStyle, hist |-> hist, callback |-> callback,
                        refs |-> 1, closed |-> 0, browsing |-> FALSE, typed |-> <<>>]
  OBVIOUS
<1>3. /\ new \in Editors /\ new.text = <<>> /\ new.refs = 1 /\ new.closed = 0 /\ ~new.browsing
      /\ new.style = editStyle /\ new.hist = hist /\ new.callback = callback
  <2>1. <<>> \in Texts  BY DEF Texts
  <2>. QED  BY <1>2, <2>1 DEF Editors
<1>4. PICK longer \in Seq(Editors) :
        /\ longer = Append(edits, new) /\ Len(longer) = Len(edits) + 1
        /\ longer[Len(edits) + 1] = new /\ \A x \in 1 .. Len(edits) : longer[x] = edits[x]
  <2>1. /\ Append(edits, new) \in Seq(Editors) /\ Len(Append(edits, new)) = Len(edits) + 1
        /\ Append(edits, new)[Len(edits) + 1] = new
        /\ \A x \in 1 .. Len(edits) : Append(edits, new)[x] = edits[x]
    BY <1>3, AppendProperties
  <2>. QED  BY <2>1
<1>5. t = [s EXCEPT !.edits = longer]  BY <1>1, <1>2, <1>4 DEF NewEdit
<1>6. t \in UI /\ SameStack(s, t) /\ SamePlaces(s, t) /\ SameRest(s, t) /\ t.edits = longer
  BY <1>5 DEF UI, SameStack, SamePlaces, SameRest
<1>7. Len(t.edits) = Len(s.edits) + 1 /\ t.edits[Len(s.edits) + 1] = new  BY <1>1, <1>4, <1>6
<1>. QED  BY <1>1, <1>3, <1>4, <1>6, <1>7

(* An operation leaves the closed editors closed and the others open.      *)
OpensOnly(s, t) ==
  /\ Len(t.edits) >= Len(s.edits)
  /\ \A x \in 1 .. Len(s.edits) : t.edits[x].closed = s.edits[x].closed
  /\ \A x \in 1 .. Len(t.edits) : x > Len(s.edits) => t.edits[x].closed = 0

(* The editor on top, if there is one, does not end with the key that      *)
(* brought it there.                                                       *)
QuietTop(t) ==
  TopEdit(t) = NoEdit \/ t.edits[TopEdit(t)].style = "line" \/ t.edits[TopEdit(t)].text = <<>>

(* An editor in the typing window.                                         *)
LEMMA OpenMainIsSound ==
  ASSUME NEW s, NEW held \in Nat, NEW open \in Nat, Sound(s, held, open), s.tw = NoEdit,
         NEW editStyle \in EditStyles, NEW keymap \in EditMaps, NEW hist \in HistoryNames,
         NEW callback \in Callbacks \ {"search"},
         NEW t, t = OpenMain(s, editStyle, keymap, hist, callback)
  PROVE  /\ Sound(t, held, open) /\ KeysStay(s, t) /\ OpensOnly(s, t) /\ QuietTop(t)
         /\ Len(t.stack) = Len(s.stack) + 1 /\ Len(t.edits) = Len(s.edits) + 1
<1>1. PICK n \in Nat : n = Len(s.edits)
  <2>1. s.edits \in Seq(Editors)  BY DEF Sound, UI
  <2>. QED  BY <2>1
<1>2. PICK e \in Nat : e = n + 1  OBVIOUS
<1>3. PICK r1 : r1 = NewEdit(s, editStyle, hist, callback)  OBVIOUS
<1>4. s \in UI  BY DEF Sound
<1>5. PICK new :
        /\ r1 \in UI /\ SameStack(s, r1) /\ SamePlaces(s, r1) /\ SameRest(s, r1)
        /\ Len(r1.edits) = e /\ \A x \in 1 .. n : r1.edits[x] = s.edits[x]
        /\ r1.edits[e] = new
        /\ new.text = <<>> /\ new.refs = 1 /\ new.closed = 0 /\ ~new.browsing /\ new.hist = hist
  <2>1. hist \in EditHistories /\ callback \in Callbacks  BY DEF EditHistories
  <2>2. \E new \in Editors :
          /\ r1.edits[Len(s.edits) + 1] = new
          /\ new.text = <<>> /\ new.refs = 1 /\ new.closed = 0 /\ ~new.browsing
          /\ new.style = editStyle /\ new.hist = hist /\ new.callback = callback
    BY <1>3, <1>4, <2>1, NewEditIs
  <2>3. /\ r1 \in UI /\ SameStack(s, r1) /\ SamePlaces(s, r1) /\ SameRest(s, r1)
        /\ Len(r1.edits) = Len(s.edits) + 1 /\ \A x \in 1 .. Len(s.edits) : r1.edits[x] = s.edits[x]
    BY <1>3, <1>4, <2>1, NewEditIs
  <2>. QED  BY <1>1, <1>2, <2>2, <2>3
<1>6. PICK r2 : r2 = [r1 EXCEPT !.tw = e]  OBVIOUS
<1>7. /\ r2 \in UI /\ SameStack(s, r2) /\ SameRest(s, r2) /\ r2.edits = r1.edits
      /\ r2.tw = e /\ r2.cmdwin = s.cmdwin /\ r2.viewer = s.viewer
  BY <1>5, <1>6 DEF UI, SameStack, SamePlaces, SameRest
<1>8. PICK r3 : r3 = Ref(r2, e)  OBVIOUS
<1>9. e \in 1 .. Len(r2.edits)  BY <1>2, <1>5, <1>7
<1>10. PICK editor \in Editors :
        /\ r3 \in UI /\ SameStack(r2, r3) /\ SamePlaces(r2, r3) /\ SameRest(r2, r3)
        /\ ChangedAt(r2.edits, e, editor, r3.edits)
        /\ editor = [r2.edits[e] EXCEPT !.refs = r2.edits[e].refs + 1]
  BY <1>7, <1>8, <1>9, RefIs
<1>11. /\ editor.refs = 2 /\ editor.closed = 0 /\ ~editor.browsing /\ editor.text = <<>>
       /\ editor.hist = hist
  <2>1. r2.edits[e] = new /\ new \in Editors
    <3>1. r2.edits \in Seq(Editors)  BY <1>7 DEF UI
    <3>. QED  BY <1>5, <1>7, <1>9, <3>1
  <2>. QED  BY <1>5, <1>10, <2>1 DEF Editors
<1>12. PICK frame \in Frames : frame = Frame("edit", keymap, e)  BY DEF Frames, Frame, ActiveMaps
<1>13. frame.kind = "edit" /\ frame.keymap = keymap /\ frame.edit = e  BY <1>12 DEF Frame
<1>14. t = PushContext(r3, frame)  BY <1>1, <1>2, <1>3, <1>6, <1>8, <1>12 DEF OpenMain
<1>15. /\ t \in UI /\ t.stack = <<frame>> \o r3.stack /\ t.keymap = frame.keymap
       /\ t.edits = r3.edits /\ SamePlaces(r3, t) /\ SameRest(r3, t) /\ KeysStay(r3, t)
  BY <1>10, <1>14, PushContextIs
<1>16. /\ t.stack = <<frame>> \o s.stack /\ t.tw = e /\ t.cmdwin = s.cmdwin /\ t.viewer = s.viewer
       /\ t.hist = s.hist /\ t.crashed = s.crashed /\ KeysStay(s, t)
  BY <1>7, <1>10, <1>15 DEF SameStack, SamePlaces, SameRest, KeysStay
<1>17. /\ s.stack \in Seq(Frames) /\ s.cmdwin \in Nat /\ s.viewer \in BOOLEAN /\ s.tw \in Nat
  BY <1>4 DEF UI
<1>18. s.cmdwin \in 0 .. n /\ held \in 0 .. n /\ open \in 0 .. n  BY <1>1 DEF Sound, Edited
<1>19. Shaped(t.stack, t.tw, t.cmdwin, t.viewer)
  <2>1. e \notin {NoEdit, s.cmdwin}  BY <1>2, <1>18 DEF NoEdit
  <2>2. Shaped(s.stack, s.tw, s.cmdwin, s.viewer)  BY DEF Sound
  <2>. QED  BY <1>13, <1>16, <1>17, <2>1, <2>2, PushKeepsShape
<1>20. /\ Len(t.stack) = Len(s.stack) + 1 /\ t.stack[1] = frame
  BY <1>16, <1>17, PushedIsFirst
<1>21. /\ Len(t.edits) = e /\ t.edits[e] = editor
       /\ \A x \in 1 .. n : t.edits[x] = s.edits[x]
  <2>1. Len(r2.edits) = e /\ \A x \in 1 .. n : x \in 1 .. Len(r2.edits) /\ x # e /\ r2.edits[x] = s.edits[x]
    BY <1>2, <1>5, <1>7
  <2>. QED  BY <1>9, <1>10, <1>15, <2>1 DEF ChangedAt
<1>22. Edited(t.edits, t.tw, t.cmdwin, held, open)
  <2>1. {t.tw, t.cmdwin, held, open} \subseteq 0 .. Len(t.edits)  BY <1>2, <1>16, <1>18, <1>21
  <2>2. ASSUME NEW x \in 1 .. n
        PROVE  /\ t.edits[x].refs = Due(x, t.tw, t.cmdwin, held)
               /\ t.edits[x].closed = IF x \in {t.tw, t.cmdwin, open} THEN 0 ELSE 1
               /\ t.edits[x].browsing => t.edits[x].hist # "none" /\ x \in {t.tw, held}
               /\ x = t.cmdwin => t.edits[x].hist = "none" /\ t.edits[x].style = "line"
                                  /\ t.edits[x].callback = "search"
    <3>1. x # e /\ x # s.tw  BY <1>2 DEF NoEdit
    <3>2. /\ s.edits[x].refs = Due(x, s.tw, s.cmdwin, held)
          /\ s.edits[x].closed = IF x \in {s.tw, s.cmdwin, open} THEN 0 ELSE 1
          /\ s.edits[x].browsing => s.edits[x].hist # "none" /\ x \in {s.tw, held}
          /\ x = s.cmdwin => s.edits[x].hist = "none" /\ s.edits[x].style = "line"
                             /\ s.edits[x].callback = "search"
      BY <1>1 DEF Sound, Edited
    <3>3. Due(x, t.tw, t.cmdwin, held) = Due(x, s.tw, s.cmdwin, held)  BY <1>16, <3>1 DEF Due
    <3>. QED  BY <1>16, <1>21, <3>1, <3>2, <3>3
  <2>3. /\ t.edits[e].refs = Due(e, t.tw, t.cmdwin, held)
        /\ t.edits[e].closed = IF e \in {t.tw, t.cmdwin, open} THEN 0 ELSE 1
        /\ t.edits[e].browsing => t.edits[e].hist # "none" /\ e \in {t.tw, held}
        /\ e # t.cmdwin
    <3>1. e # held /\ e # s.cmdwin  BY <1>2, <1>18
    <3>2. Due(e, t.tw, t.cmdwin, held) = 2  BY <1>16, <3>1 DEF Due
    <3>. QED  BY <1>11, <1>16, <1>21, <3>1, <3>2
  <2>4. \A x \in 1 .. Len(t.edits) : x \in 1 .. n \/ x = e  BY <1>2, <1>21
  <2>. QED  BY <2>1, <2>2, <2>3, <2>4 DEF Edited
<1>23. Browsed(t.edits, t.tw, t.hist)  BY <1>11, <1>16, <1>21 DEF Browsed
<1>24. Sound(t, held, open)
  BY <1>13, <1>15, <1>16, <1>19, <1>20, <1>22, <1>23 DEF Sound
<1>25. OpensOnly(s, t)  BY <1>1, <1>2, <1>11, <1>21 DEF OpensOnly
<1>26. QuietTop(t)
  <2>1. TopEdit(t) = e
    <3>1. t.stack # <<>>  BY <1>19 DEF Shaped
    <3>. QED  BY <1>13, <1>15, <1>20, <3>1, TopIsFirst
  <2>. QED  BY <1>11, <1>21, <2>1 DEF QuietTop
<1>. QED  BY <1>1, <1>2, <1>16, <1>20, <1>21, <1>24, <1>25, <1>26

(* The viewer, unless there is one.                                        *)
LEMMA PoplessIsSound ==
  ASSUME NEW s, NEW held \in Nat, NEW open \in Nat, Sound(s, held, open), NEW t, t = Popless(s)
  PROVE  /\ Sound(t, held, open) /\ KeysStay(s, t) /\ t.edits = s.edits
         /\ t = s \/ (QuietTop(t) /\ Len(t.stack) = Len(s.stack) + 1)
<1>1. CASE s.viewer
  <2>1. t = s  BY <1>1 DEF Popless
  <2>. QED  BY <2>1 DEF KeysStay
<1>2. CASE ~s.viewer
  <2>1. s \in UI  BY DEF Sound
  <2>2. PICK r : r = [s EXCEPT !.viewer = TRUE]  OBVIOUS
  <2>3. /\ r \in UI /\ r.stack = s.stack /\ r.keymap = s.keymap /\ r.keys = s.keys
        /\ r.edits = s.edits /\ r.tw = s.tw /\ r.cmdwin = s.cmdwin /\ r.viewer /\ r.hist = s.hist
        /\ r.crashed = s.crashed
    BY <2>1, <2>2 DEF UI
  <2>4. PICK frame \in Frames : frame = PoplessFrame  BY DEF Frames, Frame, PoplessFrame, NoEdit, ActiveMaps
  <2>5. frame.keymap = "popless" /\ frame.edit = NoEdit  BY <2>4 DEF Frame, PoplessFrame
  <2>6. t = PushContext(r, frame)  BY <1>2, <2>2, <2>4 DEF Popless, PoplessFrame
  <2>7. /\ t \in UI /\ t.stack = <<frame>> \o r.stack /\ t.keymap = frame.keymap
        /\ t.edits = r.edits /\ SamePlaces(r, t) /\ SameRest(r, t) /\ KeysStay(r, t)
    BY <2>3, <2>6, PushContextIs
  <2>8. /\ t.stack = <<frame>> \o s.stack /\ t.tw = s.tw /\ t.cmdwin = s.cmdwin /\ t.viewer
        /\ t.edits = s.edits /\ t.hist = s.hist /\ t.crashed = s.crashed /\ KeysStay(s, t)
    BY <2>3, <2>7 DEF SamePlaces, SameRest, KeysStay
  <2>9. /\ s.stack \in Seq(Frames) /\ s.cmdwin \in Nat /\ s.tw \in Nat /\ s.viewer \in BOOLEAN
        /\ t.viewer \in BOOLEAN
    BY <2>1, <2>7 DEF UI
  <2>10. Shaped(t.stack, t.tw, t.cmdwin, t.viewer)
    <3>1. Shaped(s.stack, s.tw, s.cmdwin, s.viewer)  BY DEF Sound
    <3>2. PICK tw \in Nat, cmdwin \in Nat, viewer \in BOOLEAN, viewer2 \in BOOLEAN :
            tw = s.tw /\ cmdwin = s.cmdwin /\ viewer = s.viewer /\ viewer2 = t.viewer
      BY <2>9
    <3>3. frame = PoplessFrame /\ ~viewer /\ viewer2  BY <1>2, <2>4, <2>8, <3>2
    <3>4. Shaped(<<frame>> \o s.stack, tw, cmdwin, viewer2)
      BY <2>9, <3>1, <3>2, <3>3, PushKeepsShape
    <3>. QED  BY <2>8, <3>2, <3>4
  <2>11. Len(t.stack) = Len(s.stack) + 1 /\ t.stack[1] = frame  BY <2>8, <2>9, PushedIsFirst
  <2>12. Sound(t, held, open)  BY <2>5, <2>7, <2>8, <2>10, <2>11 DEF Sound
  <2>13. QuietTop(t)
    <3>1. t.stack # <<>>  BY <2>10 DEF Shaped
    <3>2. TopEdit(t) = NoEdit  BY <2>5, <2>7, <2>11, <3>1, TopIsFirst
    <3>. QED  BY <3>2 DEF QuietTop
  <2>. QED  BY <2>8, <2>11, <2>12, <2>13
<1>3. s.viewer \in BOOLEAN  BY DEF Sound, UI
<1>. QED  BY <1>1, <1>2, <1>3

(* A context above the message list.                                       *)
LEMMA TopIsAbove ==
  ASSUME NEW s \in UI, Shaped(s.stack, s.tw, s.cmdwin, s.viewer), s.keymap = s.stack[1].keymap
  PROVE  /\ s.stack # <<>> /\ s.stack[1] \in Frames
         /\ s.stack[1].kind = "recv" => s.stack[1] = RecvFrame /\ Len(s.stack) = 1
         /\ s.stack[1].kind = "popless" => s.stack[1] = PoplessFrame /\ s.cmdwin = NoEdit
         /\ s.stack[1].kind = "edit" => /\ s.keymap \in EditMaps
                                        /\ s.stack[1].edit \in {s.tw, s.cmdwin} \ {NoEdit}
         /\ s.keymap = "recv" => s.stack[1].kind = "recv"
         /\ s.keymap = "popless" => s.stack[1].kind = "popless"
         /\ s.keymap \in EditMaps => s.stack[1].kind = "edit"
<1>1. PICK stack \in Seq(Frames) : stack = s.stack  BY DEF UI
<1>2. stack # <<>> /\ stack[Len(stack)] = RecvFrame  BY <1>1 DEF Shaped
<1>3. PICK n \in Nat : Len(stack) = n + 1 /\ 1 \in 1 .. n + 1 /\ stack[1] \in Frames
  <2>1. Len(stack) \in Nat \ {0}  BY <1>2
  <2>2. 1 \in 1 .. Len(stack)  BY <2>1
  <2>3. stack[1] \in Frames  BY <2>2
  <2>4. Len(stack) - 1 \in Nat /\ Len(stack) = (Len(stack) - 1) + 1  BY <2>1
  <2>. QED  BY <2>2, <2>3, <2>4
<1>4. /\ RecvFrame.kind = "recv" /\ RecvFrame.keymap = "recv"
      /\ PoplessFrame.kind = "popless" /\ PoplessFrame.keymap = "popless"
  BY DEF RecvFrame, PoplessFrame, Frame
<1>5. CASE n = 0
  <2>1. stack[1] = RecvFrame /\ Len(stack) = 1  BY <1>2, <1>3, <1>5
  <2>. QED  BY <1>1, <1>2, <1>3, <1>4, <2>1 DEF EditMaps
<1>6. CASE n # 0
  <2>1. \/ stack[1] = PoplessFrame
        \/ /\ stack[1].kind = "edit" /\ stack[1].keymap \in EditMaps
           /\ stack[1].edit \in {s.tw, s.cmdwin} \ {NoEdit}
    <3>1. 1 \in 1 .. Len(stack) - 1  BY <1>3, <1>6
    <3>. QED  BY <1>1, <3>1 DEF Shaped
  <2>2. stack[1] = PoplessFrame => s.cmdwin = NoEdit
    <3>1. SUFFICES ASSUME stack[1] = PoplessFrame PROVE s.cmdwin = NoEdit  OBVIOUS
    <3>2. ASSUME NEW i \in 1 .. n, i + 1 \in 1 .. n, stack[i + 1].edit = NoEdit PROVE FALSE
      <4>1. 1 \in 1 .. n /\ i + 1 # 1  BY <1>6
      <4>2. stack[1].edit = NoEdit  BY <3>1 DEF PoplessFrame, Frame
      <4>3. \A k, l \in 1 .. n : stack[k].edit = stack[l].edit => k = l  BY <1>1, <1>3 DEF Shaped
      <4>. QED  BY <3>2, <4>1, <4>2, <4>3
    <3>3. s.cmdwin # NoEdit => \E i \in 1 .. n : i + 1 \in 1 .. n /\ stack[i + 1].edit = NoEdit
      BY <1>1, <1>3 DEF Shaped
    <3>. QED  BY <3>2, <3>3
  <2>. QED  BY <1>1, <1>2, <1>3, <1>4, <2>1, <2>2 DEF EditMaps
<1>. QED  BY <1>5, <1>6

(* A command line of the viewer.                                           *)
LEMMA StartSearchIsSound ==
  ASSUME NEW s, Sound(s, NoEdit, NoEdit), s.keymap = "popless", NEW t, t = StartSearch(s)
  PROVE  /\ Sound(t, NoEdit, NoEdit) /\ KeysStay(s, t) /\ OpensOnly(s, t) /\ QuietTop(t)
<1>1. PICK n \in Nat : n = Len(s.edits)
  <2>1. s.edits \in Seq(Editors)  BY DEF Sound, UI
  <2>. QED  BY <2>1
<1>2. PICK e \in Nat : e = n + 1  OBVIOUS
<1>3. PICK r1 : r1 = NewEdit(s, "line", "none", "search")  OBVIOUS
<1>4. s \in UI  BY DEF Sound
<1>5. PICK new :
        /\ r1 \in UI /\ SameStack(s, r1) /\ SamePlaces(s, r1) /\ SameRest(s, r1)
        /\ Len(r1.edits) = e /\ \A x \in 1 .. n : r1.edits[x] = s.edits[x]
        /\ r1.edits[e] = new
        /\ new.text = <<>> /\ new.refs = 1 /\ new.closed = 0 /\ ~new.browsing
        /\ new.hist = "none" /\ new.style = "line" /\ new.callback = "search"
  <2>1. "line" \in EditStyles /\ "none" \in EditHistories /\ "search" \in Callbacks
    BY DEF EditStyles, EditHistories, Callbacks
  <2>2. \E new \in Editors :
          /\ r1.edits[Len(s.edits) + 1] = new
          /\ new.text = <<>> /\ new.refs = 1 /\ new.closed = 0 /\ ~new.browsing
          /\ new.style = "line" /\ new.hist = "none" /\ new.callback = "search"
    BY <1>3, <1>4, <2>1, NewEditIs
  <2>3. /\ r1 \in UI /\ SameStack(s, r1) /\ SamePlaces(s, r1) /\ SameRest(s, r1)
        /\ Len(r1.edits) = Len(s.edits) + 1 /\ \A x \in 1 .. Len(s.edits) : r1.edits[x] = s.edits[x]
    BY <1>3, <1>4, <2>1, NewEditIs
  <2>. QED  BY <1>1, <1>2, <2>2, <2>3
<1>6. PICK r2 : r2 = [r1 EXCEPT !.cmdwin = e]  OBVIOUS
<1>7. /\ r2 \in UI /\ SameStack(s, r2) /\ SameRest(s, r2) /\ r2.edits = r1.edits
      /\ r2.tw = s.tw /\ r2.cmdwin = e /\ r2.viewer = s.viewer
  BY <1>5, <1>6 DEF UI, SameStack, SamePlaces, SameRest
<1>8. PICK r3 : r3 = Ref(r2, e)  OBVIOUS
<1>9. e \in 1 .. Len(r2.edits)  BY <1>2, <1>5, <1>7
<1>10. PICK editor \in Editors :
        /\ r3 \in UI /\ SameStack(r2, r3) /\ SamePlaces(r2, r3) /\ SameRest(r2, r3)
        /\ ChangedAt(r2.edits, e, editor, r3.edits)
        /\ editor = [r2.edits[e] EXCEPT !.refs = r2.edits[e].refs + 1]
  BY <1>7, <1>8, <1>9, RefIs
<1>11. /\ editor.refs = 2 /\ editor.closed = 0 /\ ~editor.browsing /\ editor.text = <<>>
       /\ editor.hist = "none" /\ editor.style = "line" /\ editor.callback = "search"
  <2>1. r2.edits[e] = new /\ new \in Editors
    <3>1. r2.edits \in Seq(Editors)  BY <1>7 DEF UI
    <3>. QED  BY <1>5, <1>7, <1>9, <3>1
  <2>. QED  BY <1>5, <1>10, <2>1 DEF Editors
<1>12. PICK frame \in Frames : frame = Frame("edit", "editline", e)
  BY DEF Frames, Frame, ActiveMaps, EditMaps
<1>13. frame.kind = "edit" /\ frame.keymap = "editline" /\ frame.edit = e  BY <1>12 DEF Frame
<1>14. PICK r4 : r4 = PushContext(r3, frame)  OBVIOUS
<1>15. /\ r4 \in UI /\ r4.stack = <<frame>> \o r3.stack /\ r4.keymap = frame.keymap
       /\ r4.edits = r3.edits /\ SamePlaces(r3, r4) /\ SameRest(r3, r4) /\ KeysStay(r3, r4)
  BY <1>10, <1>14, PushContextIs
<1>16. t = Unref(r4, e)  BY <1>1, <1>2, <1>3, <1>6, <1>8, <1>12, <1>14 DEF StartSearch
<1>17. /\ Len(r4.edits) = e /\ r4.edits[e] = editor
       /\ \A x \in 1 .. n : r4.edits[x] = s.edits[x]
  <2>1. Len(r2.edits) = e /\ \A x \in 1 .. n : x \in 1 .. Len(r2.edits) /\ x # e /\ r2.edits[x] = s.edits[x]
    BY <1>2, <1>5, <1>7
  <2>. QED  BY <1>9, <1>10, <1>15, <2>1 DEF ChangedAt
<1>18. PICK last \in Editors :
        /\ t \in UI /\ SameStack(r4, t) /\ SamePlaces(r4, t) /\ SameRest(r4, t)
        /\ ChangedAt(r4.edits, e, last, t.edits)
        /\ last.refs = 1 /\ last.closed = 0 /\ ~last.browsing /\ last.text = <<>>
        /\ last.hist = "none" /\ last.style = "line" /\ last.callback = "search"
  <2>1. e \in 1 .. Len(r4.edits) /\ r4.edits[e].refs # 0  BY <1>2, <1>11, <1>17
  <2>2. t \in UI /\ SameStack(r4, t) /\ SamePlaces(r4, t) /\ SameRest(r4, t)
    BY <1>15, <1>16, <2>1, UnrefIs
  <2>3. PICK last \in Editors :
          ChangedAt(r4.edits, e, last, t.edits) /\ LetGo(r4.edits[e], last)
    BY <1>15, <1>16, <2>1, UnrefIs
  <2>4. LetGo(editor, last)  BY <1>17, <2>3
  <2>5. last.refs = 1  BY <1>11, <2>4 DEF LetGo
  <2>. QED  BY <1>11, <2>2, <2>3, <2>4, <2>5 DEF LetGo
<1>19. /\ t.stack = <<frame>> \o s.stack /\ t.keymap = "editline" /\ t.tw = s.tw /\ t.cmdwin = e
       /\ t.viewer = s.viewer /\ t.hist = s.hist /\ t.crashed = s.crashed /\ KeysStay(s, t)
  BY <1>7, <1>10, <1>13, <1>15, <1>18 DEF SameStack, SamePlaces, SameRest, KeysStay
<1>20. /\ s.stack \in Seq(Frames) /\ s.cmdwin \in Nat /\ s.viewer \in BOOLEAN /\ s.tw \in Nat
  BY <1>4 DEF UI
<1>21. s.tw \in 0 .. n /\ s.cmdwin = NoEdit /\ s.stack[1] = PoplessFrame
  <2>1. s.tw \in 0 .. n  BY <1>1 DEF Sound, Edited
  <2>2. Shaped(s.stack, s.tw, s.cmdwin, s.viewer) /\ s.keymap = s.stack[1].keymap  BY DEF Sound
  <2>. QED  BY <1>4, <2>1, <2>2, TopIsAbove
<1>22. Shaped(t.stack, t.tw, t.cmdwin, t.viewer)
  <2>1. e \notin {NoEdit, s.tw}  BY <1>2, <1>21 DEF NoEdit
  <2>2. Shaped(s.stack, s.tw, s.cmdwin, s.viewer)  BY DEF Sound
  <2>3. frame.keymap \in EditMaps  BY <1>13 DEF EditMaps
  <2>. QED  BY <1>13, <1>19, <1>20, <1>21, <2>1, <2>2, <2>3, PushKeepsShape
<1>23. /\ Len(t.stack) = Len(s.stack) + 1 /\ t.stack[1] = frame
  BY <1>19, <1>20, PushedIsFirst
<1>24. /\ Len(t.edits) = e /\ t.edits[e] = last /\ \A x \in 1 .. n : t.edits[x] = s.edits[x]
  <2>1. e \in 1 .. Len(r4.edits) /\ \A x \in 1 .. n : x \in 1 .. Len(r4.edits) /\ x # e
    BY <1>2, <1>17
  <2>. QED  BY <1>17, <1>18, <2>1 DEF ChangedAt
<1>25. Edited(t.edits, t.tw, t.cmdwin, NoEdit, NoEdit)
  <2>1. {t.tw, t.cmdwin, NoEdit, NoEdit} \subseteq 0 .. Len(t.edits)
    BY <1>2, <1>19, <1>21, <1>24 DEF NoEdit
  <2>2. ASSUME NEW x \in 1 .. n
        PROVE  /\ t.edits[x].refs = Due(x, t.tw, t.cmdwin, NoEdit)
               /\ t.edits[x].closed = IF x \in {t.tw, t.cmdwin, NoEdit} THEN 0 ELSE 1
               /\ t.edits[x].browsing => t.edits[x].hist # "none" /\ x \in {t.tw, NoEdit}
               /\ x # t.cmdwin
    <3>1. x # e /\ x # s.cmdwin  BY <1>2, <1>21 DEF NoEdit
    <3>2. /\ s.edits[x].refs = Due(x, s.tw, s.cmdwin, NoEdit)
          /\ s.edits[x].closed = IF x \in {s.tw, s.cmdwin, NoEdit} THEN 0 ELSE 1
          /\ s.edits[x].browsing => s.edits[x].hist # "none" /\ x \in {s.tw, NoEdit}
      BY <1>1 DEF Sound, Edited
    <3>3. Due(x, t.tw, t.cmdwin, NoEdit) = Due(x, s.tw, s.cmdwin, NoEdit)  BY <1>19, <3>1 DEF Due
    <3>. QED  BY <1>19, <1>24, <3>1, <3>2, <3>3
  <2>3. /\ t.edits[e].refs = Due(e, t.tw, t.cmdwin, NoEdit)
        /\ t.edits[e].closed = IF e \in {t.tw, t.cmdwin, NoEdit} THEN 0 ELSE 1
        /\ t.edits[e].browsing => t.edits[e].hist # "none" /\ e \in {t.tw, NoEdit}
        /\ t.edits[e].hist = "none" /\ t.edits[e].style = "line" /\ t.edits[e].callback = "search"
    <3>1. e # NoEdit /\ e # s.tw  BY <1>2, <1>21 DEF NoEdit
    <3>2. Due(e, t.tw, t.cmdwin, NoEdit) = 1  BY <1>19, <3>1 DEF Due
    <3>. QED  BY <1>18, <1>19, <1>24, <3>1, <3>2
  <2>4. \A x \in 1 .. Len(t.edits) : x \in 1 .. n \/ x = e  BY <1>2, <1>24
  <2>. QED  BY <2>1, <2>2, <2>3, <2>4 DEF Edited
<1>26. Browsed(t.edits, t.tw, t.hist)
  <2>1. Browsed(s.edits, s.tw, s.hist)  BY DEF Sound
  <2>2. s.tw # NoEdit => t.edits[s.tw] = s.edits[s.tw]
    <3>1. s.tw # NoEdit => s.tw \in 1 .. n  BY <1>21 DEF NoEdit
    <3>. QED  BY <1>24, <3>1
  <2>. QED  BY <1>19, <2>1, <2>2 DEF Browsed
<1>27. Sound(t, NoEdit, NoEdit)
  BY <1>13, <1>18, <1>19, <1>22, <1>23, <1>25, <1>26 DEF Sound
<1>28. OpensOnly(s, t)  BY <1>1, <1>2, <1>18, <1>24 DEF OpensOnly
<1>29. QuietTop(t)
  <2>1. TopEdit(t) = e
    <3>1. t.stack # <<>>  BY <1>22 DEF Shaped
    <3>. QED  BY <1>13, <1>18, <1>23, <3>1, TopIsFirst
  <2>. QED  BY <1>18, <1>24, <2>1 DEF QuietTop
<1>. QED  BY <1>19, <1>27, <1>28, <1>29

(* Letting go of an editor's place on the stack.                           *)
Vacates(s, e, d) ==
  \/ e = s.tw /\ d.tw = NoEdit /\ d.cmdwin = s.cmdwin
  \/ e = s.cmdwin /\ d.cmdwin = NoEdit /\ d.tw = s.tw

Deactivated(s) ==
  IF s.cmdwin = TopEdit(s) THEN [s EXCEPT !.cmdwin = NoEdit]
  ELSE [Unref(s, s.tw) EXCEPT !.tw = NoEdit]

(* owl_editwin_deactivate takes the editor out of its place; the context   *)
(* still refers to it, and so does whoever closes it.                      *)
LEMMA DeactivatedIs ==
  ASSUME NEW s, NEW e \in Nat, e = s.stack[1].edit, s.stack[1].kind = "edit", Sound(s, e, NoEdit),
         NEW d, d = Deactivated(s)
  PROVE  /\ e \in 1 .. Len(s.edits) /\ e \in {s.tw, s.cmdwin} /\ s.edits[e].closed = 0
         /\ d \in UI /\ SameStack(s, d) /\ d.viewer = s.viewer /\ SameRest(s, d) /\ Vacates(s, e, d)
         /\ \E mid \in Editors :
              ChangedAt(s.edits, e, mid, d.edits) /\ mid.refs = 2 /\ mid.closed = 0
              /\ mid.hist = s.edits[e].hist /\ mid.style = s.edits[e].style
              /\ mid.callback = s.edits[e].callback /\ mid.browsing = s.edits[e].browsing
<1>1. /\ s \in UI /\ Shaped(s.stack, s.tw, s.cmdwin, s.viewer) /\ s.keymap = s.stack[1].keymap
      /\ Edited(s.edits, s.tw, s.cmdwin, e, NoEdit)
  BY DEF Sound
<1>2. s.stack # <<>> /\ e \in {s.tw, s.cmdwin} \ {NoEdit}  BY <1>1, TopIsAbove
<1>3. TopEdit(s) = e  BY <1>1, <1>2, TopIsFirst
<1>4. PICK edits \in Seq(Editors) : edits = s.edits  BY <1>1 DEF UI
<1>5. e \in 1 .. Len(edits)  BY <1>1, <1>2, <1>4 DEF Edited, NoEdit
<1>6. PICK old \in Editors : old = edits[e]  BY <1>5
<1>7. old.refs = Due(e, s.tw, s.cmdwin, e) /\ old.closed = 0
  BY <1>1, <1>2, <1>4, <1>5, <1>6 DEF Edited
<1>8. s.tw = s.cmdwin => s.tw = NoEdit  BY <1>1 DEF Shaped
<1>9. CASE s.cmdwin = e
  <2>1. d = [s EXCEPT !.cmdwin = NoEdit]  BY <1>3, <1>9 DEF Deactivated
  <2>2. /\ d \in UI /\ SameStack(s, d) /\ d.viewer = s.viewer /\ SameRest(s, d)
        /\ d.cmdwin = NoEdit /\ d.tw = s.tw /\ d.edits = s.edits
    <3>1. NoEdit \in Nat  BY DEF NoEdit
    <3>. QED  BY <1>1, <2>1, <3>1 DEF UI, SameStack, SameRest
  <2>3. old.refs = 2  BY <1>2, <1>7, <1>8, <1>9 DEF Due
  <2>4. ChangedAt(s.edits, e, old, d.edits)  BY <1>4, <1>6, <2>2 DEF ChangedAt
  <2>. QED  BY <1>2, <1>4, <1>5, <1>6, <1>7, <1>9, <2>2, <2>3, <2>4 DEF Vacates
<1>10. CASE s.cmdwin # e
  <2>1. s.tw = e  BY <1>2, <1>10
  <2>2. old.refs = 3  BY <1>7, <2>1 DEF Due
  <2>3. PICK r : r = Unref(s, e)  OBVIOUS
  <2>4. s.edits[e].refs # 0  BY <1>4, <1>6, <2>2
  <2>5. r \in UI /\ SameStack(s, r) /\ SamePlaces(s, r) /\ SameRest(s, r)
    BY <1>1, <1>4, <1>5, <2>3, <2>4, UnrefIs
  <2>6. PICK mid \in Editors : ChangedAt(s.edits, e, mid, r.edits) /\ LetGo(s.edits[e], mid)
    BY <1>1, <1>4, <1>5, <2>3, <2>4, UnrefIs
  <2>7. d = [r EXCEPT !.tw = NoEdit]  BY <1>3, <1>10, <2>1, <2>3 DEF Deactivated
  <2>8. /\ d \in UI /\ SameStack(s, d) /\ d.viewer = s.viewer /\ SameRest(s, d)
        /\ d.tw = NoEdit /\ d.cmdwin = s.cmdwin /\ d.edits = r.edits
    <3>1. NoEdit \in Nat  BY DEF NoEdit
    <3>. QED  BY <2>5, <2>7, <3>1 DEF UI, SameStack, SamePlaces, SameRest
  <2>9. LetGo(old, mid)  BY <1>4, <1>6, <2>6
  <2>10. mid.refs = 2 /\ mid.closed = 0  BY <1>7, <2>2, <2>9 DEF LetGo
  <2>11. /\ mid.hist = old.hist /\ mid.style = old.style /\ mid.callback = old.callback
         /\ mid.browsing = old.browsing
    BY <2>9, <2>10 DEF LetGo
  <2>12. Vacates(s, e, d)  BY <2>1, <2>8 DEF Vacates
  <2>13. ChangedAt(s.edits, e, mid, d.edits)  BY <2>6, <2>8
  <2>. QED  BY <1>2, <1>4, <1>5, <1>6, <1>7, <2>8, <2>10, <2>11, <2>12, <2>13
<1>. QED  BY <1>9, <1>10

(* Popping the context of an editor that somebody holds.                   *)
LEMMA PopEditIsSound ==
  ASSUME NEW s, NEW e \in Nat, e = s.stack[1].edit, s.stack[1].kind = "edit", Sound(s, e, NoEdit),
         NEW t, t = PopContext(s)
  PROVE  /\ e \in 1 .. Len(s.edits) /\ e \notin {t.tw, t.cmdwin}
         /\ Sound(t, e, e) /\ KeysStay(s, t) /\ QuietTop(t)
         /\ Len(t.stack) = Len(s.stack) - 1 /\ Len(t.edits) = Len(s.edits)
         /\ \A x \in 1 .. Len(s.edits) : t.edits[x].closed = s.edits[x].closed
         /\ t.edits[e].callback = "command" => t.tw = NoEdit
<1>1. /\ s \in UI /\ Shaped(s.stack, s.tw, s.cmdwin, s.viewer) /\ s.keymap = s.stack[1].keymap
      /\ Edited(s.edits, s.tw, s.cmdwin, e, NoEdit) /\ s.crashed = FALSE
  BY DEF Sound
<1>2. s.stack # <<>> /\ e # NoEdit  BY <1>1, TopIsAbove
<1>3. Top(s) = s.stack[1] /\ TopEdit(s) = e  BY <1>1, <1>2, TopIsFirst
<1>4. PICK d : d = Deactivated(s)  OBVIOUS
<1>5. /\ e \in 1 .. Len(s.edits) /\ e \in {s.tw, s.cmdwin} /\ s.edits[e].closed = 0
      /\ d \in UI /\ SameStack(s, d) /\ d.viewer = s.viewer /\ SameRest(s, d) /\ Vacates(s, e, d)
  BY <1>4, DeactivatedIs
<1>6. PICK mid \in Editors :
        /\ ChangedAt(s.edits, e, mid, d.edits) /\ mid.refs = 2 /\ mid.closed = 0
        /\ mid.hist = s.edits[e].hist /\ mid.style = s.edits[e].style
        /\ mid.callback = s.edits[e].callback /\ mid.browsing = s.edits[e].browsing
  BY <1>4, DeactivatedIs
<1>7. PICK stack \in Seq(Frames), tw \in Nat, cmdwin \in Nat, viewer \in BOOLEAN :
        stack = s.stack /\ tw = s.tw /\ cmdwin = s.cmdwin /\ viewer = s.viewer
  BY <1>1 DEF UI
<1>8. PICK tw2 \in Nat, cmdwin2 \in Nat : tw2 = d.tw /\ cmdwin2 = d.cmdwin  BY <1>5 DEF UI
<1>9. \/ e = tw /\ tw2 = NoEdit /\ cmdwin2 = cmdwin
      \/ e = cmdwin /\ cmdwin2 = NoEdit /\ tw2 = tw
  BY <1>5, <1>7, <1>8 DEF Vacates
<1>10. PICK rest \in Seq(Frames) :
         /\ rest = Tail(stack) /\ Len(rest) = Len(stack) - 1 /\ rest[1] = stack[2] /\ stack[2] \in Frames
         /\ Shaped(rest, tw2, cmdwin2, viewer)
         /\ stack[1].edit = cmdwin /\ cmdwin # NoEdit => stack[2].edit = NoEdit
  <2>1. Shaped(stack, tw, cmdwin, viewer) /\ stack[1].kind = "edit" /\ stack[1].edit = e
    BY <1>1, <1>7
  <2>2. stack[1].kind # "recv"  BY <2>1
  <2>3. Leaves(stack[1], tw, cmdwin, viewer, tw2, cmdwin2, viewer)  BY <1>9, <2>1 DEF Leaves
  <2>4. Shaped(Tail(stack), tw2, cmdwin2, viewer) /\ Lowered(stack, cmdwin, Tail(stack))
    BY <2>1, <2>2, <2>3, PopKeepsShape
  <2>. QED  BY <2>4 DEF Lowered
<1>11. PICK r3 : r3 = [d EXCEPT !.stack = rest]  OBVIOUS
<1>12. /\ r3 \in UI /\ r3.stack = rest /\ r3.keymap = s.keymap /\ r3.keys = s.keys
       /\ r3.edits = d.edits /\ SamePlaces(d, r3) /\ SameRest(d, r3)
  BY <1>5, <1>11 DEF UI, SameStack, SamePlaces, SameRest
<1>13. PICK keymap \in ActiveMaps : keymap = s.stack[2].keymap  BY <1>7, <1>10 DEF Frames
<1>14. PICK r4 : r4 = Activate(r3, keymap)  OBVIOUS
<1>15. /\ r4 \in UI /\ r4.stack = r3.stack /\ r4.keymap = keymap /\ r4.edits = r3.edits
       /\ SamePlaces(r3, r4) /\ SameRest(r3, r4) /\ KeysStay(r3, r4)
  BY <1>12, <1>14, ActivateIs
<1>16. t = Unref(r4, e)
  <2>1. d.crashed = FALSE  BY <1>1, <1>5 DEF SameRest
  <2>2. d = IF s.cmdwin = e THEN [s EXCEPT !.cmdwin = NoEdit]
            ELSE [Unref(s, s.tw) EXCEPT !.tw = NoEdit]
    BY <1>3, <1>4 DEF Deactivated
  <2>3. [d EXCEPT !.stack = Tail(@)] = r3
    <3>1. d.stack = stack  BY <1>5, <1>7 DEF SameStack
    <3>. QED  BY <1>10, <1>11, <3>1
  <2>. DEFINE frame == Top(s)
              deactivated == IF frame.kind # "edit" THEN s
                             ELSE IF s.cmdwin = frame.edit THEN [s EXCEPT !.cmdwin = NoEdit]
                             ELSE [Unref(s, s.tw) EXCEPT !.tw = NoEdit]
              popped == Activate([deactivated EXCEPT !.stack = Tail(@)], s.stack[2].keymap)
  <2>4. t = IF deactivated.crashed THEN deactivated
            ELSE IF frame.kind = "edit" THEN Unref(popped, frame.edit) ELSE popped
    BY DEF PopContext
  <2>5. frame.kind = "edit" /\ frame.edit = e  BY <1>3
  <2>6. deactivated = d  BY <2>2, <2>5
  <2>7. popped = r4  BY <1>13, <1>14, <2>3, <2>6
  <2>. HIDE DEF popped, deactivated, frame
  <2>. QED  BY <2>1, <2>4, <2>5, <2>6, <2>7
<1>17. /\ r4.stack = rest /\ r4.tw = tw2 /\ r4.cmdwin = cmdwin2 /\ r4.viewer = viewer
       /\ r4.hist = s.hist /\ r4.crashed = FALSE /\ r4.edits = d.edits /\ KeysStay(s, r4)
  BY <1>1, <1>5, <1>7, <1>8, <1>12, <1>15 DEF SameStack, SamePlaces, SameRest, KeysStay
<1>18. Len(r4.edits) = Len(s.edits) /\ r4.edits[e] = mid
  BY <1>5, <1>6, <1>17 DEF ChangedAt
<1>19. e \in 1 .. Len(r4.edits) /\ r4.edits[e].refs # 0  BY <1>5, <1>6, <1>18
<1>20. t \in UI /\ SameStack(r4, t) /\ SamePlaces(r4, t) /\ SameRest(r4, t)
  BY <1>15, <1>16, <1>19, UnrefIs
<1>21. PICK last \in Editors : ChangedAt(r4.edits, e, last, t.edits) /\ LetGo(r4.edits[e], last)
  BY <1>15, <1>16, <1>19, UnrefIs
<1>22. /\ last.refs = 1 /\ last.closed = 0 /\ last.hist = s.edits[e].hist
       /\ last.browsing = s.edits[e].browsing
       /\ last.callback = s.edits[e].callback /\ last.style = s.edits[e].style
  <2>1. LetGo(mid, last)  BY <1>18, <1>21
  <2>. QED  BY <1>6, <2>1 DEF LetGo
<1>23. /\ t.stack = rest /\ t.tw = tw2 /\ t.cmdwin = cmdwin2 /\ t.viewer = viewer
       /\ t.hist = s.hist /\ t.crashed = FALSE /\ t.keymap = keymap /\ KeysStay(s, t)
  BY <1>15, <1>17, <1>20 DEF SameStack, SamePlaces, SameRest, KeysStay
<1>24. /\ Len(t.edits) = Len(s.edits) /\ t.edits[e] = last
       /\ \A x \in 1 .. Len(s.edits) : x # e => t.edits[x] = s.edits[x]
  BY <1>5, <1>6, <1>17, <1>18, <1>21 DEF ChangedAt
<1>25. e \notin {tw2, cmdwin2}
  <2>1. tw = cmdwin => tw = NoEdit  BY <1>1, <1>7 DEF Shaped
  <2>. QED  BY <1>2, <1>9, <2>1
<1>26. /\ {tw, cmdwin} \subseteq 0 .. Len(s.edits)
       /\ \A x \in 1 .. Len(s.edits) :
            /\ s.edits[x].refs = Due(x, tw, cmdwin, e)
            /\ s.edits[x].closed = IF x \in {tw, cmdwin, NoEdit} THEN 0 ELSE 1
            /\ s.edits[x].browsing => s.edits[x].hist # "none" /\ x \in {tw, e}
            /\ x = cmdwin => s.edits[x].hist = "none" /\ s.edits[x].style = "line"
                             /\ s.edits[x].callback = "search"
  BY <1>1, <1>7 DEF Edited
<1>27. Edited(t.edits, tw2, cmdwin2, e, e)
  <2>1. {tw2, cmdwin2, e} \subseteq 0 .. Len(t.edits)
    <3>1. Len(s.edits) \in Nat /\ NoEdit = 0  BY <1>1 DEF UI, NoEdit
    <3>. QED  BY <1>5, <1>9, <1>24, <1>26, <3>1
  <2>2. ASSUME NEW x \in 1 .. Len(s.edits), x # e
        PROVE  /\ t.edits[x].refs = Due(x, tw2, cmdwin2, e)
               /\ t.edits[x].closed = IF x \in {tw2, cmdwin2, e} THEN 0 ELSE 1
               /\ t.edits[x].browsing => t.edits[x].hist # "none" /\ x \in {tw2, e}
               /\ x = cmdwin2 => t.edits[x].hist = "none" /\ t.edits[x].style = "line"
                                 /\ t.edits[x].callback = "search"
    <3>1. x # NoEdit  BY <2>2 DEF NoEdit
    <3>2. (x = tw <=> x = tw2) /\ (x = cmdwin <=> x = cmdwin2)  BY <1>9, <2>2, <3>1
    <3>3. Due(x, tw2, cmdwin2, e) = Due(x, tw, cmdwin, e)  BY <3>2 DEF Due
    <3>4. t.edits[x] = s.edits[x]  BY <1>24, <2>2
    <3>5. PICK old : old = s.edits[x]  OBVIOUS
    <3>6. /\ old.refs = Due(x, tw, cmdwin, e)
          /\ old.closed = IF x \in {tw, cmdwin, NoEdit} THEN 0 ELSE 1
          /\ old.browsing => old.hist # "none" /\ x \in {tw, e}
          /\ x = cmdwin => old.hist = "none" /\ old.style = "line" /\ old.callback = "search"
      BY <1>26, <3>5
    <3>7. old.refs = Due(x, tw2, cmdwin2, e)  BY <3>3, <3>6
    <3>8. old.closed = IF x \in {tw2, cmdwin2, e} THEN 0 ELSE 1  BY <2>2, <3>1, <3>2, <3>6
    <3>9. old.browsing => old.hist # "none" /\ x \in {tw2, e}  BY <3>2, <3>6
    <3>10. x = cmdwin2 => old.hist = "none" /\ old.style = "line" /\ old.callback = "search"
      BY <3>2, <3>6
    <3>. QED  BY <3>4, <3>5, <3>7, <3>8, <3>9, <3>10
  <2>3. /\ t.edits[e].refs = Due(e, tw2, cmdwin2, e) /\ t.edits[e].closed = 0
        /\ t.edits[e].browsing => t.edits[e].hist # "none"
    <3>1. Due(e, tw2, cmdwin2, e) = 1  BY <1>25 DEF Due
    <3>2. s.edits[e].browsing => s.edits[e].hist # "none"  BY <1>5, <1>26
    <3>. QED  BY <1>22, <1>24, <3>1, <3>2
  <2>4. \A x \in 1 .. Len(t.edits) : x # e => x \in 1 .. Len(s.edits)  BY <1>24
  <2>5. e # cmdwin2 /\ e \in {tw2, cmdwin2, e} /\ e \in {tw2, e}  BY <1>25
  <2>6. ASSUME NEW x \in 1 .. Len(t.edits)
        PROVE  /\ t.edits[x].refs = Due(x, tw2, cmdwin2, e)
               /\ t.edits[x].closed = IF x \in {tw2, cmdwin2, e} THEN 0 ELSE 1
               /\ t.edits[x].browsing => t.edits[x].hist # "none" /\ x \in {tw2, e}
               /\ x = cmdwin2 => t.edits[x].hist = "none" /\ t.edits[x].style = "line"
                                 /\ t.edits[x].callback = "search"
    <3>1. CASE x = e  BY <2>3, <2>5, <3>1
    <3>2. CASE x # e  BY <2>2, <2>4, <3>2
    <3>. QED  BY <3>1, <3>2
  <2>. QED  BY <2>1, <2>6 DEF Edited
<1>28. Browsed(t.edits, tw2, t.hist)
  <2>1. Browsed(s.edits, tw, s.hist)  BY <1>7 DEF Sound
  <2>2. tw2 # NoEdit => tw2 = tw /\ t.edits[tw2] = s.edits[tw2]
    <3>1. SUFFICES ASSUME tw2 # NoEdit PROVE tw2 = tw /\ t.edits[tw2] = s.edits[tw2]  OBVIOUS
    <3>2. tw2 = tw  BY <1>9, <3>1
    <3>3. tw \in 1 .. Len(s.edits)  BY <1>1, <1>26, <3>1, <3>2 DEF NoEdit, UI
    <3>. QED  BY <1>24, <1>25, <3>2, <3>3
  <2>. QED  BY <1>23, <2>1, <2>2 DEF Browsed
<1>29. Sound(t, e, e)
  <2>1. t.keymap = t.stack[1].keymap  BY <1>7, <1>10, <1>13, <1>23
  <2>2. \A h \in HistoryNames : HistoryKept(t.hist[h])  BY <1>23 DEF Sound
  <2>. QED  BY <1>10, <1>20, <1>23, <1>27, <1>28, <2>1, <2>2 DEF Sound
<1>30. QuietTop(t)
  <2>1. rest # <<>>  BY <1>10 DEF Shaped
  <2>2. TopEdit(t) = stack[2].edit  BY <1>10, <1>20, <1>23, <2>1, TopIsFirst
  <2>3. CASE e = cmdwin
    <3>1. stack[2].edit = NoEdit  BY <1>2, <1>7, <1>10, <2>3
    <3>. QED  BY <2>2, <3>1 DEF QuietTop
  <2>4. CASE e # cmdwin
    <3>1. tw2 = NoEdit /\ cmdwin2 = cmdwin  BY <1>9, <2>4
    <3>2. /\ t \in UI /\ Shaped(t.stack, t.tw, t.cmdwin, t.viewer) /\ t.keymap = t.stack[1].keymap
      BY <1>29 DEF Sound
    <3>3. /\ t.stack[1].kind = "edit" => t.stack[1].edit \in {t.tw, t.cmdwin} \ {NoEdit}
          /\ t.stack[1].kind = "recv" => t.stack[1] = RecvFrame
          /\ t.stack[1].kind = "popless" => t.stack[1] = PoplessFrame
          /\ t.stack[1] \in Frames
      BY <3>2, TopIsAbove
    <3>4. stack[2].edit \in {NoEdit, cmdwin}
      <4>1. RecvFrame.edit = NoEdit /\ PoplessFrame.edit = NoEdit
        BY DEF RecvFrame, PoplessFrame, Frame
      <4>2. t.stack[1].kind \in {"recv", "edit", "popless"}  BY <3>3 DEF Frames
      <4>3. t.stack[1].edit \in {NoEdit, t.tw, t.cmdwin}  BY <3>3, <4>1, <4>2
      <4>. QED  BY <1>10, <1>23, <3>1, <4>3
    <3>5. stack[2].edit # NoEdit => t.edits[stack[2].edit].style = "line"
      <4>1. SUFFICES ASSUME stack[2].edit # NoEdit PROVE t.edits[cmdwin].style = "line"  BY <3>4
      <4>2. cmdwin \in 1 .. Len(s.edits)  BY <1>1, <1>26, <3>4, <4>1 DEF NoEdit, UI
      <4>. QED  BY <1>24, <1>26, <2>4, <4>2
    <3>. QED  BY <2>2, <3>5 DEF QuietTop
  <2>. QED  BY <2>3, <2>4
<1>31. \A x \in 1 .. Len(s.edits) : t.edits[x].closed = s.edits[x].closed  BY <1>5, <1>22, <1>24
<1>32. t.edits[e].callback = "command" => t.tw = NoEdit
  <2>1. e = cmdwin => s.edits[e].callback = "search"  BY <1>5, <1>26
  <2>. QED  BY <1>9, <1>22, <1>23, <1>24, <2>1
<1>33. Len(t.stack) = Len(s.stack) - 1  BY <1>7, <1>10, <1>23
<1>. QED  BY <1>5, <1>23, <1>24, <1>25, <1>29, <1>30, <1>31, <1>32, <1>33

(* Leaving the viewer, which takes its search with it.                     *)
LEMMA PoplessQuitIsSound ==
  ASSUME NEW s, Sound(s, NoEdit, NoEdit), s.keymap = "popless", NEW t, t = PoplessQuit(s)
  PROVE  /\ Sound(t, NoEdit, NoEdit) /\ KeysStay(s, t) /\ t.edits = s.edits
         /\ Len(t.stack) = Len(s.stack) - 1
<1>1. /\ s \in UI /\ Shaped(s.stack, s.tw, s.cmdwin, s.viewer) /\ s.keymap = s.stack[1].keymap
      /\ Edited(s.edits, s.tw, s.cmdwin, NoEdit, NoEdit) /\ s.crashed = FALSE
  BY DEF Sound
<1>2. s.stack # <<>> /\ s.cmdwin = NoEdit /\ s.stack[1] = PoplessFrame /\ s.stack[1].kind = "popless"
  BY <1>1, TopIsAbove
<1>3. PICK stack \in Seq(Frames), tw \in Nat, cmdwin \in Nat, viewer \in BOOLEAN :
        stack = s.stack /\ tw = s.tw /\ cmdwin = s.cmdwin /\ viewer = s.viewer
  BY <1>1 DEF UI
<1>4. PICK none \in BOOLEAN : none = FALSE  OBVIOUS
<1>5. PICK rest \in Seq(Frames) :
         /\ rest = Tail(stack) /\ Len(rest) = Len(stack) - 1 /\ rest[1] = stack[2] /\ stack[2] \in Frames
         /\ Shaped(rest, tw, cmdwin, none)
  <2>1. Shaped(stack, tw, cmdwin, viewer) /\ stack[1].kind = "popless" /\ stack[1].kind # "recv"
    BY <1>1, <1>2, <1>3
  <2>2. Leaves(stack[1], tw, cmdwin, viewer, tw, cmdwin, none)  BY <1>4, <2>1 DEF Leaves
  <2>3. Shaped(Tail(stack), tw, cmdwin, none) /\ Lowered(stack, cmdwin, Tail(stack))
    BY <2>1, <2>2, PopKeepsShape
  <2>. QED  BY <2>3 DEF Lowered
<1>6. PICK r : r = [s EXCEPT !.viewer = FALSE, !.cmdwin = NoEdit]  OBVIOUS
<1>7. /\ r \in UI /\ SameStack(s, r) /\ r.tw = s.tw /\ r.cmdwin = NoEdit /\ r.viewer = FALSE
      /\ SameRest(s, r) /\ r.edits = s.edits
  <2>1. NoEdit \in Nat /\ FALSE \in BOOLEAN  BY DEF NoEdit
  <2>2. PICK r0 : r0 = [s EXCEPT !.viewer = FALSE]  OBVIOUS
  <2>3. /\ r0 \in UI /\ SameStack(s, r0) /\ r0.tw = s.tw /\ r0.viewer = FALSE
        /\ SameRest(s, r0) /\ r0.edits = s.edits
    BY <1>1, <2>1, <2>2 DEF UI, SameStack, SameRest
  <2>4. r = [r0 EXCEPT !.cmdwin = NoEdit]  BY <1>1, <1>6, <2>2 DEF UI
  <2>. QED  BY <2>1, <2>3, <2>4 DEF UI, SameStack, SameRest
<1>8. PICK r3 : r3 = [r EXCEPT !.stack = rest]  OBVIOUS
<1>9. /\ r3 \in UI /\ r3.stack = rest /\ r3.keymap = s.keymap /\ r3.keys = s.keys
      /\ r3.edits = s.edits /\ SamePlaces(r, r3) /\ SameRest(r, r3)
  BY <1>5, <1>7, <1>8 DEF UI, SameStack, SamePlaces, SameRest
<1>10. PICK keymap \in ActiveMaps : keymap = s.stack[2].keymap  BY <1>3, <1>5 DEF Frames
<1>11. t = Activate(r3, keymap)
  <2>1. r.stack = stack /\ r.stack # <<>> /\ r.crashed = FALSE
    BY <1>1, <1>2, <1>3, <1>7 DEF SameStack, SameRest
  <2>2. Top(r) = stack[1] /\ Top(r).kind = "popless"  BY <1>2, <1>3, <1>7, <2>1, TopIsFirst
  <2>3. [r EXCEPT !.stack = Tail(@)] = r3  BY <1>5, <1>8, <2>1
  <2>4. r.stack[2].keymap = keymap  BY <1>3, <1>10, <2>1
  <2>5. t = PopContext(r)  BY <1>6 DEF PoplessQuit
  <2>. DEFINE frame == Top(r)
              deactivated == IF frame.kind # "edit" THEN r
                             ELSE IF r.cmdwin = frame.edit THEN [r EXCEPT !.cmdwin = NoEdit]
                             ELSE [Unref(r, r.tw) EXCEPT !.tw = NoEdit]
              popped == Activate([deactivated EXCEPT !.stack = Tail(@)], r.stack[2].keymap)
  <2>6. t = IF deactivated.crashed THEN deactivated
            ELSE IF frame.kind = "edit" THEN Unref(popped, frame.edit) ELSE popped
    BY <2>5 DEF PopContext
  <2>7. frame.kind = "popless"  BY <2>2
  <2>8. deactivated = r  BY <2>7
  <2>9. popped = Activate(r3, keymap)  BY <2>3, <2>4, <2>8
  <2>. HIDE DEF popped, deactivated, frame
  <2>. QED  BY <2>1, <2>6, <2>7, <2>8, <2>9
<1>12. /\ t \in UI /\ t.stack = r3.stack /\ t.keymap = keymap /\ t.edits = r3.edits
       /\ SamePlaces(r3, t) /\ SameRest(r3, t) /\ KeysStay(r3, t)
  BY <1>9, <1>11, ActivateIs
<1>13. /\ t.stack = rest /\ t.tw = tw /\ t.cmdwin = cmdwin /\ t.viewer = none /\ t.edits = s.edits
       /\ t.hist = s.hist /\ t.crashed = FALSE /\ KeysStay(s, t)
  BY <1>1, <1>2, <1>3, <1>4, <1>7, <1>9, <1>12 DEF SamePlaces, SameRest, KeysStay
<1>14. Sound(t, NoEdit, NoEdit)
  <2>1. t.keymap = t.stack[1].keymap  BY <1>3, <1>5, <1>10, <1>12, <1>13
  <2>2. Edited(t.edits, t.tw, t.cmdwin, NoEdit, NoEdit) /\ Browsed(t.edits, t.tw, t.hist)
    BY <1>1, <1>3, <1>13 DEF Sound
  <2>3. \A h \in HistoryNames : HistoryKept(t.hist[h])  BY <1>13 DEF Sound
  <2>. QED  BY <1>5, <1>12, <1>13, <2>1, <2>2, <2>3 DEF Sound
<1>15. Len(t.stack) = Len(s.stack) - 1  BY <1>3, <1>5, <1>13
<1>. QED  BY <1>13, <1>14, <1>15

(* Histories.                                                              *)
LEMMA HistoryIs ==
  ASSUME NEW rows \in Seq(Texts), NEW cur \in Nat, NEW partial \in BOOLEAN
  PROVE  /\ History(rows, cur, partial) \in Histories
         /\ History(rows, cur, partial).lines = rows /\ History(rows, cur, partial).cur = cur
         /\ History(rows, cur, partial).partial = partial
BY DEF History, Histories

(* owl_history_reset drops the text being composed and leaves a tidy       *)
(* history at its end.                                                     *)
LEMMA ResetIs ==
  ASSUME NEW h \in Histories, HistoryKept(h), NEW r, r = Reset(h)
  PROVE  /\ r \in Histories /\ ~r.partial /\ r.cur = Len(r.lines) /\ Len(r.lines) <= HistorySize
         /\ Tidy(r.lines)
<1>1. PICK rows \in Seq(Texts) :
        rows = (IF h.partial THEN Front(h.lines) ELSE h.lines) /\ Len(rows) <= Len(h.lines)
  <2>1. PICK old \in Seq(Texts) : old = h.lines  BY DEF Histories
  <2>2. CASE h.partial
    <3>1. Len(old) \in Nat /\ old # <<>>  BY <2>1, <2>2 DEF HistoryKept
    <3>2. \A i \in 1 .. Len(old) - 1 : old[i] \in Texts  BY <3>1
    <3>3. Front(old) \in Seq(Texts) /\ Len(Front(old)) <= Len(old)
      BY <3>1, <3>2, SubSeqProperties DEF Front
    <3>. QED  BY <2>1, <2>2, <3>3
  <2>3. CASE ~h.partial  BY <2>1, <2>3
  <2>. QED  BY <2>2, <2>3
<1>2. PICK n \in Nat : n = Len(rows)  OBVIOUS
<1>3. PICK none \in BOOLEAN : none = FALSE  OBVIOUS
<1>4. r = History(rows, n, none)  BY <1>1, <1>2, <1>3 DEF Reset
<1>5. r \in Histories /\ r.lines = rows /\ r.cur = n /\ r.partial = none  BY <1>4, HistoryIs
<1>6. Tidy(r.lines)  BY DEF HistoryKept
<1>7. Len(h.lines) \in Nat /\ Len(h.lines) <= HistorySize  BY DEF Histories, HistoryKept
<1>8. HistorySize \in Nat  BY ContextAssumption
<1>. QED  BY <1>1, <1>2, <1>3, <1>5, <1>6, <1>7, <1>8

(* What owl_history_store leaves: a history that is kept, the text being   *)
(* composed last.                                                          *)
LEMMA StoreIs ==
  ASSUME NEW h \in Histories, HistoryKept(h), NEW line \in Texts, NEW partial \in BOOLEAN,
         NEW t, t = Store(h, line, partial)
  PROVE  /\ t \in Histories /\ HistoryKept(t) /\ ~IsTouched(t)
         /\ partial => Last(t.lines) = line /\ t.lines # <<>>
<1>1. PICK r : r = Reset(h)  OBVIOUS
<1>2. /\ r \in Histories /\ ~r.partial /\ r.cur = Len(r.lines) /\ Len(r.lines) <= HistorySize
      /\ Tidy(r.lines)
  BY <1>1, ResetIs
<1>3. PICK rows \in Seq(Texts) : rows = r.lines  BY <1>2 DEF Histories
<1>4. HistorySize \in Nat \ {0} /\ Len(rows) \in Nat  BY ContextAssumption
<1>5. PICK kept \in Seq(Texts) :
        /\ kept = (IF Len(r.lines) >= HistorySize THEN Tail(r.lines) ELSE r.lines)
        /\ Len(kept) + 1 <= HistorySize /\ Tidy(kept)
        /\ kept # <<>> => rows # <<>> /\ kept[Len(kept)] = rows[Len(rows)]
  <2>1. CASE Len(rows) >= HistorySize
    <3>1. PICK rest : rest = Tail(rows)  OBVIOUS
    <3>2. rows # <<>>  BY <1>4, <2>1
    <3>3. /\ rest \in Seq(Texts) /\ Len(rest) = Len(rows) - 1
          /\ \A i \in 1 .. Len(rows) - 1 : rest[i] = rows[i + 1]
      BY <3>1, <3>2, HeadTailProperties
    <3>4. Tidy(rest)
      <4>1. \A i \in 1 .. Len(rest) - 1 :
              i + 1 \in 1 .. Len(rows) - 1 /\ i \in 1 .. Len(rows) - 1 /\ (i + 1) \in 1 .. Len(rows) - 1
        BY <1>4, <3>3
      <4>2. \A i \in 1 .. Len(rows) - 1 : rows[i] # rows[i + 1]  BY <1>2, <1>3 DEF Tidy
      <4>. QED  BY <3>3, <4>1, <4>2 DEF Tidy
    <3>5. rest # <<>> => rest[Len(rest)] = rows[Len(rows)]
      <4>1. SUFFICES ASSUME rest # <<>> PROVE rest[Len(rest)] = rows[Len(rows)]  OBVIOUS
      <4>2. Len(rest) \in Nat \ {0}  BY <3>3, <4>1
      <4>3. Len(rest) \in 1 .. Len(rows) - 1 /\ Len(rest) + 1 = Len(rows)  BY <1>4, <3>3, <4>2
      <4>. QED  BY <3>3, <4>3
    <3>6. rest = (IF Len(r.lines) >= HistorySize THEN Tail(r.lines) ELSE r.lines)
      BY <1>3, <2>1, <3>1, Zenon
    <3>7. Len(rest) + 1 <= HistorySize  BY <1>2, <1>3, <1>4, <3>3
    <3>. QED  BY <3>2, <3>3, <3>4, <3>5, <3>6, <3>7
  <2>2. CASE ~(Len(rows) >= HistorySize)
    BY <1>2, <1>3, <1>4, <2>2
  <2>. QED  BY <2>1, <2>2
<1>6. CASE ~partial /\ r.lines # <<>> /\ Last(r.lines) = line
  <2>1. t = r  BY <1>1, <1>6 DEF Store
  <2>2. Reset(r).lines = r.lines  BY <1>2 DEF Reset, History
  <2>3. r.lines # <<>> /\ Len(r.lines) \in Nat /\ Len(r.lines) # 0  BY <1>3, <1>6
  <2>4. HistoryKept(r) /\ ~IsTouched(r)  BY <1>2, <2>2, <2>3 DEF HistoryKept, IsTouched
  <2>. QED  BY <1>2, <1>6, <2>1, <2>4
<1>7. CASE ~(~partial /\ r.lines # <<>> /\ Last(r.lines) = line)
  <2>1. PICK n \in Nat : n = Len(kept) + 1  OBVIOUS
  <2>2. PICK longer \in Seq(Texts) :
          /\ longer = Append(kept, line) /\ Len(longer) = n /\ longer # <<>> /\ longer[n] = line
          /\ \A i \in 1 .. Len(kept) : longer[i] = kept[i]
    <3>1. /\ Append(kept, line) \in Seq(Texts) /\ Append(kept, line) # <<>>
          /\ Len(Append(kept, line)) = Len(kept) + 1
          /\ Append(kept, line)[Len(kept) + 1] = line
          /\ \A i \in 1 .. Len(kept) : Append(kept, line)[i] = kept[i]
      BY AppendProperties
    <3>. QED  BY <2>1, <3>1
  <2>3. t = History(longer, n, partial)  BY <1>1, <1>5, <1>7, <2>1, <2>2 DEF Store
  <2>4. t \in Histories /\ t.lines = longer /\ t.cur = n /\ t.partial = partial
    BY <2>3, HistoryIs
  <2>5. Tidy(Reset(t).lines)
    <3>1. CASE partial
      <4>1. Reset(t).lines = Front(longer)  BY <2>4, <3>1 DEF Reset, History
      <4>2. PICK m \in Nat : m = Len(kept) /\ n - 1 = m  BY <2>1
      <4>3. SubSeq(longer, 1, m) = kept
        <5>1. \A i \in 1 .. m : longer[i] \in Texts  BY <2>2, <4>2
        <5>2. /\ SubSeq(longer, 1, m) \in Seq(Texts) /\ Len(SubSeq(longer, 1, m)) = m
              /\ \A i \in 1 .. m : SubSeq(longer, 1, m)[i] = longer[i]
          BY <4>2, <5>1, SubSeqProperties
        <5>. QED  BY <2>2, <4>2, <5>2, SeqEqual
      <4>4. Front(longer) = kept  BY <2>2, <4>2, <4>3 DEF Front
      <4>. QED  BY <1>5, <4>1, <4>4
    <3>2. CASE ~partial
      <4>1. Reset(t).lines = longer  BY <2>4, <3>2 DEF Reset, History
      <4>2. kept # <<>> => kept[Len(kept)] # line
        BY <1>3, <1>5, <1>7, <3>2 DEF Last
      <4>3. Tidy(longer)
        <5>1. \A i \in 1 .. Len(kept) - 1 : kept[i] # kept[i + 1]  BY <1>5 DEF Tidy
        <5>2. ASSUME NEW i \in 1 .. n - 1 PROVE longer[i] # longer[i + 1]
          <6>1. PICK m \in Nat : m = Len(kept) /\ n = m + 1  BY <2>1
          <6>2. CASE i = m
            <7>1. kept # <<>> /\ m \in 1 .. Len(kept)  BY <5>2, <6>1, <6>2
            <7>. QED  BY <2>2, <4>2, <6>1, <6>2, <7>1
          <6>3. CASE i # m
            <7>1. i \in 1 .. m - 1 /\ i \in 1 .. m /\ i + 1 \in 1 .. m  BY <5>2, <6>1, <6>3
            <7>. QED  BY <2>2, <5>1, <6>1, <7>1
          <6>. QED  BY <6>2, <6>3
        <5>. QED  BY <2>2, <5>2 DEF Tidy
      <4>. QED  BY <4>1, <4>3
    <3>. QED  BY <3>1, <3>2
  <2>6. HistoryKept(t) /\ ~IsTouched(t)
    BY <1>5, <2>1, <2>2, <2>4, <2>5 DEF HistoryKept, IsTouched
  <2>7. Last(t.lines) = line  BY <2>2, <2>4 DEF Last
  <2>. QED  BY <2>2, <2>4, <2>6, <2>7
<1>. QED  BY <1>6, <1>7

(* What a change of the histories leaves sound: the one of the editor in   *)
(* the typing window has its text last while another line is shown.        *)
HeldLast(words, partial, h) ==
  ~IsTouched(h) /\ (partial => Last(h.lines) = words /\ h.lines # <<>>)

StoresOnly(s, t) == SameStack(s, t) /\ SamePlaces(s, t) /\ t.edits = s.edits

(* Storing an editor's text disturbs nothing but that history.             *)
LEMMA StoreTextIsSound ==
  ASSUME NEW s, NEW held \in Nat, NEW open \in Nat, Sound(s, held, open),
         NEW e \in 1 .. Len(s.edits), NEW partial \in BOOLEAN, NEW t, t = StoreText(s, e, partial)
  PROVE  /\ Sound(t, held, open) /\ StoresOnly(s, t)
         /\ s.edits[e].hist # "none" =>
              HeldLast(s.edits[e].text, partial, t.hist[s.edits[e].hist])
<1>1. s \in UI  BY DEF Sound
<1>2. PICK old \in Editors : old = s.edits[e]
  <2>1. s.edits \in Seq(Editors)  BY <1>1 DEF UI
  <2>. QED  BY <2>1
<1>3. CASE old.hist = "none"
  <2>1. t = s  BY <1>2, <1>3 DEF StoreText
  <2>. QED  BY <1>2, <1>3, <2>1 DEF SameStack, SamePlaces, StoresOnly
<1>4. CASE old.hist # "none"
  <2>1. PICK name \in HistoryNames : name = old.hist  BY <1>4 DEF Editors, EditHistories
  <2>2. PICK hist \in [HistoryNames -> Histories] : hist = s.hist  BY <1>1 DEF UI
  <2>3. PICK h \in Histories : h = hist[name]  BY <2>2
  <2>4. PICK line \in Texts : line = old.text  BY DEF Editors
  <2>5. PICK new : new = Store(h, line, partial)  OBVIOUS
  <2>6. HistoryKept(h)  BY <2>2, <2>3 DEF Sound
  <2>7. /\ new \in Histories /\ HistoryKept(new) /\ ~IsTouched(new)
        /\ partial => Last(new.lines) = line /\ new.lines # <<>>
    BY <2>5, <2>6, StoreIs
  <2>8. PICK hist2 \in [HistoryNames -> Histories] : hist2 = [hist EXCEPT ![name] = new]
    BY <2>7
  <2>9. hist2[name] = new /\ \A h2 \in HistoryNames : h2 # name => hist2[h2] = hist[h2]
    BY <2>8
  <2>10. t = [s EXCEPT !.hist = hist2]
    <3>1. t = [s EXCEPT !.hist = [s.hist EXCEPT ![s.edits[e].hist] =
                                    Store(s.hist[s.edits[e].hist], s.edits[e].text, partial)]]
      BY <1>2, <1>4 DEF StoreText
    <3>. QED  BY <1>2, <2>1, <2>2, <2>3, <2>4, <2>5, <2>8, <3>1
  <2>11. /\ t \in UI /\ SameStack(s, t) /\ SamePlaces(s, t) /\ t.edits = s.edits
         /\ t.hist = hist2 /\ t.crashed = s.crashed
    BY <1>1, <2>10 DEF UI, SameStack, SamePlaces
  <2>12. Browsed(t.edits, t.tw, t.hist)
    <3>1. Browsed(s.edits, s.tw, s.hist)  BY DEF Sound
    <3>2. SUFFICES ASSUME s.tw # NoEdit, s.edits[s.tw].browsing, IsTouched(hist2[s.edits[s.tw].hist])
                   PROVE  Last(hist2[s.edits[s.tw].hist].lines) = s.edits[s.tw].typed
      BY <2>11 DEF SamePlaces, Browsed
    <3>3. s.edits[s.tw].hist \in HistoryNames
      <4>1. s.edits \in Seq(Editors) /\ Len(s.edits) \in Nat  BY <1>1 DEF UI
      <4>2. Edited(s.edits, s.tw, s.cmdwin, held, open)  BY DEF Sound
      <4>3. s.tw \in 1 .. Len(s.edits)  BY <3>2, <4>1, <4>2 DEF Edited, NoEdit
      <4>4. s.edits[s.tw].hist # "none"  BY <3>2, <4>2, <4>3 DEF Edited
      <4>5. s.edits[s.tw] \in Editors  BY <4>1, <4>3
      <4>. QED  BY <4>4, <4>5 DEF Editors, EditHistories
    <3>4. s.edits[s.tw].hist # name  BY <2>7, <2>9, <3>2
    <3>5. hist2[s.edits[s.tw].hist] = s.hist[s.edits[s.tw].hist]  BY <2>2, <2>9, <3>3, <3>4
    <3>. QED  BY <3>1, <3>2, <3>5 DEF Browsed
  <2>13. Sound(t, held, open)
    <3>1. /\ t.crashed = FALSE /\ t.keymap = t.stack[1].keymap
          /\ Shaped(t.stack, t.tw, t.cmdwin, t.viewer) /\ Edited(t.edits, t.tw, t.cmdwin, held, open)
      BY <2>11 DEF Sound, SameStack, SamePlaces
    <3>2. \A h2 \in HistoryNames : HistoryKept(t.hist[h2])  BY <2>2, <2>7, <2>9, <2>11 DEF Sound
    <3>. QED  BY <2>11, <2>12, <3>1, <3>2 DEF Sound
  <2>14. HeldLast(s.edits[e].text, partial, t.hist[s.edits[e].hist])
    BY <1>2, <2>1, <2>4, <2>7, <2>9, <2>11 DEF HeldLast
  <2>. QED  BY <2>11, <2>13, <2>14 DEF StoresOnly
<1>. QED  BY <1>3, <1>4

(* A change of an editor that neither its holders nor its browsing see.    *)
Quietly(old, editor) ==
  /\ editor.refs = old.refs /\ editor.closed = old.closed /\ editor.hist = old.hist
  /\ editor.style = old.style /\ editor.callback = old.callback
  /\ editor.browsing = old.browsing /\ editor.typed = old.typed

(* An editor that changes only its text disturbs nothing: neither who      *)
(* refers to it nor what it browses.                                       *)
LEMMA QuietChange ==
  ASSUME NEW s, NEW held \in Nat, NEW open \in Nat, Sound(s, held, open),
         NEW e \in 1 .. Len(s.edits), NEW editor \in Editors, Quietly(s.edits[e], editor),
         NEW t, t = [s EXCEPT !.edits = [s.edits EXCEPT ![e] = editor]]
  PROVE  /\ Sound(t, held, open) /\ SameStack(s, t) /\ SamePlaces(s, t) /\ SameRest(s, t)
         /\ ChangedAt(s.edits, e, editor, t.edits)
<1>1. s \in UI  BY DEF Sound
<1>2. PICK edits \in Seq(Editors) : edits = s.edits  BY <1>1 DEF UI
<1>3. PICK changed : changed = [edits EXCEPT ![e] = editor]  OBVIOUS
<1>4. ChangedAt(edits, e, editor, changed)  BY <1>2, <1>3, ExceptSeq DEF ChangedAt
<1>5. changed \in Seq(Editors)  BY <1>4 DEF ChangedAt
<1>6. t \in UI /\ SameStack(s, t) /\ SamePlaces(s, t) /\ SameRest(s, t) /\ t.edits = changed
  <2>1. t = [s EXCEPT !.edits = changed]  BY <1>2, <1>3
  <2>. QED  BY <1>1, <1>5, <2>1 DEF UI, SameStack, SamePlaces, SameRest
<1>7. \A x \in 1 .. Len(edits) :
        /\ changed[x].refs = edits[x].refs /\ changed[x].closed = edits[x].closed
        /\ changed[x].hist = edits[x].hist /\ changed[x].style = edits[x].style
        /\ changed[x].callback = edits[x].callback /\ changed[x].browsing = edits[x].browsing
        /\ changed[x].typed = edits[x].typed
  BY <1>2, <1>4 DEF ChangedAt, Quietly
<1>8. Edited(s.edits, s.tw, s.cmdwin, held, open)  BY DEF Sound
<1>9. Edited(t.edits, t.tw, t.cmdwin, held, open)
  <2>1. Len(changed) = Len(edits)  BY <1>4 DEF ChangedAt
  <2>. QED  BY <1>2, <1>6, <1>7, <1>8, <2>1 DEF Edited, SamePlaces
<1>10. Browsed(t.edits, t.tw, t.hist)
  <2>1. Browsed(s.edits, s.tw, s.hist)  BY DEF Sound
  <2>2. s.tw # NoEdit => s.tw \in 1 .. Len(edits)  BY <1>2, <1>8 DEF Edited, NoEdit
  <2>3. Browsed(changed, s.tw, s.hist)  BY <1>2, <1>7, <2>1, <2>2, BrowsedStays
  <2>. QED  BY <1>6, <2>3 DEF SamePlaces, SameRest
<1>11. Sound(t, held, open)
  <2>1. /\ t.crashed = FALSE /\ t.keymap = t.stack[1].keymap
        /\ Shaped(t.stack, t.tw, t.cmdwin, t.viewer)
        /\ \A h \in HistoryNames : HistoryKept(t.hist[h])
    BY <1>6 DEF Sound, SameStack, SamePlaces, SameRest
  <2>. QED  BY <1>6, <1>9, <1>10, <2>1 DEF Sound
<1>. QED  BY <1>2, <1>4, <1>6, <1>11

ClosedAlike(s, t) ==
  Len(t.edits) = Len(s.edits) /\ \A x \in 1 .. Len(s.edits) : t.edits[x].closed = s.edits[x].closed

(* owl_editwin_set_text disturbs nothing.                                  *)
LEMMA SetTextIsSound ==
  ASSUME NEW s, NEW held \in Nat, NEW open \in Nat, Sound(s, held, open),
         NEW e \in 1 .. Len(s.edits), NEW words \in Texts, NEW t, t = SetText(s, e, words)
  PROVE  Sound(t, held, open) /\ SameStack(s, t) /\ ClosedAlike(s, t)
<1>1. PICK edits \in Seq(Editors) : edits = s.edits  BY DEF Sound, UI
<1>2. PICK old \in Editors : old = edits[e]  BY <1>1
<1>3. PICK editor : editor = [old EXCEPT !.text = words]  OBVIOUS
<1>4. editor \in Editors /\ Quietly(old, editor) /\ editor.text = words
  BY <1>3 DEF Editors, Quietly
<1>5. t = [s EXCEPT !.edits = [s.edits EXCEPT ![e] = editor]]
  <2>1. t = [s EXCEPT !.edits = [s.edits EXCEPT ![e] = [s.edits[e] EXCEPT !.text = words]]]
    BY DEF SetText
  <2>. QED  BY <1>1, <1>2, <1>3, <2>1
<1>6. Quietly(s.edits[e], editor)  BY <1>1, <1>2, <1>4
<1>7. Sound(t, held, open) /\ SameStack(s, t) /\ ChangedAt(s.edits, e, editor, t.edits)
  BY <1>4, <1>5, <1>6, QuietChange
<1>8. ClosedAlike(s, t)  BY <1>6, <1>7 DEF ChangedAt, Quietly, ClosedAlike
<1>. QED  BY <1>7, <1>8

(* Showing another line of a history.                                      *)
LEMMA OtherLineIsSound ==
  ASSUME NEW s, Sound(s, NoEdit, NoEdit), NEW name \in HistoryNames,
         NEW cur \in 1 .. Len(s.hist[name].lines),
         s.tw # NoEdit /\ s.edits[s.tw].browsing /\ s.edits[s.tw].hist = name =>
           Last(s.hist[name].lines) = s.edits[s.tw].typed,
         NEW t, t = [s EXCEPT !.hist = [s.hist EXCEPT ![name] = [s.hist[name] EXCEPT !.cur = cur]]]
  PROVE  /\ Sound(t, NoEdit, NoEdit) /\ SameStack(s, t) /\ SamePlaces(s, t) /\ t.edits = s.edits
         /\ s.hist[name].lines[cur] \in Texts
<1>1. s \in UI  BY DEF Sound
<1>2. PICK hist \in [HistoryNames -> Histories] : hist = s.hist  BY <1>1 DEF UI
<1>3. PICK h \in Histories : h = hist[name]  BY <1>2
<1>4. PICK rows \in Seq(Texts) : rows = h.lines  BY DEF Histories
<1>5. cur \in Nat /\ cur \in 1 .. Len(rows) /\ rows[cur] \in Texts  BY <1>2, <1>3, <1>4
<1>6. PICK new : new = [h EXCEPT !.cur = cur]  OBVIOUS
<1>7. new \in Histories /\ new.lines = h.lines /\ new.partial = h.partial /\ new.cur = cur
  BY <1>5, <1>6 DEF Histories
<1>8. HistoryKept(new)
  <2>1. HistoryKept(h)  BY <1>2, <1>3 DEF Sound
  <2>2. Reset(new) = Reset(h)  BY <1>7 DEF Reset
  <2>3. cur <= Len(rows) /\ cur # 0  BY <1>5
  <2>. QED  BY <1>4, <1>7, <2>1, <2>2, <2>3 DEF HistoryKept
<1>9. PICK hist2 \in [HistoryNames -> Histories] : hist2 = [hist EXCEPT ![name] = new]  BY <1>7
<1>10. hist2[name] = new /\ \A h2 \in HistoryNames : h2 # name => hist2[h2] = hist[h2]  BY <1>9
<1>11. t = [s EXCEPT !.hist = hist2]  BY <1>2, <1>3, <1>6, <1>9
<1>12. /\ t \in UI /\ SameStack(s, t) /\ SamePlaces(s, t) /\ t.edits = s.edits
       /\ t.hist = hist2 /\ t.crashed = s.crashed
  BY <1>1, <1>11 DEF UI, SameStack, SamePlaces
<1>13. Browsed(t.edits, t.tw, t.hist)
  <2>1. Browsed(s.edits, s.tw, s.hist)  BY DEF Sound
  <2>2. SUFFICES ASSUME s.tw # NoEdit, s.edits[s.tw].browsing, IsTouched(hist2[s.edits[s.tw].hist])
                 PROVE  Last(hist2[s.edits[s.tw].hist].lines) = s.edits[s.tw].typed
    BY <1>12 DEF SamePlaces, Browsed
  <2>3. s.edits[s.tw].hist \in HistoryNames
    <3>1. s.edits \in Seq(Editors) /\ Len(s.edits) \in Nat  BY <1>1 DEF UI
    <3>2. Edited(s.edits, s.tw, s.cmdwin, NoEdit, NoEdit)  BY DEF Sound
    <3>3. s.tw \in 1 .. Len(s.edits)  BY <2>2, <3>1, <3>2 DEF Edited, NoEdit
    <3>4. s.edits[s.tw].hist # "none"  BY <2>2, <3>2, <3>3 DEF Edited
    <3>5. s.edits[s.tw] \in Editors  BY <3>1, <3>3
    <3>. QED  BY <3>4, <3>5 DEF Editors, EditHistories
  <2>4. CASE s.edits[s.tw].hist = name
    <3>1. Last(s.hist[name].lines) = s.edits[s.tw].typed  BY <2>2, <2>4
    <3>2. hist2[name].lines = s.hist[name].lines  BY <1>2, <1>3, <1>7, <1>10
    <3>. QED  BY <2>4, <3>1, <3>2
  <2>5. CASE s.edits[s.tw].hist # name
    <3>1. hist2[s.edits[s.tw].hist] = s.hist[s.edits[s.tw].hist]  BY <1>2, <1>10, <2>3, <2>5
    <3>. QED  BY <2>1, <2>2, <3>1 DEF Browsed
  <2>. QED  BY <2>4, <2>5
<1>14. Sound(t, NoEdit, NoEdit)
  <2>1. /\ t.crashed = FALSE /\ t.keymap = t.stack[1].keymap
        /\ Shaped(t.stack, t.tw, t.cmdwin, t.viewer) /\ Edited(t.edits, t.tw, t.cmdwin, NoEdit, NoEdit)
    BY <1>12 DEF Sound, SameStack, SamePlaces
  <2>2. \A h2 \in HistoryNames : HistoryKept(t.hist[h2])  BY <1>2, <1>8, <1>10, <1>12 DEF Sound
  <2>. QED  BY <1>12, <1>13, <2>1, <2>2 DEF Sound
<1>. QED  BY <1>2, <1>3, <1>4, <1>5, <1>12, <1>14

(* The editor on top has a place, and one with a history is in the typing  *)
(* window.                                                                 *)
LEMMA TopEditIs ==
  ASSUME NEW s, Sound(s, NoEdit, NoEdit), NEW e, e = TopEdit(s), e # NoEdit
  PROVE  /\ e \in 1 .. Len(s.edits) /\ e \in {s.tw, s.cmdwin} /\ s.edits[e] \in Editors
         /\ e = s.stack[1].edit /\ s.stack[1].kind = "edit"
         /\ s.edits[e].hist # "none" => e = s.tw /\ s.edits[e].hist \in HistoryNames
<1>1. /\ s \in UI /\ Shaped(s.stack, s.tw, s.cmdwin, s.viewer) /\ s.keymap = s.stack[1].keymap
      /\ Edited(s.edits, s.tw, s.cmdwin, NoEdit, NoEdit)
  BY DEF Sound
<1>2. /\ s.stack # <<>> /\ s.stack[1] \in Frames
      /\ s.stack[1].kind = "recv" => s.stack[1] = RecvFrame
      /\ s.stack[1].kind = "popless" => s.stack[1] = PoplessFrame
      /\ s.stack[1].kind = "edit" => s.stack[1].edit \in {s.tw, s.cmdwin} \ {NoEdit}
  BY <1>1, TopIsAbove
<1>3. e = s.stack[1].edit  BY <1>1, <1>2, TopIsFirst
<1>4. RecvFrame.edit = NoEdit /\ PoplessFrame.edit = NoEdit
  BY DEF RecvFrame, PoplessFrame, Frame
<1>5. s.stack[1].kind \in {"recv", "edit", "popless"}  BY <1>2 DEF Frames
<1>6. s.stack[1].kind = "edit" /\ e \in {s.tw, s.cmdwin}  BY <1>2, <1>3, <1>4, <1>5
<1>7. s.edits \in Seq(Editors) /\ Len(s.edits) \in Nat  BY <1>1 DEF UI
<1>8. e \in 1 .. Len(s.edits)  BY <1>1, <1>6, <1>7 DEF Edited, NoEdit
<1>9. s.edits[e] \in Editors  BY <1>7, <1>8
<1>10. s.edits[e].hist \in EditHistories  BY <1>9 DEF Editors
<1>11. e = s.cmdwin => s.edits[e].hist = "none"  BY <1>1, <1>8 DEF Edited
<1>. QED  BY <1>3, <1>6, <1>8, <1>9, <1>10, <1>11 DEF EditHistories

(* Browsing begins with the text that is there as the last line.           *)
Begun(s, e) == [StoreText(s, e, TRUE) EXCEPT !.edits[e].browsing = TRUE,
                                             !.edits[e].typed = s.edits[e].text]
(* Going up from the text being composed: it is stored, it is last, and it *)
(* is remembered as what was typed.                                        *)
LEMMA BrowsingBegins ==
  ASSUME NEW s, Sound(s, NoEdit, NoEdit), NEW e, e = TopEdit(s), e # NoEdit,
         s.edits[e].hist # "none",
         NEW t, t = Begun(s, e)
  PROVE  /\ Sound(t, NoEdit, NoEdit) /\ SameStack(s, t) /\ SamePlaces(s, t)
         /\ ClosedAlike(s, t) /\ t.edits[e].hist = s.edits[e].hist
         /\ t.edits[e].typed = Last(t.hist[s.edits[e].hist].lines)
<1>1. /\ e \in 1 .. Len(s.edits) /\ e = s.tw /\ s.edits[e].hist \in HistoryNames
  BY TopEditIs
<1>2. PICK name \in HistoryNames : name = s.edits[e].hist  BY <1>1
<1>3. PICK r : r = StoreText(s, e, TRUE)  OBVIOUS
<1>4. /\ Sound(r, NoEdit, NoEdit) /\ SameStack(s, r) /\ SamePlaces(s, r) /\ r.edits = s.edits
      /\ ~IsTouched(r.hist[name]) /\ Last(r.hist[name].lines) = s.edits[e].text
  <2>1. PICK partial \in BOOLEAN : partial = TRUE  OBVIOUS
  <2>2. PICK none \in Nat : none = NoEdit  BY DEF NoEdit
  <2>3. r = StoreText(s, e, partial) /\ Sound(s, none, none)  BY <1>3, <2>1, <2>2
  <2>4. Sound(r, none, none)  BY <1>1, <2>3, StoreTextIsSound
  <2>5. StoresOnly(s, r)  BY <1>1, <2>3, StoreTextIsSound
  <2>6. s.edits[e].hist # "none" => HeldLast(s.edits[e].text, partial, r.hist[s.edits[e].hist])
    BY <1>1, <2>3, StoreTextIsSound
  <2>7. HeldLast(s.edits[e].text, partial, r.hist[name])  BY <1>2, <2>6
  <2>. QED  BY <1>2, <2>1, <2>2, <2>4, <2>5, <2>7 DEF HeldLast, StoresOnly
<1>5. PICK edits \in Seq(Editors) : edits = s.edits  BY DEF Sound, UI
<1>6. PICK old \in Editors : old = edits[e]  BY <1>1, <1>5
<1>7. PICK editor : editor = [old EXCEPT !.browsing = TRUE, !.typed = old.text]  OBVIOUS
<1>8. /\ editor \in Editors /\ editor.refs = old.refs /\ editor.closed = old.closed
      /\ editor.hist = old.hist /\ editor.style = old.style /\ editor.callback = old.callback
      /\ editor.browsing = TRUE /\ editor.typed = old.text
  BY <1>7 DEF Editors
<1>9. PICK changed : changed = [edits EXCEPT ![e] = editor]  OBVIOUS
<1>10. ChangedAt(edits, e, editor, changed)  BY <1>1, <1>5, <1>8, <1>9, ExceptSeq DEF ChangedAt
<1>11. t = [r EXCEPT !.edits = changed]
  <2>1. t = [r EXCEPT !.edits = [[r.edits EXCEPT ![e] = [r.edits[e] EXCEPT !.browsing = TRUE]]
                                   EXCEPT ![e] = [[r.edits[e] EXCEPT !.browsing = TRUE]
                                                    EXCEPT !.typed = s.edits[e].text]]]
    BY <1>1, <1>3, <1>4, <1>5 DEF Begun
  <2>2. PICK first \in Editors : first = [old EXCEPT !.browsing = TRUE]  BY DEF Editors
  <2>3. [first EXCEPT !.typed = old.text] = editor  BY <1>7, <2>2 DEF Editors
  <2>4. [[edits EXCEPT ![e] = first] EXCEPT ![e] = editor] = changed  BY <1>9
  <2>. QED  BY <1>4, <1>5, <1>6, <2>1, <2>2, <2>3, <2>4
<1>12. /\ t \in UI /\ SameStack(s, t) /\ SamePlaces(s, t) /\ SameRest(r, t) /\ t.edits = changed
  <2>1. r \in UI /\ changed \in Seq(Editors)  BY <1>4, <1>10 DEF Sound, ChangedAt
  <2>. QED  BY <1>4, <1>11, <2>1 DEF UI, SameStack, SamePlaces, SameRest
<1>13. \A x \in 1 .. Len(edits) :
         /\ changed[x].refs = edits[x].refs /\ changed[x].closed = edits[x].closed
         /\ changed[x].hist = edits[x].hist /\ changed[x].style = edits[x].style
         /\ changed[x].callback = edits[x].callback
         /\ x # e => changed[x].browsing = edits[x].browsing
  BY <1>6, <1>8, <1>10 DEF ChangedAt
<1>14. Len(changed) = Len(edits) /\ changed[e] = editor  BY <1>1, <1>5, <1>10 DEF ChangedAt
<1>15. Edited(t.edits, t.tw, t.cmdwin, NoEdit, NoEdit)
  <2>1. Edited(s.edits, s.tw, s.cmdwin, NoEdit, NoEdit)  BY DEF Sound
  <2>2. name # "none" /\ changed[e].hist = name
    BY <1>2, <1>5, <1>6, <1>8, <1>14 DEF HistoryNames
  <2>3. t.tw = s.tw /\ t.cmdwin = s.cmdwin /\ t.edits = changed
    BY <1>4, <1>12 DEF SamePlaces
  <2>4. {t.tw, t.cmdwin, NoEdit} \subseteq 0 .. Len(t.edits)
    <3>1. {s.tw, s.cmdwin, NoEdit} \subseteq 0 .. Len(s.edits)  BY <2>1 DEF Edited
    <3>2. Len(t.edits) = Len(s.edits)  BY <1>5, <1>14, <2>3
    <3>. QED  BY <2>3, <3>1, <3>2
  <2>5. ASSUME NEW x \in 1 .. Len(edits)
        PROVE  /\ changed[x].refs = Due(x, t.tw, t.cmdwin, NoEdit)
               /\ changed[x].closed = IF x \in {t.tw, t.cmdwin, NoEdit} THEN 0 ELSE 1
               /\ changed[x].browsing => changed[x].hist # "none" /\ x \in {t.tw, NoEdit}
               /\ x = t.cmdwin => changed[x].hist = "none" /\ changed[x].style = "line"
                                  /\ changed[x].callback = "search"
    <3>1. /\ edits[x].refs = Due(x, s.tw, s.cmdwin, NoEdit)
          /\ edits[x].closed = IF x \in {s.tw, s.cmdwin, NoEdit} THEN 0 ELSE 1
          /\ edits[x].browsing => edits[x].hist # "none" /\ x \in {s.tw, NoEdit}
          /\ x = s.cmdwin => edits[x].hist = "none" /\ edits[x].style = "line"
                             /\ edits[x].callback = "search"
      BY <1>5, <2>1 DEF Edited
    <3>2. changed[x].browsing => changed[x].hist # "none" /\ x \in {t.tw, NoEdit}
      <4>1. CASE x = e  BY <1>1, <2>2, <2>3, <4>1
      <4>2. CASE x # e  BY <1>13, <2>3, <3>1, <4>2
      <4>. QED  BY <4>1, <4>2
    <3>. QED  BY <1>13, <2>3, <3>1, <3>2
  <2>. QED  BY <1>14, <2>3, <2>4, <2>5 DEF Edited
<1>16. Browsed(t.edits, t.tw, t.hist)
  <2>1. t.edits = changed /\ t.tw = e /\ t.hist = r.hist
    BY <1>1, <1>4, <1>12 DEF SamePlaces, SameRest
  <2>2. changed[e].hist = name /\ changed[e].typed = old.text
    BY <1>2, <1>5, <1>6, <1>8, <1>14
  <2>3. Last(r.hist[name].lines) = old.text  BY <1>4, <1>5, <1>6
  <2>. QED  BY <2>1, <2>2, <2>3 DEF Browsed
<1>17. Sound(t, NoEdit, NoEdit)
  <2>1. /\ r.crashed = FALSE /\ s.keymap = s.stack[1].keymap
        /\ Shaped(s.stack, s.tw, s.cmdwin, s.viewer)
        /\ \A h \in HistoryNames : HistoryKept(r.hist[h])
    BY <1>4 DEF Sound
  <2>. QED  BY <1>12, <1>15, <1>16, <2>1 DEF Sound, SameStack, SamePlaces, SameRest
<1>18. ClosedAlike(s, t)  BY <1>5, <1>12, <1>13, <1>14 DEF ClosedAlike
<1>19. t.edits[e].hist = s.edits[e].hist /\ t.edits[e].typed = old.text
  BY <1>5, <1>6, <1>8, <1>12, <1>14
<1>20. t.hist = r.hist  BY <1>12 DEF SameRest
<1>21. SameStack(s, t) /\ SamePlaces(s, t)  BY <1>4, <1>12 DEF SameStack, SamePlaces
<1>. QED  BY <1>2, <1>4, <1>5, <1>6, <1>17, <1>18, <1>19, <1>20, <1>21

(* Showing a line of the history changes what the editor on top shows.     *)
ShowLine(s, e, name, cur) ==
  SetText([s EXCEPT !.hist = [s.hist EXCEPT ![name] = [s.hist[name] EXCEPT !.cur = cur]]],
          e, s.hist[name].lines[cur])

(* Showing another line of the history keeps what was typed.               *)
LEMMA ShowLineIsSound ==
  ASSUME NEW s, Sound(s, NoEdit, NoEdit), NEW e \in 1 .. Len(s.edits), e = s.tw,
         NEW name \in HistoryNames, name = s.edits[e].hist,
         NEW cur \in 1 .. Len(s.hist[name].lines),
         s.edits[e].browsing => Last(s.hist[name].lines) = s.edits[e].typed,
         NEW t, t = ShowLine(s, e, name, cur)
  PROVE  Sound(t, NoEdit, NoEdit) /\ SameStack(s, t) /\ ClosedAlike(s, t)
<1>1. PICK r : r = [s EXCEPT !.hist = [s.hist EXCEPT ![name] = [s.hist[name] EXCEPT !.cur = cur]]]
  OBVIOUS
<1>2. PICK words : words = s.hist[name].lines[cur]  OBVIOUS
<1>3. /\ Sound(r, NoEdit, NoEdit) /\ SameStack(s, r) /\ SamePlaces(s, r) /\ r.edits = s.edits
      /\ s.hist[name].lines[cur] \in Texts
  <2>1. s.tw # NoEdit /\ s.edits[s.tw].browsing /\ s.edits[s.tw].hist = name =>
          Last(s.hist[name].lines) = s.edits[s.tw].typed
    OBVIOUS
  <2>2. Sound(r, NoEdit, NoEdit)  BY <1>1, <2>1, OtherLineIsSound
  <2>3. SameStack(s, r) /\ SamePlaces(s, r)  BY <1>1, <2>1, OtherLineIsSound
  <2>4. r.edits = s.edits
    <3>1. s \in UI  BY DEF Sound
    <3>. QED  BY <1>1, <3>1 DEF UI
  <2>5. s.hist[name].lines[cur] \in Texts
    <3>1. PICK hist \in [HistoryNames -> Histories] : hist = s.hist  BY DEF Sound, UI
    <3>2. PICK h \in Histories : h = hist[name]  BY <3>1
    <3>3. h.lines \in Seq(Texts)  BY DEF Histories
    <3>. QED  BY <3>1, <3>2, <3>3, ElementOfSeq
  <2>. QED  BY <2>2, <2>3, <2>4, <2>5
<1>4. PICK none \in Nat : none = NoEdit  BY DEF NoEdit
<1>5. /\ Sound(r, none, none) /\ e \in 1 .. Len(r.edits) /\ words \in Texts /\ t = SetText(r, e, words)
  BY <1>1, <1>2, <1>3, <1>4 DEF ShowLine
<1>6. Sound(t, none, none) /\ SameStack(r, t) /\ ClosedAlike(r, t)  BY <1>5, SetTextIsSound
<1>7. ClosedAlike(s, t)  BY <1>3, <1>6 DEF ClosedAlike
<1>. QED  BY <1>3, <1>4, <1>6, <1>7 DEF SameStack

(* edit:history-prev keeps the interface sound.                            *)
LEMMA HistoryPrevIsSound ==
  ASSUME NEW s, Sound(s, NoEdit, NoEdit), NEW e, e = TopEdit(s), e # NoEdit,
         s.edits[e].hist # "none", NEW t, t = HistoryPrev(s, e)
  PROVE  Sound(t, NoEdit, NoEdit) /\ SameStack(s, t) /\ ClosedAlike(s, t)
<1>1. /\ e \in 1 .. Len(s.edits) /\ e = s.tw /\ s.edits[e].hist \in HistoryNames
  BY TopEditIs
<1>2. PICK name \in HistoryNames : name = s.edits[e].hist  BY <1>1
<1>3. PICK begun : begun = Begun(s, e)  OBVIOUS
<1>4. PICK saved : saved = IF IsTouched(s.hist[name]) THEN s ELSE begun  OBVIOUS
<1>5. /\ Sound(saved, NoEdit, NoEdit) /\ SameStack(s, saved) /\ saved.tw = s.tw
      /\ ClosedAlike(s, saved) /\ saved.edits[e].hist = name
      /\ saved.edits[e].browsing => Last(saved.hist[name].lines) = saved.edits[e].typed
  <2>1. CASE IsTouched(s.hist[name])
    <3>1. saved = s  BY <1>4, <2>1
    <3>2. Browsed(s.edits, s.tw, s.hist)  BY DEF Sound
    <3>. QED  BY <1>1, <1>2, <2>1, <3>1, <3>2 DEF Browsed, SameStack, ClosedAlike
  <2>2. CASE ~IsTouched(s.hist[name])
    <3>1. saved = begun  BY <1>4, <2>2
    <3>2. /\ Sound(begun, NoEdit, NoEdit) /\ SameStack(s, begun) /\ SamePlaces(s, begun)
          /\ ClosedAlike(s, begun) /\ begun.edits[e].hist = s.edits[e].hist
          /\ begun.edits[e].typed = Last(begun.hist[s.edits[e].hist].lines)
      BY <1>3, BrowsingBegins
    <3>. QED  BY <1>2, <3>1, <3>2 DEF SamePlaces
  <2>. QED  BY <2>1, <2>2
<1>6. PICK h \in Histories : h = saved.hist[name]  BY <1>5 DEF Sound, UI
<1>7. PICK rows \in Seq(Texts), cur \in Nat : rows = h.lines /\ cur = h.cur /\ cur <= Len(rows)
  BY <1>5, <1>6 DEF Sound, HistoryKept, Histories
<1>8. t = IF cur > 1
          THEN SetText([saved EXCEPT !.hist[name].cur = cur - 1], e, rows[cur - 1]) ELSE saved
  <2>. DEFINE nm  == s.edits[e].hist
              svd == IF IsTouched(s.hist[nm]) THEN s
                     ELSE [StoreText(s, e, TRUE) EXCEPT !.edits[e].browsing = TRUE,
                                                        !.edits[e].typed = s.edits[e].text]
              hh  == svd.hist[nm]
  <2>1. t = IF hh.cur > 1
            THEN SetText([svd EXCEPT !.hist[nm].cur = hh.cur - 1], e, hh.lines[hh.cur - 1]) ELSE svd
    BY DEF HistoryPrev
  <2>2. nm = name /\ svd = saved  BY <1>2, <1>3, <1>4 DEF Begun
  <2>3. hh = svd.hist[nm]  OBVIOUS
  <2>. HIDE DEF hh, svd, nm
  <2>4. hh = h  BY <1>6, <2>2, <2>3
  <2>. QED  BY <1>7, <2>1, <2>2, <2>4
<1>9. CASE cur > 1
  <2>1. PICK back \in 1 .. Len(saved.hist[name].lines) : back = cur - 1
    <3>1. PICK n \in Nat : n = Len(rows)  OBVIOUS
    <3>2. cur - 1 \in 1 .. n  BY <1>7, <1>9, <3>1
    <3>3. saved.hist[name].lines = rows  BY <1>6, <1>7
    <3>. QED  BY <3>1, <3>2, <3>3
  <2>2. t = ShowLine(saved, e, name, back)  BY <1>6, <1>7, <1>8, <1>9, <2>1 DEF ShowLine
  <2>3. e \in 1 .. Len(saved.edits)  BY <1>1, <1>5 DEF ClosedAlike
  <2>4. Sound(t, NoEdit, NoEdit) /\ SameStack(saved, t) /\ ClosedAlike(saved, t)
    BY <1>1, <1>2, <1>5, <2>1, <2>2, <2>3, ShowLineIsSound
  <2>. QED  BY <1>5, <2>4 DEF SameStack, ClosedAlike
<1>10. CASE ~(cur > 1)  BY <1>5, <1>8, <1>10
<1>. QED  BY <1>9, <1>10

(* edit:history-next keeps the interface sound.                            *)
LEMMA HistoryNextIsSound ==
  ASSUME NEW s, Sound(s, NoEdit, NoEdit), NEW e, e = TopEdit(s), e # NoEdit,
         s.edits[e].hist # "none", NEW t, t = HistoryNext(s, e)
  PROVE  Sound(t, NoEdit, NoEdit) /\ SameStack(s, t) /\ ClosedAlike(s, t)
<1>1. /\ e \in 1 .. Len(s.edits) /\ e = s.tw /\ s.edits[e].hist \in HistoryNames
  BY TopEditIs
<1>2. PICK name \in HistoryNames : name = s.edits[e].hist  BY <1>1
<1>3. PICK h \in Histories : h = s.hist[name]  BY DEF Sound, UI
<1>4. PICK rows \in Seq(Texts), cur \in Nat : rows = h.lines /\ cur = h.cur /\ cur <= Len(rows)
  BY <1>3 DEF Sound, HistoryKept, Histories
<1>5. t = IF cur # 0 /\ cur < Len(rows)
          THEN SetText([s EXCEPT !.hist[name].cur = cur + 1], e, rows[cur + 1]) ELSE s
  BY <1>2, <1>3, <1>4 DEF HistoryNext
<1>6. CASE cur # 0 /\ cur < Len(rows)
  <2>1. PICK on \in 1 .. Len(s.hist[name].lines) : on = cur + 1
    <3>1. cur + 1 \in 1 .. Len(rows)  BY <1>4, <1>6
    <3>. QED  BY <1>3, <1>4, <3>1
  <2>2. t = ShowLine(s, e, name, on)  BY <1>3, <1>4, <1>5, <1>6, <2>1 DEF ShowLine
  <2>3. s.edits[e].browsing => Last(s.hist[name].lines) = s.edits[e].typed
    <3>1. IsTouched(s.hist[name])  BY <1>3, <1>4, <1>6 DEF IsTouched
    <3>2. Browsed(s.edits, s.tw, s.hist)  BY DEF Sound
    <3>. QED  BY <1>1, <1>2, <3>1, <3>2 DEF Browsed
  <2>. QED  BY <1>1, <1>2, <2>1, <2>2, <2>3, ShowLineIsSound
<1>7. CASE ~(cur # 0 /\ cur < Len(rows))
  <2>1. t = s  BY <1>5, <1>7
  <2>. QED  BY <2>1 DEF SameStack, ClosedAlike
<1>. QED  BY <1>6, <1>7

(* The editor on top of a sound stack, whoever is held.                    *)
LEMMA OpenTop ==
  ASSUME NEW s, NEW held, NEW open, Sound(s, held, open), TopEdit(s) # NoEdit
  PROVE  TopEdit(s) \in 1 .. Len(s.edits) /\ TopEdit(s) \in {s.tw, s.cmdwin}
<1>1. /\ s \in UI /\ Shaped(s.stack, s.tw, s.cmdwin, s.viewer) /\ s.keymap = s.stack[1].keymap
      /\ {s.tw, s.cmdwin} \subseteq 0 .. Len(s.edits)
  BY DEF Sound, Edited
<1>2. /\ s.stack # <<>> /\ s.stack[1] \in Frames
      /\ s.stack[1].kind = "recv" => s.stack[1] = RecvFrame
      /\ s.stack[1].kind = "popless" => s.stack[1] = PoplessFrame
      /\ s.stack[1].kind = "edit" => s.stack[1].edit \in {s.tw, s.cmdwin} \ {NoEdit}
  BY <1>1, TopIsAbove
<1>3. TopEdit(s) = s.stack[1].edit  BY <1>1, <1>2, TopIsFirst
<1>4. RecvFrame.edit = NoEdit /\ PoplessFrame.edit = NoEdit
  BY DEF RecvFrame, PoplessFrame, Frame
<1>5. s.stack[1].kind \in {"recv", "edit", "popless"}  BY <1>2 DEF Frames
<1>6. TopEdit(s) \in {s.tw, s.cmdwin}  BY <1>2, <1>3, <1>4, <1>5
<1>7. s.edits \in Seq(Editors) /\ Len(s.edits) \in Nat  BY <1>1 DEF UI
<1>. QED  BY <1>1, <1>6, <1>7 DEF NoEdit

(* Closing an editor: it is held while its context is popped and its       *)
(* callback is called, and then let go.                                    *)
LEMMA HoldIsSound ==
  ASSUME NEW s, NEW e \in 1 .. Len(s.edits), Sound(s, NoEdit, NoEdit), NEW t, t = Ref(s, e)
  PROVE  /\ Sound(t, e, NoEdit) /\ SameStack(s, t) /\ SamePlaces(s, t) /\ ClosedAlike(s, t)
<1>1. s \in UI /\ Edited(s.edits, s.tw, s.cmdwin, NoEdit, NoEdit)  BY DEF Sound
<1>2. PICK edits \in Seq(Editors) : edits = s.edits  BY <1>1 DEF UI
<1>3. t \in UI /\ SameStack(s, t) /\ SamePlaces(s, t) /\ SameRest(s, t)  BY <1>1, RefIs
<1>4. PICK editor \in Editors :
        /\ ChangedAt(s.edits, e, editor, t.edits)
        /\ editor = [s.edits[e] EXCEPT !.refs = s.edits[e].refs + 1]
  BY <1>1, RefIs
<1>5. PICK old \in Editors : old = edits[e]  BY <1>2
<1>6. /\ editor.refs = old.refs + 1 /\ editor.closed = old.closed /\ editor.hist = old.hist
      /\ editor.style = old.style /\ editor.callback = old.callback
      /\ editor.browsing = old.browsing /\ editor.typed = old.typed
  BY <1>2, <1>4, <1>5 DEF Editors
<1>7. PICK changed \in Seq(Editors) :
        /\ changed = t.edits /\ Len(changed) = Len(edits) /\ changed[e] = editor
        /\ \A x \in 1 .. Len(edits) : x # e => changed[x] = edits[x]
  BY <1>2, <1>4 DEF ChangedAt
<1>8. Edited(changed, t.tw, t.cmdwin, e, NoEdit)
  <2>1. t.tw = s.tw /\ t.cmdwin = s.cmdwin  BY <1>3 DEF SamePlaces
  <2>2. {t.tw, t.cmdwin, e, NoEdit} \subseteq 0 .. Len(changed)
    <3>1. {s.tw, s.cmdwin, NoEdit} \subseteq 0 .. Len(edits)  BY <1>1, <1>2 DEF Edited
    <3>. QED  BY <1>2, <1>7, <2>1, <3>1
  <2>3. ASSUME NEW x \in 1 .. Len(edits)
        PROVE  /\ changed[x].refs = Due(x, t.tw, t.cmdwin, e)
               /\ changed[x].closed = IF x \in {t.tw, t.cmdwin, NoEdit} THEN 0 ELSE 1
               /\ changed[x].browsing => changed[x].hist # "none" /\ x \in {t.tw, e}
               /\ x = t.cmdwin => changed[x].hist = "none" /\ changed[x].style = "line"
                                  /\ changed[x].callback = "search"
    <3>1. /\ edits[x].refs = Due(x, s.tw, s.cmdwin, NoEdit)
          /\ edits[x].closed = IF x \in {s.tw, s.cmdwin, NoEdit} THEN 0 ELSE 1
          /\ edits[x].browsing => edits[x].hist # "none" /\ x \in {s.tw, NoEdit}
          /\ x = s.cmdwin => edits[x].hist = "none" /\ edits[x].style = "line"
                             /\ edits[x].callback = "search"
      BY <1>1, <1>2 DEF Edited
    <3>2. x # NoEdit  BY DEF NoEdit
    <3>3. CASE x = e
      <4>1. Due(x, t.tw, t.cmdwin, e) = Due(x, s.tw, s.cmdwin, NoEdit) + 1
        BY <2>1, <3>2, <3>3 DEF Due
      <4>. QED  BY <1>5, <1>6, <1>7, <2>1, <3>1, <3>3, <4>1
    <3>4. CASE x # e
      <4>1. Due(x, t.tw, t.cmdwin, e) = Due(x, s.tw, s.cmdwin, NoEdit)
        BY <2>1, <3>2, <3>4 DEF Due
      <4>. QED  BY <1>7, <2>1, <3>1, <3>2, <3>4, <4>1
    <3>. QED  BY <3>3, <3>4
  <2>. QED  BY <1>7, <2>2, <2>3 DEF Edited
<1>9. Browsed(t.edits, t.tw, t.hist)
  <2>1. Browsed(s.edits, s.tw, s.hist)  BY DEF Sound
  <2>2. s.tw # NoEdit => s.tw \in 1 .. Len(edits)  BY <1>1, <1>2 DEF Edited, NoEdit
  <2>3. ASSUME NEW x \in 1 .. Len(edits)
        PROVE  /\ changed[x].browsing = edits[x].browsing /\ changed[x].hist = edits[x].hist
               /\ changed[x].typed = edits[x].typed
    BY <1>5, <1>6, <1>7
  <2>4. Browsed(changed, s.tw, s.hist)  BY <1>2, <2>1, <2>2, <2>3, BrowsedStays
  <2>. QED  BY <1>3, <1>7, <2>4 DEF SamePlaces, SameRest
<1>10. Sound(t, e, NoEdit)
  <2>1. /\ t.crashed = FALSE /\ t.keymap = t.stack[1].keymap
        /\ Shaped(t.stack, t.tw, t.cmdwin, t.viewer) /\ \A h \in HistoryNames : HistoryKept(t.hist[h])
    BY <1>3 DEF Sound, SameStack, SamePlaces, SameRest
  <2>. QED  BY <1>3, <1>7, <1>8, <1>9, <2>1 DEF Sound
<1>11. ClosedAlike(s, t)  BY <1>2, <1>5, <1>6, <1>7 DEF ClosedAlike
<1>. QED  BY <1>3, <1>10, <1>11

(* Its callback is called: now it is closed.                               *)
Called(s, e) == [s EXCEPT !.edits[e].closed = @ + 1]

(* The callback of an editor that has left its place is called: from here  *)
(* on the editor is closed, and it was closed once.                        *)
LEMMA CalledIsSound ==
  ASSUME NEW s, NEW e \in 1 .. Len(s.edits), Sound(s, e, e), e \notin {s.tw, s.cmdwin}, QuietTop(s),
         NEW t, t = Called(s, e)
  PROVE  /\ Sound(t, e, NoEdit) /\ SameStack(s, t) /\ SamePlaces(s, t) /\ QuietTop(t)
         /\ Len(t.edits) = Len(s.edits)
         /\ \A x \in 1 .. Len(s.edits) : x # e => t.edits[x].closed = s.edits[x].closed
<1>1. s \in UI /\ Edited(s.edits, s.tw, s.cmdwin, e, e)  BY DEF Sound
<1>2. PICK edits \in Seq(Editors) : edits = s.edits  BY <1>1 DEF UI
<1>3. PICK old \in Editors : old = edits[e]  BY <1>2
<1>4. PICK n \in Nat : n = old.closed + 1  BY DEF Editors
<1>5. PICK editor : editor = [old EXCEPT !.closed = n]  OBVIOUS
<1>6. /\ editor \in Editors /\ editor.closed = n /\ editor.refs = old.refs /\ editor.hist = old.hist
      /\ editor.style = old.style /\ editor.callback = old.callback /\ editor.text = old.text
      /\ editor.browsing = old.browsing /\ editor.typed = old.typed
  BY <1>5 DEF Editors
<1>7. PICK changed : changed = [edits EXCEPT ![e] = editor]  OBVIOUS
<1>8. ChangedAt(edits, e, editor, changed)  BY <1>2, <1>6, <1>7, ExceptSeq DEF ChangedAt
<1>9. /\ changed \in Seq(Editors) /\ Len(changed) = Len(edits) /\ changed[e] = editor
      /\ \A x \in 1 .. Len(edits) : x # e => changed[x] = edits[x]
  BY <1>2, <1>8 DEF ChangedAt
<1>10. t = [s EXCEPT !.edits = changed]
  <2>1. t = [s EXCEPT !.edits = [s.edits EXCEPT ![e] = [s.edits[e] EXCEPT !.closed = s.edits[e].closed + 1]]]
    BY DEF Called
  <2>. QED  BY <1>2, <1>3, <1>4, <1>5, <1>7, <2>1
<1>11. t \in UI /\ SameStack(s, t) /\ SamePlaces(s, t) /\ SameRest(s, t) /\ t.edits = changed
  BY <1>1, <1>9, <1>10 DEF UI, SameStack, SamePlaces, SameRest
<1>12. Edited(changed, t.tw, t.cmdwin, e, NoEdit)
  <2>1. t.tw = s.tw /\ t.cmdwin = s.cmdwin  BY <1>11 DEF SamePlaces
  <2>2. {t.tw, t.cmdwin, e, NoEdit} \subseteq 0 .. Len(changed)
    <3>1. {s.tw, s.cmdwin, e} \subseteq 0 .. Len(edits) /\ NoEdit \in 0 .. Len(edits)
      BY <1>1, <1>2 DEF Edited, NoEdit
    <3>. QED  BY <1>9, <2>1, <3>1
  <2>3. ASSUME NEW x \in 1 .. Len(edits)
        PROVE  /\ changed[x].refs = Due(x, t.tw, t.cmdwin, e)
               /\ changed[x].closed = IF x \in {t.tw, t.cmdwin, NoEdit} THEN 0 ELSE 1
               /\ changed[x].browsing => changed[x].hist # "none" /\ x \in {t.tw, e}
               /\ x = t.cmdwin => changed[x].hist = "none" /\ changed[x].style = "line"
                                  /\ changed[x].callback = "search"
    <3>1. /\ edits[x].refs = Due(x, s.tw, s.cmdwin, e)
          /\ edits[x].closed = IF x \in {s.tw, s.cmdwin, e} THEN 0 ELSE 1
          /\ edits[x].browsing => edits[x].hist # "none" /\ x \in {s.tw, e}
          /\ x = s.cmdwin => edits[x].hist = "none" /\ edits[x].style = "line"
                             /\ edits[x].callback = "search"
      BY <1>1, <1>2 DEF Edited
    <3>2. x # NoEdit  BY DEF NoEdit
    <3>3. CASE x = e  BY <1>3, <1>4, <1>6, <1>9, <2>1, <3>1, <3>2, <3>3
    <3>4. CASE x # e  BY <1>9, <2>1, <3>1, <3>2, <3>4
    <3>. QED  BY <3>3, <3>4
  <2>. QED  BY <1>9, <2>2, <2>3 DEF Edited
<1>13. ASSUME NEW x \in 1 .. Len(edits)
       PROVE  /\ changed[x].browsing = edits[x].browsing /\ changed[x].hist = edits[x].hist
              /\ changed[x].typed = edits[x].typed /\ changed[x].style = edits[x].style
              /\ changed[x].text = edits[x].text
  BY <1>3, <1>6, <1>9
<1>14. Browsed(t.edits, t.tw, t.hist)
  <2>1. Browsed(s.edits, s.tw, s.hist)  BY DEF Sound
  <2>2. s.tw # NoEdit => s.tw \in 1 .. Len(edits)  BY <1>1, <1>2 DEF Edited, NoEdit
  <2>. QED  BY <1>2, <1>11, <1>13, <2>1, <2>2 DEF Browsed, SamePlaces, SameRest
<1>15. Sound(t, e, NoEdit)
  <2>1. /\ t.crashed = FALSE /\ t.keymap = t.stack[1].keymap
        /\ Shaped(t.stack, t.tw, t.cmdwin, t.viewer) /\ \A h \in HistoryNames : HistoryKept(t.hist[h])
    BY <1>11 DEF Sound, SameStack, SamePlaces, SameRest
  <2>. QED  BY <1>11, <1>12, <1>14, <2>1 DEF Sound
<1>16. QuietTop(t)
  <2>1. TopEdit(t) = TopEdit(s)  BY <1>11 DEF TopEdit, Top, SameStack
  <2>2. TopEdit(s) # NoEdit => TopEdit(s) \in 1 .. Len(edits)
    BY <1>2, OpenTop
  <2>. QED  BY <1>2, <1>11, <1>13, <2>1, <2>2 DEF QuietTop
<1>. QED  BY <1>2, <1>9, <1>11, <1>15, <1>16

(* Whoever held it lets go of it.                                          *)
LEMMA ReleaseIsSound ==
  ASSUME NEW s, NEW e \in 1 .. Len(s.edits), Sound(s, e, NoEdit), e \notin {s.tw, s.cmdwin}, QuietTop(s),
         NEW t, t = Unref(s, e)
  PROVE  /\ Sound(t, NoEdit, NoEdit) /\ SameStack(s, t) /\ QuietTop(t) /\ ClosedAlike(s, t)
<1>1. s \in UI /\ Edited(s.edits, s.tw, s.cmdwin, e, NoEdit)  BY DEF Sound
<1>2. PICK edits \in Seq(Editors) : edits = s.edits  BY <1>1 DEF UI
<1>3. PICK old \in Editors : old = edits[e]  BY <1>2
<1>4. old.refs = 1
  <2>1. Due(e, s.tw, s.cmdwin, e) = 1  BY DEF Due
  <2>. QED  BY <1>1, <1>2, <1>3, <2>1 DEF Edited
<1>5. s.edits[e].refs # 0  BY <1>2, <1>3, <1>4
<1>6. t \in UI /\ SameStack(s, t) /\ SamePlaces(s, t) /\ SameRest(s, t)  BY <1>1, <1>5, UnrefIs
<1>7. PICK editor \in Editors : ChangedAt(s.edits, e, editor, t.edits) /\ LetGo(s.edits[e], editor)
  BY <1>1, <1>5, UnrefIs
<1>8. /\ editor.refs = 0 /\ editor.closed = old.closed /\ editor.hist = old.hist /\ ~editor.browsing
      /\ editor.style = old.style /\ editor.callback = old.callback
  <2>1. LetGo(old, editor)  BY <1>2, <1>3, <1>7
  <2>. QED  BY <1>4, <2>1 DEF LetGo
<1>9. PICK changed \in Seq(Editors) :
        /\ changed = t.edits /\ Len(changed) = Len(edits) /\ changed[e] = editor
        /\ \A x \in 1 .. Len(edits) : x # e => changed[x] = edits[x]
  BY <1>2, <1>7 DEF ChangedAt
<1>10. Edited(changed, t.tw, t.cmdwin, NoEdit, NoEdit)
  <2>1. t.tw = s.tw /\ t.cmdwin = s.cmdwin  BY <1>6 DEF SamePlaces
  <2>2. {t.tw, t.cmdwin, NoEdit} \subseteq 0 .. Len(changed)
    <3>1. {s.tw, s.cmdwin, NoEdit} \subseteq 0 .. Len(edits)  BY <1>1, <1>2 DEF Edited
    <3>. QED  BY <1>9, <2>1, <3>1
  <2>3. ASSUME NEW x \in 1 .. Len(edits)
        PROVE  /\ changed[x].refs = Due(x, t.tw, t.cmdwin, NoEdit)
               /\ changed[x].closed = IF x \in {t.tw, t.cmdwin, NoEdit} THEN 0 ELSE 1
               /\ changed[x].browsing => changed[x].hist # "none" /\ x \in {t.tw, NoEdit}
               /\ x = t.cmdwin => changed[x].hist = "none" /\ changed[x].style = "line"
                                  /\ changed[x].callback = "search"
    <3>1. /\ edits[x].refs = Due(x, s.tw, s.cmdwin, e)
          /\ edits[x].closed = IF x \in {s.tw, s.cmdwin, NoEdit} THEN 0 ELSE 1
          /\ edits[x].browsing => edits[x].hist # "none" /\ x \in {s.tw, e}
          /\ x = s.cmdwin => edits[x].hist = "none" /\ edits[x].style = "line"
                             /\ edits[x].callback = "search"
      BY <1>1, <1>2 DEF Edited
    <3>2. x # NoEdit  BY DEF NoEdit
    <3>3. CASE x = e
      <4>1. Due(x, t.tw, t.cmdwin, NoEdit) = 0  BY <2>1, <3>2, <3>3 DEF Due
      <4>. QED  BY <1>3, <1>8, <1>9, <2>1, <3>1, <3>3, <4>1
    <3>4. CASE x # e
      <4>1. Due(x, t.tw, t.cmdwin, NoEdit) = Due(x, s.tw, s.cmdwin, e)
        BY <2>1, <3>2, <3>4 DEF Due
      <4>. QED  BY <1>9, <2>1, <3>1, <3>4, <4>1
    <3>. QED  BY <3>3, <3>4
  <2>. QED  BY <1>9, <2>2, <2>3 DEF Edited
<1>11. Browsed(t.edits, t.tw, t.hist)
  <2>1. Browsed(s.edits, s.tw, s.hist)  BY DEF Sound
  <2>2. s.tw # NoEdit => s.tw \in 1 .. Len(edits) /\ s.tw # e  BY <1>1, <1>2 DEF Edited, NoEdit
  <2>3. s.tw # NoEdit => changed[s.tw] = edits[s.tw]  BY <1>9, <2>2
  <2>4. Browsed(changed, s.tw, s.hist)  BY <1>2, <2>1, <2>3, BrowsedStays
  <2>. QED  BY <1>6, <1>9, <2>4 DEF SamePlaces, SameRest
<1>12. Sound(t, NoEdit, NoEdit)
  <2>1. /\ t.crashed = FALSE /\ t.keymap = t.stack[1].keymap
        /\ Shaped(t.stack, t.tw, t.cmdwin, t.viewer) /\ \A h \in HistoryNames : HistoryKept(t.hist[h])
    BY <1>6 DEF Sound, SameStack, SamePlaces, SameRest
  <2>. QED  BY <1>6, <1>9, <1>10, <1>11, <2>1 DEF Sound
<1>13. QuietTop(t)
  <2>1. TopEdit(t) = TopEdit(s)  BY <1>6 DEF TopEdit, Top, SameStack
  <2>2. TopEdit(s) # NoEdit => TopEdit(s) \in 1 .. Len(edits) /\ TopEdit(s) # e
    BY <1>2, OpenTop
  <2>. QED  BY <1>2, <1>9, <2>1, <2>2 DEF QuietTop
<1>14. ClosedAlike(s, t)  BY <1>2, <1>3, <1>8, <1>9 DEF ClosedAlike
<1>. QED  BY <1>6, <1>12, <1>13, <1>14

(* What a command line does when it is entered.                            *)
LEMMA RunCommandIsSound ==
  ASSUME NEW s, NEW held \in Nat, Sound(s, held, NoEdit), s.tw = NoEdit, QuietTop(s),
         NEW line \in Texts, NEW t, t = RunCommand(s, line)
  PROVE  /\ Sound(t, held, NoEdit) /\ KeysStay(s, t) /\ OpensOnly(s, t) /\ QuietTop(t)
<1>1. PICK none \in Nat : none = NoEdit  BY DEF NoEdit
<1>2. /\ KeysStay(s, s) /\ OpensOnly(s, s)
  <2>1. s.edits \in Seq(Editors) /\ Len(s.edits) \in Nat  BY DEF Sound, UI
  <2>2. \A x \in 1 .. Len(s.edits) : ~(x > Len(s.edits))  BY <2>1
  <2>. QED  BY <2>1, <2>2 DEF KeysStay, OpensOnly
<1>3. CASE t = s  BY <1>2, <1>3
<1>4. CASE t = StartEditWin(s)
  <2>1. PICK editStyle \in EditStyles, keymap \in EditMaps, hist \in HistoryNames,
             callback \in Callbacks \ {"search"} :
          t = OpenMain(s, editStyle, keymap, hist, callback)
    BY <1>4 DEF StartEditWin, EditStyles, EditMaps, HistoryNames, Callbacks
  <2>2. Sound(t, held, none) /\ KeysStay(s, t) /\ OpensOnly(s, t) /\ QuietTop(t)
    BY <1>1, <2>1, OpenMainIsSound
  <2>. QED  BY <1>1, <2>2
<1>5. CASE t = Popless(s)
  <2>1. Sound(t, held, none) /\ KeysStay(s, t) /\ t.edits = s.edits /\ (t = s \/ QuietTop(t))
    BY <1>1, <1>5, PoplessIsSound
  <2>. QED  BY <1>1, <1>2, <2>1 DEF OpensOnly
<1>6. t \in {s, StartEditWin(s), Popless(s)}  BY DEF RunCommand
<1>. QED  BY <1>3, <1>4, <1>5, <1>6

(* Ending an editor closes that one and no other, and with its callback    *)
(* possibly opens one that the key does not end.                           *)
OnlyCloses(s, t, e) ==
  /\ Len(t.edits) >= Len(s.edits)
  /\ \A x \in 1 .. Len(s.edits) : x # e => t.edits[x].closed = s.edits[x].closed
  /\ \A x \in 1 .. Len(t.edits) : x > Len(s.edits) => t.edits[x].closed = 0

(* owl_command_edit_done and edit:cancel, whole: one editor is closed,     *)
(* nobody holds it after, and a cancelled one takes its context along.     *)
LEMMA CloseEditIsSound ==
  ASSUME NEW s, Sound(s, NoEdit, NoEdit), NEW e, e = TopEdit(s), e # NoEdit,
         NEW success \in BOOLEAN, NEW t, t = CloseEdit(s, success)
  PROVE  /\ Sound(t, NoEdit, NoEdit) /\ KeysStay(s, t) /\ QuietTop(t) /\ OnlyCloses(s, t, e)
         /\ ~success => Len(t.stack) < Len(s.stack)
<1>1. /\ e \in 1 .. Len(s.edits) /\ e = s.stack[1].edit /\ s.stack[1].kind = "edit"
  BY TopEditIs
<1>2. PICK none \in Nat : none = NoEdit  BY DEF NoEdit
<1>3. PICK no \in BOOLEAN : no = FALSE  OBVIOUS
<1>4. PICK stored : stored = StoreText(s, e, no)  OBVIOUS
<1>5. Sound(stored, NoEdit, NoEdit) /\ SameStack(s, stored) /\ stored.edits = s.edits
  <2>1. Sound(s, none, none)  BY <1>2
  <2>2. Sound(stored, none, none)  BY <1>1, <1>4, <2>1, StoreTextIsSound
  <2>3. StoresOnly(s, stored)  BY <1>1, <1>4, <2>1, StoreTextIsSound
  <2>. QED  BY <1>2, <2>2, <2>3 DEF StoresOnly
<1>6. PICK kept : kept = Ref(stored, e)  OBVIOUS
<1>7. Sound(kept, e, NoEdit) /\ SameStack(stored, kept) /\ ClosedAlike(stored, kept)
  BY <1>1, <1>5, <1>6, HoldIsSound
<1>8. PICK popped : popped = PopContext(kept)  OBVIOUS
<1>9. /\ Sound(popped, e, e) /\ KeysStay(kept, popped) /\ QuietTop(popped)
      /\ e \in 1 .. Len(kept.edits) /\ e \notin {popped.tw, popped.cmdwin}
  <2>1. e = kept.stack[1].edit /\ kept.stack[1].kind = "edit"  BY <1>1, <1>5, <1>7 DEF SameStack
  <2>2. e \in Nat  BY <1>1
  <2>. QED  BY <1>7, <1>8, <2>1, <2>2, PopEditIsSound
<1>10. /\ Len(popped.stack) = Len(kept.stack) - 1 /\ Len(popped.edits) = Len(kept.edits)
       /\ \A x \in 1 .. Len(kept.edits) : popped.edits[x].closed = kept.edits[x].closed
       /\ popped.edits[e].callback = "command" => popped.tw = NoEdit
  <2>1. e = kept.stack[1].edit /\ kept.stack[1].kind = "edit"  BY <1>1, <1>5, <1>7 DEF SameStack
  <2>2. e \in Nat  BY <1>1
  <2>. QED  BY <1>7, <1>8, <2>1, <2>2, PopEditIsSound
<1>11. Len(popped.stack) = Len(s.stack) - 1 /\ KeysStay(s, popped)
  BY <1>5, <1>7, <1>9, <1>10 DEF SameStack, KeysStay
<1>12. PICK n \in Nat : n = Len(s.edits) /\ n = Len(popped.edits) /\ e \in 1 .. n
  <2>1. s.edits \in Seq(Editors) /\ Len(s.edits) \in Nat  BY DEF Sound, UI
  <2>2. Len(popped.edits) = Len(s.edits)  BY <1>5, <1>7, <1>10 DEF ClosedAlike
  <2>. QED  BY <1>1, <2>1, <2>2
<1>13. \A x \in 1 .. n : popped.edits[x].closed = s.edits[x].closed
  BY <1>5, <1>7, <1>10, <1>12 DEF ClosedAlike
<1>14. PICK called : called = Called(popped, e)  OBVIOUS
<1>15. /\ Sound(called, e, NoEdit) /\ SameStack(popped, called) /\ SamePlaces(popped, called)
       /\ QuietTop(called) /\ Len(called.edits) = Len(popped.edits)
       /\ \A x \in 1 .. Len(popped.edits) : x # e => called.edits[x].closed = popped.edits[x].closed
  BY <1>9, <1>12, <1>14, CalledIsSound
<1>16. PICK line \in Texts, callback \in Callbacks :
         line = popped.edits[e].text /\ callback = popped.edits[e].callback
  <2>1. popped.edits \in Seq(Editors)  BY <1>9 DEF Sound, UI
  <2>2. popped.edits[e] \in Editors  BY <1>12, <2>1
  <2>. QED  BY <2>2 DEF Editors
<1>17. PICK ran : ran = IF callback = "command" /\ success THEN RunCommand(called, line) ELSE called
  OBVIOUS
<1>18. /\ Sound(ran, e, NoEdit) /\ KeysStay(called, ran) /\ OpensOnly(called, ran) /\ QuietTop(ran)
  <2>1. CASE callback = "command" /\ success
    <3>1. ran = RunCommand(called, line)  BY <1>17, <2>1
    <3>2. called.tw = NoEdit  BY <1>10, <1>15, <1>16, <2>1 DEF SamePlaces
    <3>3. e \in Nat  BY <1>12
    <3>. QED  BY <1>15, <3>1, <3>2, <3>3, RunCommandIsSound
  <2>2. CASE ~(callback = "command" /\ success)
    <3>1. ran = called  BY <1>17, <2>2
    <3>2. \A x \in 1 .. Len(called.edits) : ~(x > Len(called.edits))  BY <1>12, <1>15
    <3>3. Len(called.edits) >= Len(called.edits)  BY <1>12, <1>15
    <3>. QED  BY <1>15, <3>1, <3>2, <3>3 DEF KeysStay, OpensOnly
  <2>. QED  BY <2>1, <2>2
<1>19. t = Unref(ran, e)
  <2>. DEFINE top == TopEdit(s)
              pp  == PopContext(Ref(StoreText(s, top, FALSE), top))
  <2>1. t = IF pp.crashed THEN pp ELSE Unref(Callback(pp, top, success), top)
    BY DEF CloseEdit
  <2>2. top = e /\ pp = popped  BY <1>3, <1>4, <1>6, <1>8
  <2>. HIDE DEF pp, top
  <2>3. popped.crashed = FALSE  BY <1>9 DEF Sound
  <2>4. t = Unref(Callback(popped, e, success), e)  BY <2>1, <2>2, <2>3
  <2>5. Callback(popped, e, success) = ran  BY <1>14, <1>16, <1>17 DEF Callback, Called
  <2>. QED  BY <2>4, <2>5
<1>20. Len(ran.edits) >= n /\ e \in 1 .. Len(ran.edits) /\ e \notin {ran.tw, ran.cmdwin}
  <2>1. ran.edits \in Seq(Editors) /\ Len(ran.edits) \in Nat  BY <1>18 DEF Sound, UI
  <2>2. Len(ran.edits) >= n /\ ran.edits[e].closed = called.edits[e].closed
    BY <1>12, <1>15, <1>18 DEF OpensOnly
  <2>3. e \in 1 .. Len(ran.edits)  BY <1>12, <2>1, <2>2
  <2>4. called.edits[e].closed = 1
    <3>1. e \notin {called.tw, called.cmdwin, NoEdit}
      BY <1>9, <1>12, <1>15 DEF SamePlaces, NoEdit
    <3>. QED  BY <1>12, <1>15, <3>1 DEF Sound, Edited
  <2>5. ran.edits[e].closed = IF e \in {ran.tw, ran.cmdwin, NoEdit} THEN 0 ELSE 1
    BY <1>18, <2>3 DEF Sound, Edited
  <2>. QED  BY <2>2, <2>3, <2>4, <2>5
<1>21. /\ Sound(t, NoEdit, NoEdit) /\ SameStack(ran, t) /\ QuietTop(t) /\ ClosedAlike(ran, t)
  BY <1>18, <1>19, <1>20, ReleaseIsSound
<1>22. KeysStay(s, t)  BY <1>11, <1>15, <1>18, <1>21 DEF KeysStay, SameStack
<1>23. OnlyCloses(s, t, e)
  <2>1. Len(t.edits) = Len(ran.edits) /\ Len(ran.edits) \in Nat
    BY <1>18, <1>21 DEF ClosedAlike, Sound, UI
  <2>2. ASSUME NEW x \in 1 .. n, x # e PROVE t.edits[x].closed = s.edits[x].closed
    <3>1. x \in 1 .. Len(ran.edits)  BY <1>20, <2>1
    <3>. QED  BY <1>12, <1>13, <1>15, <1>18, <1>21, <2>2, <3>1 DEF ClosedAlike, OpensOnly
  <2>3. ASSUME NEW x \in 1 .. Len(t.edits), x > n PROVE t.edits[x].closed = 0
    BY <1>12, <1>15, <1>18, <1>21, <2>1, <2>3 DEF ClosedAlike, OpensOnly
  <2>. QED  BY <1>12, <1>20, <2>1, <2>2, <2>3 DEF OnlyCloses
<1>24. ~success => Len(t.stack) < Len(s.stack)
  <2>1. SUFFICES ASSUME ~success PROVE Len(t.stack) < Len(s.stack)  OBVIOUS
  <2>2. ran = called  BY <1>17, <2>1
  <2>3. t.stack = popped.stack  BY <1>15, <1>21, <2>2 DEF SameStack
  <2>4. Len(s.stack) \in Nat  BY DEF Sound, UI
  <2>. QED  BY <1>11, <2>3, <2>4
<1>. QED  BY <1>21, <1>22, <1>23, <1>24

(* Typing.                                                                 *)
LEMMA TypeCharIsSound ==
  ASSUME NEW s, Sound(s, NoEdit, NoEdit), NEW e, e = TopEdit(s), e # NoEdit,
         NEW key, NEW t, t = TypeChar(s, e, key)
  PROVE  Sound(t, NoEdit, NoEdit) /\ SameStack(s, t) /\ ClosedAlike(s, t)
<1>1. e \in 1 .. Len(s.edits) /\ s.edits[e] \in Editors  BY TopEditIs
<1>2. PICK char : char = IF key = "CR" THEN "newline" ELSE key  OBVIOUS
<1>3. PICK old \in Texts : old = s.edits[e].text  BY <1>1 DEF Editors
<1>4. CASE t = s  BY <1>4 DEF SameStack, ClosedAlike
<1>5. CASE key \in Typable \cup {"CR"} /\ t = SetText(s, e, Append(old, char))
  <2>1. char \in Chars  BY <1>2, <1>5 DEF Chars
  <2>2. PICK words \in Texts : words = Append(old, char)
    <3>1. Append(old, char) \in Seq(Chars)  BY <2>1, AppendProperties DEF Texts
    <3>. QED  BY <3>1 DEF Texts
  <2>3. PICK none \in Nat : none = NoEdit  BY DEF NoEdit
  <2>4. Sound(s, none, none) /\ t = SetText(s, e, words)  BY <1>5, <2>2, <2>3
  <2>5. Sound(t, none, none) /\ SameStack(s, t) /\ ClosedAlike(s, t)
    BY <1>1, <2>4, SetTextIsSound
  <2>. QED  BY <2>3, <2>5
<1>. QED  BY <1>2, <1>3, <1>4, <1>5 DEF TypeChar

(* The newline that ends a message.                                        *)
LEMMA PostAlwaysIsSound ==
  ASSUME NEW s, Sound(s, NoEdit, NoEdit), NEW key, NEW t, t = PostAlways(s, key)
  PROVE  /\ Sound(t, NoEdit, NoEdit) /\ KeysStay(s, t)
         /\ t = s \/ (key = "CR" /\ ~QuietTop(s) /\ OnlyCloses(s, t, TopEdit(s)))
<1>1. PICK e : e = TopEdit(s)  OBVIOUS
<1>2. CASE t = s  BY <1>2 DEF KeysStay
<1>3. CASE t # s
  <2>1. /\ e # NoEdit /\ key = "CR" /\ s.edits[e].style = "multi" /\ EndsInDot(s.edits[e].text)
        /\ t = CloseEdit(SetText(s, e, SubSeq(s.edits[e].text, 1, Len(s.edits[e].text) - 2)), TRUE)
    BY <1>1, <1>3 DEF PostAlways
  <2>2. e \in 1 .. Len(s.edits) /\ s.edits[e] \in Editors  BY <1>1, <2>1, TopEditIs
  <2>3. PICK old \in Texts : old = s.edits[e].text  BY <2>2 DEF Editors
  <2>4. Len(old) \in Nat /\ Len(old) >= 2
    <3>1. PICK n \in Nat : n = Len(old)  BY DEF Texts
    <3>2. EndsInDot(old)  BY <2>1, <2>3
    <3>3. CASE old = <<".", "newline">>
      <4>1. Len(old) = 2  BY <3>3
      <4>. QED  BY <4>1
    <3>4. CASE Len(old) > 2
      <4>1. n > 2  BY <3>1, <3>4
      <4>. QED  BY <3>1, <4>1
    <3>. QED  BY <3>2, <3>3, <3>4 DEF EndsInDot
  <2>5. PICK m \in Nat : m = Len(old) - 2 /\ m <= Len(old)
    <3>1. Len(old) - 2 \in Nat /\ Len(old) - 2 <= Len(old)  BY <2>4
    <3>. QED  BY <3>1
  <2>6. PICK words \in Texts : words = SubSeq(old, 1, m)
    <3>1. \A i \in 1 .. m : old[i] \in Chars  BY <2>5 DEF Texts
    <3>2. SubSeq(old, 1, m) \in Seq(Chars)  BY <2>5, <3>1, SubSeqProperties
    <3>. QED  BY <3>2 DEF Texts
  <2>7. PICK r : r = SetText(s, e, words)  OBVIOUS
  <2>8. PICK none \in Nat : none = NoEdit  BY DEF NoEdit
  <2>9. Sound(s, none, none)  BY <2>8
  <2>10. Sound(r, none, none) /\ SameStack(s, r) /\ ClosedAlike(s, r)
    BY <2>2, <2>7, <2>9, SetTextIsSound
  <2>11. TopEdit(r) = e  BY <1>1, <2>10 DEF SameStack, TopEdit, Top
  <2>12. PICK yes \in BOOLEAN : yes = TRUE  OBVIOUS
  <2>13. t = CloseEdit(r, yes) /\ Sound(r, NoEdit, NoEdit)
    BY <2>1, <2>3, <2>5, <2>6, <2>7, <2>8, <2>10, <2>12
  <2>14. Sound(t, NoEdit, NoEdit) /\ KeysStay(r, t) /\ OnlyCloses(r, t, e)
    BY <2>1, <2>11, <2>13, CloseEditIsSound
  <2>15. KeysStay(s, t)  BY <2>10, <2>14 DEF KeysStay, SameStack
  <2>16. OnlyCloses(s, t, e)  BY <2>10, <2>14 DEF OnlyCloses, ClosedAlike
  <2>17. ~QuietTop(s)
    <3>1. old # <<>>  BY <2>4
    <3>. QED  BY <1>1, <2>1, <2>3, <3>1 DEF QuietTop
  <2>. QED  BY <1>1, <2>1, <2>14, <2>15, <2>16, <2>17
<1>. QED  BY <1>2, <1>3

(* A command that the active keymap may bind.                              *)
ClosedHere(s, t) == QuietTop(t) /\ \E e \in 1 .. Len(s.edits) : OnlyCloses(s, t, e)

(* Editors closed alike: none was closed.                                  *)
LEMMA AlikeOpensOnly ==
  ASSUME NEW s \in UI, NEW t, ClosedAlike(s, t)
  PROVE  OpensOnly(s, t)
<1>1. Len(s.edits) \in Nat  BY DEF UI
<1>2. \A x \in 1 .. Len(t.edits) : ~(x > Len(s.edits))  BY <1>1 DEF ClosedAlike
<1>. QED  BY <1>1, <1>2 DEF ClosedAlike, OpensOnly

(* A command of its own context keeps the interface sound; the command     *)
(* that leaves a context leaves it.                                        *)
LEMMA ExecuteIsSound ==
  ASSUME NEW s, Sound(s, NoEdit, NoEdit), NEW command \in STRING,
         command \notin OthersCommands(s.keymap), NEW t, t = Execute(s, command)
  PROVE  /\ Sound(t, NoEdit, NoEdit) /\ (OpensOnly(s, t) \/ ClosedHere(s, t))
         /\ s.keymap # "recv" /\ command = Leave(s.keymap) => Len(t.stack) < Len(s.stack)
<1>1. /\ s \in UI /\ Shaped(s.stack, s.tw, s.cmdwin, s.viewer) /\ s.keymap = s.stack[1].keymap
  BY DEF Sound
<1>2. PICK none \in Nat : none = NoEdit  BY DEF NoEdit
<1>3. PICK e : e = TopEdit(s)  OBVIOUS
<1>4. s.keymap \in EditMaps \cup {"recv", "popless"}  BY <1>1 DEF UI, ActiveMaps
<1>5. OpensOnly(s, s)
  <2>1. ClosedAlike(s, s)  BY DEF ClosedAlike
  <2>. QED  BY <1>1, <2>1, AlikeOpensOnly
<1>6. CASE t = s /\ command \notin {"edit:cancel", "popless:quit"}
  BY <1>5, <1>6 DEF Leave
<1>7. ASSUME command \in {"start-command", "reply"} PROVE s.tw = NoEdit /\ s.keymap = "recv"
  <2>1. s.keymap = "recv"  BY <1>4, <1>7 DEF OthersCommands, OpeningCommands, EditMaps
  <2>2. Len(s.stack) = 1  BY <1>1, <2>1, TopIsAbove
  <2>3. s.tw # NoEdit => \E i \in 1 .. Len(s.stack) - 1 : s.stack[i].edit = s.tw
    BY <1>1 DEF Shaped
  <2>. QED  BY <2>1, <2>2, <2>3
<1>8. CASE command = "start-command" /\ t = StartCommand(s)
  <2>1. PICK editStyle \in EditStyles, keymap \in EditMaps, hist \in HistoryNames,
             callback \in Callbacks \ {"search"} :
          t = OpenMain(s, editStyle, keymap, hist, callback)
    BY <1>8 DEF StartCommand, EditStyles, EditMaps, HistoryNames, Callbacks
  <2>2. Sound(t, none, none) /\ OpensOnly(s, t)  BY <1>2, <1>7, <1>8, <2>1, OpenMainIsSound
  <2>. QED  BY <1>2, <1>7, <1>8, <2>2
<1>9. CASE command = "reply" /\ t = StartEditWin(s)
  <2>1. PICK editStyle \in EditStyles, keymap \in EditMaps, hist \in HistoryNames,
             callback \in Callbacks \ {"search"} :
          t = OpenMain(s, editStyle, keymap, hist, callback)
    BY <1>9 DEF StartEditWin, EditStyles, EditMaps, HistoryNames, Callbacks
  <2>2. Sound(t, none, none) /\ OpensOnly(s, t)  BY <1>2, <1>7, <1>9, <2>1, OpenMainIsSound
  <2>. QED  BY <1>2, <1>7, <1>9, <2>2
<1>10. CASE command = "help" /\ t = Popless(s)
  <2>1. Sound(t, none, none) /\ t.edits = s.edits  BY <1>2, <1>10, PoplessIsSound
  <2>2. OpensOnly(s, t)  BY <1>5, <2>1 DEF OpensOnly
  <2>. QED  BY <1>2, <1>10, <2>1, <2>2 DEF Leave
<1>11. CASE command = "popless:quit" /\ t = PoplessQuit(s)
  <2>1. s.keymap = "popless"  BY <1>4, <1>11 DEF OthersCommands, ViewerCommands, EditMaps
  <2>2. Sound(t, NoEdit, NoEdit) /\ t.edits = s.edits /\ Len(t.stack) = Len(s.stack) - 1
    BY <1>11, <2>1, PoplessQuitIsSound
  <2>3. OpensOnly(s, t)  BY <1>5, <2>2 DEF OpensOnly
  <2>4. Len(s.stack) \in Nat  BY <1>1 DEF UI
  <2>. QED  BY <2>2, <2>3, <2>4
<1>12. CASE command = "popless:start-search" /\ t = StartSearch(s)
  <2>1. s.keymap = "popless"  BY <1>4, <1>12 DEF OthersCommands, ViewerCommands, EditMaps
  <2>2. Sound(t, NoEdit, NoEdit) /\ OpensOnly(s, t)  BY <1>12, <2>1, StartSearchIsSound
  <2>. QED  BY <1>12, <2>1, <2>2 DEF Leave
<1>13. ASSUME command \in EditCommands PROVE e # NoEdit /\ e \in 1 .. Len(s.edits) /\ s.keymap \in EditMaps
  <2>1. s.keymap \in EditMaps  BY <1>4, <1>13 DEF OthersCommands, EditMaps
  <2>2. s.stack # <<>> /\ s.stack[1].edit # NoEdit  BY <1>1, <2>1, TopIsAbove
  <2>3. e # NoEdit  BY <1>1, <1>3, <2>2, TopIsFirst
  <2>. QED  BY <1>3, <2>1, <2>3, TopEditIs
<1>14. ASSUME command \in {"edit:cancel", "edit:done"}, NEW success \in BOOLEAN, t = CloseEdit(s, success)
       PROVE  Sound(t, NoEdit, NoEdit) /\ ClosedHere(s, t) /\ (~success => Len(t.stack) < Len(s.stack))
  <2>1. e # NoEdit /\ e \in 1 .. Len(s.edits)  BY <1>13, <1>14 DEF EditCommands
  <2>2. /\ Sound(t, NoEdit, NoEdit) /\ QuietTop(t) /\ OnlyCloses(s, t, e)
        /\ ~success => Len(t.stack) < Len(s.stack)
    BY <1>3, <1>14, <2>1, CloseEditIsSound
  <2>. QED  BY <2>1, <2>2 DEF ClosedHere
<1>15. CASE command = "edit:cancel" /\ t = CloseEdit(s, FALSE)
  <2>1. PICK no \in BOOLEAN : no = FALSE  OBVIOUS
  <2>2. command \in {"edit:cancel", "edit:done"} /\ t = CloseEdit(s, no)  BY <1>15, <2>1
  <2>. QED  BY <1>14, <2>1, <2>2
<1>16. CASE command = "edit:done" /\ t = CloseEdit(s, TRUE)
  <2>1. PICK yes \in BOOLEAN : yes = TRUE  OBVIOUS
  <2>2. command \in {"edit:cancel", "edit:done"} /\ t = CloseEdit(s, yes)  BY <1>16, <2>1
  <2>3. command # Leave(s.keymap)  BY <1>16 DEF Leave
  <2>. QED  BY <1>14, <2>2, <2>3
<1>17. CASE command = "edit:history-prev" /\ s.edits[e].hist # "none" /\ t = HistoryPrev(s, e)
  <2>1. Sound(t, NoEdit, NoEdit) /\ ClosedAlike(s, t)
    BY <1>3, <1>13, <1>17, HistoryPrevIsSound DEF EditCommands
  <2>. QED  BY <1>1, <1>17, <2>1, AlikeOpensOnly DEF Leave
<1>18. CASE command = "edit:history-next" /\ s.edits[e].hist # "none" /\ t = HistoryNext(s, e)
  <2>1. Sound(t, NoEdit, NoEdit) /\ ClosedAlike(s, t)
    BY <1>3, <1>13, <1>18, HistoryNextIsSound DEF EditCommands
  <2>. QED  BY <1>1, <1>18, <2>1, AlikeOpensOnly DEF Leave
<1>19. \/ t = s /\ command \notin {"edit:cancel", "popless:quit"}
       \/ command = "start-command" /\ t = StartCommand(s)
       \/ command = "reply" /\ t = StartEditWin(s)
       \/ command = "help" /\ t = Popless(s)
       \/ command = "popless:quit" /\ t = PoplessQuit(s)
       \/ command = "popless:start-search" /\ t = StartSearch(s)
       \/ command = "edit:cancel" /\ t = CloseEdit(s, FALSE)
       \/ command = "edit:done" /\ t = CloseEdit(s, TRUE)
       \/ command = "edit:history-prev" /\ s.edits[e].hist # "none" /\ t = HistoryPrev(s, e)
       \/ command = "edit:history-next" /\ s.edits[e].hist # "none" /\ t = HistoryNext(s, e)
  <2>1. CASE command \in {"start-command", "reply"}  BY <2>1 DEF Execute
  <2>2. CASE command \in {"help", "popless:quit", "popless:start-search"}  BY <2>2 DEF Execute
  <2>3. CASE command \in {"edit:cancel", "edit:done"}  BY <2>3 DEF Execute
  <2>4. CASE command \in {"edit:history-prev", "edit:history-next"}  BY <1>3, <2>4 DEF Execute
  <2>5. CASE command \notin {"start-command", "reply", "help", "popless:quit", "popless:start-search",
                             "edit:cancel", "edit:done", "edit:history-prev", "edit:history-next"}
    BY <2>5 DEF Execute
  <2>. QED  BY <2>1, <2>2, <2>3, <2>4, <2>5
<1>. QED  BY <1>6, <1>8, <1>9, <1>10, <1>11, <1>12, <1>15, <1>16, <1>17, <1>18, <1>19

(* The end of a key.                                                       *)
LEMMA KeysForgotten ==
  ASSUME NEW s, Sound(s, NoEdit, NoEdit), NEW t, t = ResetKeys(s)
  PROVE  /\ Sound(t, NoEdit, NoEdit) /\ t.stack = s.stack /\ t.keymap = s.keymap /\ t.edits = s.edits
         /\ t.keys = <<>> /\ t.esc = FALSE
<1>1. s \in UI  BY DEF Sound
<1>2. <<>> \in Seq(KeyNames) /\ FALSE \in BOOLEAN  OBVIOUS
<1>3. PICK r : r = [s EXCEPT !.keys = <<>>]  OBVIOUS
<1>4. /\ r \in UI /\ r.stack = s.stack /\ r.keymap = s.keymap /\ r.edits = s.edits /\ r.tw = s.tw
      /\ r.cmdwin = s.cmdwin /\ r.viewer = s.viewer /\ r.hist = s.hist /\ r.crashed = s.crashed
      /\ r.keys = <<>>
  BY <1>1, <1>2, <1>3 DEF UI
<1>5. t = [r EXCEPT !.esc = FALSE]  BY <1>1, <1>3 DEF ResetKeys, UI
<1>6. /\ t \in UI /\ t.stack = s.stack /\ t.keymap = s.keymap /\ t.edits = s.edits /\ t.tw = s.tw
      /\ t.cmdwin = s.cmdwin /\ t.viewer = s.viewer /\ t.hist = s.hist /\ t.crashed = s.crashed
      /\ t.keys = <<>> /\ t.esc = FALSE
  BY <1>2, <1>4, <1>5 DEF UI
<1>7. Sound(t, NoEdit, NoEdit)  BY <1>6 DEF Sound
<1>. QED  BY <1>6, <1>7

(* Of the editors, at most one is closed that was not.                     *)
ClosesAtMostOne(s, t) ==
  \E e : \A x \in 1 .. Len(t.edits) :
    x # e /\ t.edits[x].closed # 0 => x \in 1 .. Len(s.edits) /\ s.edits[x].closed # 0

(* A command that only opens closes no editor.                             *)
LEMMA OpeningClosesNone ==
  ASSUME NEW s \in UI, NEW t \in UI, OpensOnly(s, t), NEW x \in 1 .. Len(t.edits),
         t.edits[x].closed # 0
  PROVE  x \in 1 .. Len(s.edits) /\ s.edits[x].closed # 0
<1>1. Len(s.edits) \in Nat /\ Len(t.edits) \in Nat  BY DEF UI
<1>2. ~(x > Len(s.edits))  BY DEF OpensOnly
<1>3. x \in 1 .. Len(s.edits)  BY <1>1, <1>2
<1>. QED  BY <1>3 DEF OpensOnly

(* A command that ends an editor closes no other.                          *)
LEMMA EndingClosesOne ==
  ASSUME NEW s \in UI, NEW t \in UI, NEW e, OnlyCloses(s, t, e), NEW x \in 1 .. Len(t.edits), x # e,
         t.edits[x].closed # 0
  PROVE  x \in 1 .. Len(s.edits) /\ s.edits[x].closed # 0
<1>1. Len(s.edits) \in Nat /\ Len(t.edits) \in Nat  BY DEF UI
<1>2. ~(x > Len(s.edits))  BY DEF OnlyCloses
<1>3. x \in 1 .. Len(s.edits)  BY <1>1, <1>2
<1>. QED  BY <1>3 DEF OnlyCloses

(* A command, and the newline that may end a message after it.             *)
Lower(s, t) == Len(t.stack) < Len(s.stack)
(* A command, and the always-executed one after it, keep the interface     *)
(* sound and close at most one editor.                                     *)
LEMMA CommandIsSound ==
  ASSUME NEW s, Sound(s, NoEdit, NoEdit), NEW command \in STRING,
         command \notin OthersCommands(s.keymap), NEW key,
         NEW r, r = ResetKeys(Execute(s, command)), NEW t, t \in {r, PostAlways(r, key)}
  PROVE  /\ Sound(t, NoEdit, NoEdit) /\ t.keys = <<>> /\ ClosesAtMostOne(s, t)
         /\ key # "CR" /\ s.keymap # "recv" /\ command = Leave(s.keymap) => Lower(s, t)
<1>1. PICK done : done = Execute(s, command)  OBVIOUS
<1>2. /\ Sound(done, NoEdit, NoEdit) /\ (OpensOnly(s, done) \/ ClosedHere(s, done))
      /\ s.keymap # "recv" /\ command = Leave(s.keymap) => Len(done.stack) < Len(s.stack)
  BY <1>1, ExecuteIsSound
<1>3. r = ResetKeys(done)  BY <1>1
<1>4. /\ Sound(r, NoEdit, NoEdit) /\ r.stack = done.stack /\ r.edits = done.edits /\ r.keys = <<>>
  BY <1>2, <1>3, KeysForgotten
<1>5. s \in UI /\ done \in UI /\ r \in UI  BY <1>2, <1>4 DEF Sound
<1>6. OpensOnly(s, r) \/ ClosedHere(s, r)
  <2>1. TopEdit(r) = TopEdit(done)  BY <1>4 DEF TopEdit, Top
  <2>. QED  BY <1>2, <1>4, <2>1 DEF OpensOnly, ClosedHere, QuietTop, OnlyCloses
<1>7. CASE t = r
  <2>1. ClosesAtMostOne(s, t)
    <3>1. CASE OpensOnly(s, r)
      BY <1>5, <1>7, <3>1, OpeningClosesNone DEF ClosesAtMostOne
    <3>2. CASE ClosedHere(s, r)
      <4>1. PICK e \in 1 .. Len(s.edits) : OnlyCloses(s, r, e)  BY <3>2 DEF ClosedHere
      <4>. QED  BY <1>5, <1>7, <4>1, EndingClosesOne DEF ClosesAtMostOne
    <3>. QED  BY <1>6, <3>1, <3>2
  <2>. QED  BY <1>2, <1>4, <1>7, <2>1 DEF Lower
<1>8. CASE t = PostAlways(r, key) /\ t # r
  <2>1. /\ Sound(t, NoEdit, NoEdit) /\ KeysStay(r, t)
        /\ key = "CR" /\ ~QuietTop(r) /\ OnlyCloses(r, t, TopEdit(r))
    BY <1>4, <1>8, PostAlwaysIsSound
  <2>2. t.keys = <<>>  BY <1>4, <2>1 DEF KeysStay
  <2>3. OpensOnly(s, r)  BY <1>6, <2>1 DEF ClosedHere
  <2>4. t \in UI  BY <2>1 DEF Sound
  <2>5. PICK e : e = TopEdit(r)  OBVIOUS
  <2>6. ASSUME NEW x \in 1 .. Len(t.edits), x # e, t.edits[x].closed # 0
        PROVE  x \in 1 .. Len(s.edits) /\ s.edits[x].closed # 0
    <3>1. x \in 1 .. Len(r.edits) /\ r.edits[x].closed # 0
      BY <1>5, <2>1, <2>4, <2>5, <2>6, EndingClosesOne
    <3>. QED  BY <1>5, <2>3, <3>1, OpeningClosesNone
  <2>7. ClosesAtMostOne(s, t)  BY <2>6 DEF ClosesAtMostOne
  <2>. QED  BY <2>1, <2>2, <2>7
<1>. QED  BY <1>7, <1>8

(* Looking up keys.                                                        *)
LEMMA PrefixEnds ==
  ASSUME NEW S, NEW keys \in Seq(S), keys # <<>>, NEW T, NEW long \in Seq(T), IsPrefix(keys, long)
  PROVE  /\ Len(keys) \in 1 .. Len(long) /\ long[Len(keys)] = keys[Len(keys)]
         /\ Len(keys) = Len(long) => keys = long
<1>1. PICK n \in Nat \ {0} : n = Len(keys)  OBVIOUS
<1>2. n <= Len(long) /\ Len(long) \in Nat /\ SubSeq(keys, 1, n) = SubSeq(long, 1, n)
  BY <1>1 DEF IsPrefix
<1>3. \A i \in 1 .. n : keys[i] \in S /\ long[i] \in T  BY <1>1, <1>2
<1>4. \A i \in 1 .. n : SubSeq(keys, 1, n)[i] = keys[i]
  <2>1. \A i \in 1 .. n - 1 + 1 : SubSeq(keys, 1, n)[i] = keys[1 + i - 1]
    BY <1>1, <1>3, SubSeqProperties
  <2>. QED  BY <1>1, <2>1
<1>5. \A i \in 1 .. n : SubSeq(long, 1, n)[i] = long[i]
  <2>1. \A i \in 1 .. n - 1 + 1 : SubSeq(long, 1, n)[i] = long[1 + i - 1]
    BY <1>1, <1>3, SubSeqProperties
  <2>. QED  BY <1>1, <2>1
<1>6. \A i \in 1 .. n : keys[i] = long[i]  BY <1>2, <1>4, <1>5
<1>7. n = Len(long) => keys = long
  <2>1. SUFFICES ASSUME n = Len(long) PROVE keys = long  OBVIOUS
  <2>2. keys \in Seq(S \cup T) /\ long \in Seq(S \cup T)  OBVIOUS
  <2>. QED  BY <1>1, <1>6, <2>1, <2>2, SeqEqual
<1>. QED  BY <1>1, <1>2, <1>6, <1>7

(* The newest binding that fits the keys is a binding, and fits.           *)
LEMMA HitsAreFound ==
  ASSUME NEW map \in DOMAIN KeymapTable, NEW keys, Hits(KeymapTable[map].bindings, keys) # {},
         NEW hit, hit = KeymapTable[map].bindings[NewestHit(KeymapTable[map].bindings, keys)]
  PROVE  hit \in ToSet(KeymapTable[map].bindings) /\ IsPrefix(keys, hit.keys)
<1>1. PICK bindings \in Seq([keys : Seq(STRING), command : STRING]) : bindings = KeymapTable[map].bindings
  BY KeymapAssumption
<1>2. PICK T \in SUBSET Nat, n \in Nat :
        T = Hits(bindings, keys) /\ T # {} /\ T \subseteq 1 .. n /\ n = Len(bindings)
  <2>1. Hits(bindings, keys) \subseteq 1 .. Len(bindings) /\ Len(bindings) \in Nat  BY DEF Hits
  <2>. QED  BY <1>1, <2>1
<1>3. PICK i \in T : \A j \in T : j <= i
  <2>1. \A x \in T : x <= n  BY <1>2
  <2>2. PICK m \in T : m = Max(T) /\ \A x \in T : x <= m  BY <1>2, <2>1, GreatestNumber
  <2>. QED  BY <2>2
<1>4. PICK newest : newest = CHOOSE k \in T : \A j \in T : j <= k  OBVIOUS
<1>5. newest \in T  BY <1>3, <1>4
<1>6. hit = bindings[newest]  BY <1>1, <1>2, <1>4 DEF NewestHit
<1>7. newest \in DOMAIN bindings /\ IsPrefix(keys, bindings[newest].keys)  BY <1>2, <1>5 DEF Hits
<1>. QED  BY <1>1, <1>6, <1>7 DEF ToSet

Fitting(active, keys, b) == b \in BindingsOf(active) /\ IsPrefix(keys, b.keys)
FoundAs(found, keys, b) ==
  IF b.keys = keys THEN \E map : found = Bound(map, b.command) ELSE found = Waiting

(* What owl_keyhandler_process finds along the chain: a binding that fits, *)
(* or that there is none.                                                  *)
LEMMA FoundIs ==
  ASSUME NEW active \in ActiveMaps, NEW keys, NEW found, found = FindBinding(KeymapTable, active, keys)
  PROVE  \/ found = Unbound /\ \A b : ~Fitting(active, keys, b)
         \/ \E b : Fitting(active, keys, b) /\ FoundAs(found, keys, b)
<1>1. PICK chain \in Seq(DOMAIN KeymapTable) : chain = Chain(KeymapTable, active)
  BY KeymapAssumption DEF ActiveMaps
<1>2. PICK fits : fits = {m \in DOMAIN chain : Hits(KeymapTable[chain[m]].bindings, keys) # {}}
  OBVIOUS
<1>3. fits \in SUBSET Nat  BY <1>2
<1>4. ASSUME NEW m \in DOMAIN chain
      PROVE  /\ chain[m] \in DOMAIN KeymapTable
             /\ \A b \in ToSet(KeymapTable[chain[m]].bindings) : b \in BindingsOf(active)
  <2>1. chain[m] \in DOMAIN KeymapTable /\ chain[m] \in ToSet(chain)  BY <1>4 DEF ToSet
  <2>. QED  BY <1>1, <2>1 DEF BindingsOf
<1>5. CASE fits = {}
  <2>1. found = Unbound  BY <1>1, <1>2, <1>5 DEF FindBinding
  <2>2. ASSUME NEW b, Fitting(active, keys, b) PROVE FALSE
    <3>1. PICK m \in ToSet(chain) : b \in ToSet(KeymapTable[m].bindings)
      BY <1>1, <2>2 DEF Fitting, BindingsOf
    <3>2. PICK k \in DOMAIN chain : m = chain[k]  BY <3>1 DEF ToSet
    <3>3. PICK i \in DOMAIN KeymapTable[m].bindings : b = KeymapTable[m].bindings[i]
      BY <3>1 DEF ToSet
    <3>4. i \in Hits(KeymapTable[m].bindings, keys)  BY <2>2, <3>3 DEF Fitting, Hits
    <3>. QED  BY <1>2, <1>5, <3>2, <3>4
  <2>. QED  BY <2>1, <2>2
<1>6. CASE fits # {}
  <2>1. PICK least \in fits : \A k \in fits : least <= k  BY <1>3, <1>6, LeastNumber
  <2>2. PICK first : first = CHOOSE m \in fits : \A k \in fits : m <= k  OBVIOUS
  <2>3. first \in fits  BY <2>1, <2>2
  <2>4. PICK map : map = chain[first]  OBVIOUS
  <2>5. PICK hit : hit = KeymapTable[map].bindings[NewestHit(KeymapTable[map].bindings, keys)]
    OBVIOUS
  <2>6. found = IF hit.keys = keys THEN Bound(map, hit.command) ELSE Waiting
    <3>. DEFINE way  == Chain(KeymapTable, active)
                those == {m \in DOMAIN way : Hits(KeymapTable[way[m]].bindings, keys) # {}}
                where == way[CHOOSE m \in those : \A k \in those : m <= k]
                what  == KeymapTable[where].bindings[NewestHit(KeymapTable[where].bindings, keys)]
    <3>1. found = IF those = {} THEN Unbound
                  ELSE IF what.keys = keys THEN Bound(where, what.command) ELSE Waiting
      BY DEF FindBinding
    <3>2. those = fits  BY <1>1, <1>2
    <3>3. where = map  BY <1>1, <2>2, <2>4, <3>2
    <3>4. what = hit  BY <2>5, <3>3
    <3>. HIDE DEF what, where, those, way
    <3>. QED  BY <1>6, <3>1, <3>2, <3>3, <3>4
  <2>7. /\ map \in DOMAIN KeymapTable /\ Hits(KeymapTable[map].bindings, keys) # {}
        /\ \A b \in ToSet(KeymapTable[map].bindings) : b \in BindingsOf(active)
    BY <1>2, <1>4, <2>3, <2>4
  <2>8. hit \in ToSet(KeymapTable[map].bindings) /\ IsPrefix(keys, hit.keys)
    BY <2>5, <2>7, HitsAreFound
  <2>9. Fitting(active, keys, hit) /\ FoundAs(found, keys, hit)
    BY <2>6, <2>7, <2>8 DEF Fitting, FoundAs
  <2>. QED  BY <2>9
<1>. QED  BY <1>5, <1>6

(* Keys that wait, and the keys that leave.                                *)
KeysLead(s) == s.keys = <<>> \/ \E b \in BindingsOf(s.keymap) : IsStrictPrefix(s.keys, b.keys)
StaysClear(s, t) == t.stack = s.stack /\ t.keymap = s.keymap /\ t.keys = <<>> /\ t.esc = FALSE

(* A binding that fits keeps to its context; if its keys end in one that   *)
(* leaves, it is the binding that leaves.                                  *)
LEMMA FittingKeys ==
  ASSUME NEW active \in ActiveMaps, NEW keys \in Seq(KeyNames), keys # <<>>, NEW b,
         Fitting(active, keys, b)
  PROVE  /\ b.command \in STRING /\ b.command \notin OthersCommands(active)
         /\ keys[Len(keys)] \in LeavingKeys /\ active # "recv" =>
              b.keys = keys /\ b.command = Leave(active)
<1>1. b \in BindingsOf(active) /\ IsPrefix(keys, b.keys)  BY DEF Fitting
<1>2. active \in EditMaps \cup {"recv", "popless"}  BY DEF ActiveMaps
<1>3. PICK map \in ToSet(Chain(KeymapTable, active)) : b \in ToSet(KeymapTable[map].bindings)
  BY <1>1 DEF BindingsOf
<1>4. PICK chain \in Seq(DOMAIN KeymapTable) : chain = Chain(KeymapTable, active)
  BY <1>2, KeymapAssumption
<1>5. map \in DOMAIN KeymapTable  BY <1>3, <1>4 DEF ToSet
<1>. DEFINE Bindings == [keys : Seq(STRING), command : STRING]
<1>6. PICK bindings \in Seq(Bindings) : bindings = KeymapTable[map].bindings
  BY <1>5, KeymapAssumption
<1>. HIDE DEF Bindings
<1>7. b \in Bindings
  <2>1. PICK i \in DOMAIN bindings : b = bindings[i]  BY <1>3, <1>6 DEF ToSet
  <2>2. bindings[i] \in Bindings  OBVIOUS
  <2>. QED  BY <2>1, <2>2
<1>8. b.command \notin OthersCommands(active)  BY <1>1, <1>2, KeymapAssumption
<1>9. ASSUME keys[Len(keys)] \in LeavingKeys, active # "recv"
      PROVE  b.keys = keys /\ b.command = Leave(active)
  <2>1. PICK long \in Seq(STRING) : long = b.keys  BY <1>7 DEF Bindings
  <2>2. /\ Len(keys) \in 1 .. Len(long) /\ long[Len(keys)] = keys[Len(keys)]
        /\ Len(keys) = Len(long) => keys = long
    BY <1>1, <2>1, PrefixEnds
  <2>3. active \in EditMaps \cup {"popless"}  BY <1>2, <1>9
  <2>4. \A i \in DOMAIN b.keys : b.keys[i] \in LeavingKeys => i = Len(b.keys) /\ b.command = Leave(active)
    BY <1>1, <2>3, KeymapAssumption
  <2>5. Len(keys) \in DOMAIN b.keys /\ b.keys[Len(keys)] \in LeavingKeys  BY <1>9, <2>1, <2>2
  <2>6. Len(keys) = Len(b.keys) /\ b.command = Leave(active)  BY <2>4, <2>5
  <2>. QED  BY <2>1, <2>2, <2>6
<1>10. b.command \in STRING  BY <1>7 DEF Bindings
<1>. QED  BY <1>8, <1>9, <1>10

(* A key is looked up and its command run, or it waits; pressed alone, C-c *)
(* leaves the context.                                                     *)
LEMMA HandleIsSound ==
  ASSUME NEW s, Sound(s, NoEdit, NoEdit), s.keys # <<>>, s.esc = FALSE, NEW key, NEW t, t = Handle(s, key)
  PROVE  /\ Sound(t, NoEdit, NoEdit) /\ KeysLead(t) /\ ClosesAtMostOne(s, t)
         /\ s.keymap # "recv" /\ key \in LeavingKeys /\ s.keys[Len(s.keys)] = key =>
              /\ Lower(s, t) \/ StaysClear(s, t)
              /\ s.keys = <<"C-c">> => Lower(s, t)
<1>1. s \in UI  BY DEF Sound
<1>2. PICK keys \in Seq(KeyNames), active \in ActiveMaps : keys = s.keys /\ active = s.keymap
  BY <1>1 DEF UI
<1>3. PICK found : found = FindBinding(KeymapTable, active, keys)  OBVIOUS
<1>4. t = CASE found.kind = "wait"  -> s
            [] found.kind = "bound" ->
                 IF IsEditKeymap(found.map) THEN PostAlways(ResetKeys(Execute(s, found.command)), key)
                 ELSE ResetKeys(Execute(s, found.command))
            [] OTHER ->
                 IF IsEditKeymap(s.keymap) /\ Len(s.keys) = 1
                 THEN PostAlways(ResetKeys(TypeChar(s, TopEdit(s), key)), key)
                 ELSE ResetKeys(s)
  BY <1>2, <1>3 DEF Handle
<1>5. Waiting.kind = "wait" /\ Unbound.kind = "unbound"  BY DEF Waiting, Unbound
<1>6. "CR" \notin LeavingKeys  BY KeymapAssumption
<1>7. ASSUME NEW b, Fitting(active, keys, b), FoundAs(found, keys, b)
      PROVE  /\ Sound(t, NoEdit, NoEdit) /\ KeysLead(t) /\ ClosesAtMostOne(s, t)
             /\ active # "recv" /\ key \in LeavingKeys /\ keys[Len(keys)] = key => Lower(s, t)
  <2>1. /\ b.command \in STRING /\ b.command \notin OthersCommands(active)
        /\ keys[Len(keys)] \in LeavingKeys /\ active # "recv" =>
             b.keys = keys /\ b.command = Leave(active)
    BY <1>2, <1>7, FittingKeys
  <2>2. CASE b.keys # keys
    <3>1. found = Waiting  BY <1>7, <2>2 DEF FoundAs
    <3>2. t = s  BY <1>4, <1>5, <3>1
    <3>3. KeysLead(s)  BY <1>2, <1>7, <2>2 DEF KeysLead, Fitting, IsStrictPrefix
    <3>4. ClosesAtMostOne(s, s)  BY DEF ClosesAtMostOne
    <3>. QED  BY <2>1, <2>2, <3>2, <3>3, <3>4
  <2>3. CASE b.keys = keys
    <3>1. PICK map : found = Bound(map, b.command)  BY <1>7, <2>3 DEF FoundAs
    <3>2. found.kind = "bound" /\ found.command = b.command  BY <3>1 DEF Bound
    <3>3. PICK command \in STRING : command = b.command  BY <2>1
    <3>4. PICK r : r = ResetKeys(Execute(s, command))  OBVIOUS
    <3>5. t \in {r, PostAlways(r, key)}  BY <1>4, <3>2, <3>3, <3>4
    <3>6. command \notin OthersCommands(s.keymap)  BY <1>2, <2>1, <3>3
    <3>7. Sound(t, NoEdit, NoEdit) /\ t.keys = <<>> /\ ClosesAtMostOne(s, t)
      BY <3>4, <3>5, <3>6, CommandIsSound
    <3>8. key # "CR" /\ s.keymap # "recv" /\ command = Leave(s.keymap) => Lower(s, t)
      BY <3>4, <3>5, <3>6, CommandIsSound
    <3>. QED  BY <1>2, <1>6, <2>1, <3>3, <3>7, <3>8 DEF KeysLead
  <2>. QED  BY <2>2, <2>3
<1>8. ASSUME found = Unbound, \A b : ~Fitting(active, keys, b)
      PROVE  /\ Sound(t, NoEdit, NoEdit) /\ KeysLead(t) /\ ClosesAtMostOne(s, t)
             /\ key \in LeavingKeys => StaysClear(s, t)
             /\ ~(active # "recv" /\ keys = <<"C-c">>)
  <2>1. ~(active # "recv" /\ keys = <<"C-c">>)
    <3>1. SUFFICES ASSUME active # "recv", keys = <<"C-c">> PROVE FALSE  OBVIOUS
    <3>2. active \in EditMaps \cup {"popless"}  BY <3>1 DEF ActiveMaps
    <3>3. PICK b : b = Binding(<<"C-c">>, Leave(active)) /\ b \in BindingsOf(active)
      BY <3>2, KeymapAssumption
    <3>4. b.keys = keys  BY <3>1, <3>3 DEF Binding
    <3>5. Len(keys) <= Len(keys)  BY <1>2
    <3>6. IsPrefix(keys, b.keys)  BY <3>4, <3>5 DEF IsPrefix
    <3>. QED  BY <1>8, <3>3, <3>6 DEF Fitting
  <2>2. CASE IsEditKeymap(s.keymap) /\ Len(s.keys) = 1
    <3>1. PICK e : e = TopEdit(s)  OBVIOUS
    <3>2. e # NoEdit
      <4>1. s.keymap \in EditMaps  BY <1>2, <2>2 DEF IsEditKeymap, ActiveMaps, EditMaps
      <4>2. Shaped(s.stack, s.tw, s.cmdwin, s.viewer) /\ s.keymap = s.stack[1].keymap  BY DEF Sound
      <4>3. s.stack # <<>> /\ s.stack[1].edit # NoEdit  BY <1>1, <4>1, <4>2, TopIsAbove
      <4>. QED  BY <1>1, <3>1, <4>3, TopIsFirst
    <3>3. PICK typed : typed = TypeChar(s, e, key)  OBVIOUS
    <3>4. Sound(typed, NoEdit, NoEdit) /\ SameStack(s, typed) /\ ClosedAlike(s, typed)
      BY <3>1, <3>2, <3>3, TypeCharIsSound
    <3>5. PICK r : r = ResetKeys(typed)  OBVIOUS
    <3>6. /\ Sound(r, NoEdit, NoEdit) /\ r.stack = typed.stack /\ r.keymap = typed.keymap
          /\ r.edits = typed.edits /\ r.keys = <<>> /\ r.esc = FALSE
      BY <3>4, <3>5, KeysForgotten
    <3>7. t = PostAlways(r, key)
      BY <1>4, <1>5, <1>8, <2>2, <3>1, <3>3, <3>5
    <3>8. /\ Sound(t, NoEdit, NoEdit) /\ KeysStay(r, t)
          /\ t = r \/ (key = "CR" /\ ~QuietTop(r) /\ OnlyCloses(r, t, TopEdit(r)))
      BY <3>6, <3>7, PostAlwaysIsSound
    <3>9. t.keys = <<>>  BY <3>6, <3>8 DEF KeysStay
    <3>10. r \in UI /\ t \in UI  BY <3>6, <3>8 DEF Sound
    <3>11. ClosedAlike(s, r)  BY <3>4, <3>6 DEF ClosedAlike
    <3>12. OpensOnly(s, r)  BY <1>1, <3>11, AlikeOpensOnly
    <3>13. ClosesAtMostOne(s, t)
      <4>1. CASE t = r  BY <1>1, <3>10, <3>12, <4>1, OpeningClosesNone DEF ClosesAtMostOne
      <4>2. CASE OnlyCloses(r, t, TopEdit(r))
        <5>1. PICK x0 : x0 = TopEdit(r)  OBVIOUS
        <5>2. ASSUME NEW x \in 1 .. Len(t.edits), x # x0, t.edits[x].closed # 0
              PROVE  x \in 1 .. Len(s.edits) /\ s.edits[x].closed # 0
          <6>1. x \in 1 .. Len(r.edits) /\ r.edits[x].closed # 0
            BY <3>10, <4>2, <5>1, <5>2, EndingClosesOne
          <6>. QED  BY <1>1, <3>10, <3>12, <6>1, OpeningClosesNone
        <5>. QED  BY <5>2 DEF ClosesAtMostOne
      <4>. QED  BY <3>8, <4>1, <4>2
    <3>14. key \in LeavingKeys => StaysClear(s, t)
      BY <1>6, <3>4, <3>6, <3>8 DEF StaysClear, SameStack
    <3>. QED  BY <2>1, <3>8, <3>9, <3>13, <3>14 DEF KeysLead
  <2>3. CASE ~(IsEditKeymap(s.keymap) /\ Len(s.keys) = 1)
    <3>1. t = ResetKeys(s)  BY <1>4, <1>5, <1>8, <2>3
    <3>2. /\ Sound(t, NoEdit, NoEdit) /\ t.stack = s.stack /\ t.keymap = s.keymap /\ t.edits = s.edits
          /\ t.keys = <<>> /\ t.esc = FALSE
      BY <3>1, KeysForgotten
    <3>. QED  BY <2>1, <3>2 DEF KeysLead, ClosesAtMostOne, StaysClear
  <2>. QED  BY <2>2, <2>3
<1>9. \/ found = Unbound /\ \A b : ~Fitting(active, keys, b)
      \/ \E b : Fitting(active, keys, b) /\ FoundAs(found, keys, b)
  BY <1>3, FoundIs
<1>. QED  BY <1>2, <1>7, <1>8, <1>9

(* A key, whatever state it finds: C-c leaves, or at least clears the way. *)
LEMMA PressKeyIsSound ==
  ASSUME NEW s, Sound(s, NoEdit, NoEdit), KeysLead(s), NEW key \in Keys \cup {"C-c"},
         NEW t, t = PressKey(s, key)
  PROVE  /\ Sound(t, NoEdit, NoEdit) /\ KeysLead(t) /\ ClosesAtMostOne(s, t)
         /\ s.keymap # "recv" /\ key = "C-c" =>
              /\ Lower(s, t) \/ StaysClear(s, t)
              /\ s.keys = <<>> /\ s.esc = FALSE => Lower(s, t)
<1>1. s \in UI  BY DEF Sound
<1>2. CASE key = "ESC" /\ s.esc = FALSE
  <2>1. t = [s EXCEPT !.esc = TRUE]  BY <1>2 DEF PressKey
  <2>2. /\ t \in UI /\ t.stack = s.stack /\ t.keymap = s.keymap /\ t.edits = s.edits /\ t.tw = s.tw
        /\ t.cmdwin = s.cmdwin /\ t.viewer = s.viewer /\ t.hist = s.hist /\ t.crashed = s.crashed
        /\ t.keys = s.keys
    <3>1. TRUE \in BOOLEAN  OBVIOUS
    <3>. QED  BY <1>1, <2>1, <3>1 DEF UI
  <2>3. Sound(t, NoEdit, NoEdit)  BY <2>2 DEF Sound
  <2>4. KeysLead(t) /\ ClosesAtMostOne(s, t)  BY <2>2 DEF KeysLead, ClosesAtMostOne
  <2>. QED  BY <1>2, <2>3, <2>4
<1>3. CASE ~(key = "ESC" /\ s.esc = FALSE)
  <2>1. PICK name \in KeyNames :
          /\ name = IF s.esc THEN "M-" \o key ELSE key
          /\ key = "C-c" => name \in LeavingKeys
          /\ key = "C-c" /\ s.esc = FALSE => name = "C-c"
    <3>1. PICK name : name = IF s.esc THEN "M-" \o key ELSE key  OBVIOUS
    <3>2. Keys \subseteq STRING  BY ContextAssumption
    <3>3. s.esc \in BOOLEAN  BY <1>1 DEF UI
    <3>4. CASE s.esc
      <4>1. name = "M-" \o key  BY <3>1, <3>4
      <4>. QED  BY <3>1, <3>4, <4>1 DEF KeyNames, LeavingKeys
    <3>5. CASE ~s.esc
      <4>1. name = key  BY <3>1, <3>5
      <4>. QED  BY <3>1, <3>2, <3>5, <4>1 DEF KeyNames, LeavingKeys
    <3>. QED  BY <3>4, <3>5
  <2>2. PICK old \in Seq(KeyNames) : old = s.keys  BY <1>1 DEF UI
  <2>3. PICK keys \in Seq(KeyNames) :
          /\ keys = Append(old, name) /\ keys # <<>> /\ keys[Len(keys)] = name
          /\ old = <<>> => keys = <<name>> /\ Len(keys) = 1
    <3>1. /\ Append(old, name) \in Seq(KeyNames) /\ Append(old, name) # <<>>
          /\ Len(Append(old, name)) = Len(old) + 1 /\ Append(old, name)[Len(old) + 1] = name
      BY AppendProperties
    <3>2. old = <<>> => Append(old, name) = <<name>> /\ Len(old) = 0  OBVIOUS
    <3>. QED  BY <3>1, <3>2
  <2>4. PICK r : r = [s EXCEPT !.esc = FALSE, !.keys = keys]  OBVIOUS
  <2>5. /\ r \in UI /\ r.stack = s.stack /\ r.keymap = s.keymap /\ r.edits = s.edits /\ r.tw = s.tw
        /\ r.cmdwin = s.cmdwin /\ r.viewer = s.viewer /\ r.hist = s.hist /\ r.crashed = s.crashed
        /\ r.keys = keys /\ r.esc = FALSE
    <3>1. FALSE \in BOOLEAN  OBVIOUS
    <3>2. PICK r0 : r0 = [s EXCEPT !.esc = FALSE]  OBVIOUS
    <3>3. /\ r0 \in UI /\ r0.stack = s.stack /\ r0.keymap = s.keymap /\ r0.edits = s.edits
          /\ r0.tw = s.tw /\ r0.cmdwin = s.cmdwin /\ r0.viewer = s.viewer /\ r0.hist = s.hist
          /\ r0.crashed = s.crashed /\ r0.esc = FALSE
      BY <1>1, <3>1, <3>2 DEF UI
    <3>4. r = [r0 EXCEPT !.keys = keys]  BY <1>1, <2>4, <3>2 DEF UI
    <3>. QED  BY <3>3, <3>4 DEF UI
  <2>6. Sound(r, NoEdit, NoEdit)  BY <2>5 DEF Sound
  <2>7. t = IF Len(r.keys) > MaxStack THEN ResetKeys(r) ELSE Handle(r, name)
    <3>1. s.esc \in BOOLEAN  BY <1>1 DEF UI
    <3>. DEFINE nm == IF s.esc THEN "M-" \o key ELSE key
                tt == [s EXCEPT !.esc = FALSE, !.keys = Append(@, nm)]
    <3>2. t = IF Len(tt.keys) > MaxStack THEN ResetKeys(tt) ELSE Handle(tt, nm)
      BY <1>3, <3>1 DEF PressKey
    <3>3. nm = name  BY <2>1
    <3>4. tt = r  BY <2>2, <2>3, <2>4, <3>3
    <3>. HIDE DEF tt, nm
    <3>. QED  BY <3>2, <3>3, <3>4
  <2>8. MaxStack \in Nat \ {0}  BY ContextAssumption
  <2>9. CASE Len(r.keys) > MaxStack
    <3>1. t = ResetKeys(r)  BY <2>7, <2>9
    <3>2. /\ Sound(t, NoEdit, NoEdit) /\ t.stack = r.stack /\ t.keymap = r.keymap /\ t.edits = r.edits
          /\ t.keys = <<>> /\ t.esc = FALSE
      BY <2>6, <3>1, KeysForgotten
    <3>3. s.keys # <<>>  BY <2>2, <2>3, <2>5, <2>8, <2>9
    <3>4. KeysLead(t) /\ ClosesAtMostOne(s, t) /\ StaysClear(s, t)
      BY <2>5, <3>2 DEF KeysLead, ClosesAtMostOne, StaysClear
    <3>. QED  BY <3>2, <3>3, <3>4
  <2>10. CASE ~(Len(r.keys) > MaxStack)
    <3>1. t = Handle(r, name)  BY <2>7, <2>10
    <3>2. Sound(t, NoEdit, NoEdit) /\ KeysLead(t) /\ ClosesAtMostOne(r, t)
      BY <2>3, <2>5, <2>6, <3>1, HandleIsSound
    <3>3. r.keymap # "recv" /\ name \in LeavingKeys /\ r.keys[Len(r.keys)] = name =>
            /\ Lower(r, t) \/ StaysClear(r, t)
            /\ r.keys = <<"C-c">> => Lower(r, t)
      BY <2>3, <2>5, <2>6, <3>1, HandleIsSound
    <3>4. ClosesAtMostOne(s, t)  BY <2>5, <3>2 DEF ClosesAtMostOne
    <3>5. (Lower(r, t) => Lower(s, t)) /\ (StaysClear(r, t) => StaysClear(s, t))
      BY <2>5 DEF Lower, StaysClear
    <3>6. ASSUME s.keymap # "recv", key = "C-c"
          PROVE  /\ Lower(s, t) \/ StaysClear(s, t)
                 /\ s.keys = <<>> /\ s.esc = FALSE => Lower(s, t)
      <4>1. r.keymap # "recv" /\ name \in LeavingKeys /\ r.keys[Len(r.keys)] = name
        BY <2>1, <2>3, <2>5, <3>6
      <4>2. s.keys = <<>> /\ s.esc = FALSE => r.keys = <<"C-c">>  BY <2>1, <2>2, <2>3, <2>5, <3>6
      <4>. QED  BY <3>3, <3>5, <4>1, <4>2
    <3>. QED  BY <3>2, <3>4, <3>6
  <2>. QED  BY <2>9, <2>10
<1>4. s.esc \in BOOLEAN  BY <1>1 DEF UI
<1>. QED  BY <1>2, <1>3, <1>4

-----------------------------------------------------------------------------
ContextInv == Sound(ui, NoEdit, NoEdit) /\ KeysLead(ui)

(* The interface begins sound, with no key waiting.                        *)
LEMMA ContextInvInit == ContextInit => ContextInv
<1>. SUFFICES ASSUME ContextInit PROVE ContextInv  OBVIOUS
<1>1. PICK stack \in Seq(Frames) : /\ stack = <<RecvFrame>> /\ Len(stack) = 1 /\ stack[1] = RecvFrame
                                   /\ stack # <<>>
  <2>1. RecvFrame \in Frames  BY DEF RecvFrame, Frames, Frame, ActiveMaps, NoEdit
  <2>2. <<RecvFrame>> \in Seq(Frames) /\ Len(<<RecvFrame>>) = 1 /\ <<RecvFrame>>[1] = RecvFrame
    BY <2>1
  <2>. QED  BY <2>2
<1>2. PICK hist \in [HistoryNames -> Histories] :
        hist = [h \in HistoryNames |-> History(<<>>, 0, FALSE)] /\
        \A h \in HistoryNames : hist[h] = History(<<>>, 0, FALSE)
  <2>1. <<>> \in Seq(Texts) /\ 0 \in Nat /\ FALSE \in BOOLEAN  OBVIOUS
  <2>2. PICK empty \in Histories : empty = History(<<>>, 0, FALSE)  BY <2>1, HistoryIs
  <2>3. PICK hist : hist = [h \in HistoryNames |-> empty]  OBVIOUS
  <2>4. hist \in [HistoryNames -> Histories] /\ \A h \in HistoryNames : hist[h] = empty  BY <2>3
  <2>. QED  BY <2>2, <2>3, <2>4
<1>3. /\ ui.stack = stack /\ ui.keymap = "recv" /\ ui.keys = <<>> /\ ui.esc = FALSE /\ ui.edits = <<>>
      /\ ui.tw = NoEdit /\ ui.viewer = FALSE /\ ui.cmdwin = NoEdit /\ ui.hist = hist /\ ui.crashed = FALSE
  BY <1>1, <1>2 DEF ContextInit, RecvFrame, HistoryNames
<1>4. ui \in UI
  <2>1. /\ <<>> \in Seq(KeyNames) /\ <<>> \in Seq(Editors) /\ NoEdit \in Nat /\ "recv" \in ActiveMaps
        /\ FALSE \in BOOLEAN
    BY DEF NoEdit, ActiveMaps
  <2>2. ui = [stack |-> stack, keymap |-> "recv", keys |-> <<>>, esc |-> FALSE, edits |-> <<>>,
              tw |-> NoEdit, viewer |-> FALSE, cmdwin |-> NoEdit, hist |-> hist, crashed |-> FALSE]
    BY <1>1, <1>2 DEF ContextInit, RecvFrame, HistoryNames
  <2>. QED  BY <2>1, <2>2 DEF UI
<1>5. Shaped(ui.stack, ui.tw, ui.cmdwin, ui.viewer)  BY <1>1, <1>3 DEF Shaped
<1>6. Edited(ui.edits, ui.tw, ui.cmdwin, NoEdit, NoEdit)
  <2>1. Len(ui.edits) = 0  BY <1>3
  <2>. QED  BY <1>3, <2>1 DEF Edited, NoEdit
<1>7. \A h \in HistoryNames : HistoryKept(ui.hist[h])
  <2>1. PICK empty : empty = History(<<>>, 0, FALSE)  OBVIOUS
  <2>2. empty.lines = <<>> /\ empty.cur = 0 /\ empty.partial = FALSE  BY <2>1 DEF History
  <2>3. Reset(empty).lines = <<>>  BY <2>2 DEF Reset, History
  <2>4. HistorySize \in Nat /\ Len(<<>>) = 0  BY ContextAssumption
  <2>5. HistoryKept(empty)  BY <2>2, <2>3, <2>4 DEF HistoryKept, Tidy
  <2>. QED  BY <1>2, <1>3, <2>1, <2>5
<1>8. Browsed(ui.edits, ui.tw, ui.hist)  BY <1>3 DEF Browsed
<1>9. ui.keymap = ui.stack[1].keymap  BY <1>1, <1>3 DEF RecvFrame, Frame
<1>. QED  BY <1>3, <1>4, <1>5, <1>6, <1>7, <1>8, <1>9 DEF ContextInv, Sound, KeysLead

(* Every step, and how many editors it closes.                             *)
LEMMA StayingKeysLead ==
  ASSUME NEW s, NEW t, KeysLead(s), KeysStay(s, t)
  PROVE  KeysLead(t)
BY DEF KeysLead, KeysStay

(* Every key, and every filter that speaks up, keeps the interface sound   *)
(* and closes at most one editor.                                          *)
LEMMA ContextStep ==
  ASSUME ~NestedEdits, ContextInv, [ContextNext]_ui
  PROVE  ContextInv' /\ ClosesAtMostOne(ui, ui')
<1>1. PICK s : s = ui  OBVIOUS
<1>2. PICK t : t = ui'  OBVIOUS
<1>3. SUFFICES Sound(t, NoEdit, NoEdit) /\ KeysLead(t) /\ ClosesAtMostOne(s, t)
  BY <1>1, <1>2 DEF ContextInv
<1>4. Sound(s, NoEdit, NoEdit) /\ KeysLead(s) /\ s \in UI  BY <1>1 DEF ContextInv, Sound
<1>5. PICK none \in Nat : none = NoEdit  BY DEF NoEdit
<1>6. ASSUME NEW key \in Keys, Press(key)
      PROVE  Sound(t, NoEdit, NoEdit) /\ KeysLead(t) /\ ClosesAtMostOne(s, t)
  <2>1. PICK k \in Keys \cup {"C-c"} : k = key  OBVIOUS
  <2>2. t = PressKey(s, k)  BY <1>1, <1>2, <1>6, <2>1 DEF Press
  <2>. QED  BY <1>4, <2>2, PressKeyIsSound
<1>7. CASE ScriptEdits
  <2>1. s.tw = NoEdit /\ t \in {StartQuestion(s), StartEditWin(s)}
    BY <1>1, <1>2, <1>7 DEF ScriptEdits
  <2>2. PICK editStyle \in EditStyles, keymap \in EditMaps, hist \in HistoryNames,
             callback \in Callbacks \ {"search"} :
          t = OpenMain(s, editStyle, keymap, hist, callback)
    <3>1. CASE t = StartQuestion(s)
      BY <3>1 DEF StartQuestion, EditStyles, EditMaps, HistoryNames, Callbacks
    <3>2. CASE t = StartEditWin(s)
      BY <3>2 DEF StartEditWin, EditStyles, EditMaps, HistoryNames, Callbacks
    <3>. QED  BY <2>1, <3>1, <3>2
  <2>3. Sound(t, none, none) /\ KeysStay(s, t) /\ OpensOnly(s, t)
    BY <1>4, <1>5, <2>1, <2>2, OpenMainIsSound
  <2>4. t \in UI  BY <2>3 DEF Sound
  <2>5. ClosesAtMostOne(s, t)  BY <1>4, <2>3, <2>4, OpeningClosesNone DEF ClosesAtMostOne
  <2>. QED  BY <1>4, <1>5, <2>3, <2>5, StayingKeysLead
<1>8. CASE ScriptPopsUp
  <2>1. t = Popless(s)  BY <1>1, <1>2, <1>8 DEF ScriptPopsUp
  <2>2. Sound(t, none, none) /\ KeysStay(s, t) /\ t.edits = s.edits
    BY <1>4, <1>5, <2>1, PoplessIsSound
  <2>. QED  BY <1>4, <1>5, <2>2, StayingKeysLead DEF ClosesAtMostOne
<1>9. CASE UNCHANGED ui
  <2>1. t = s  BY <1>1, <1>2, <1>9
  <2>. QED  BY <1>4, <2>1 DEF ClosesAtMostOne
<1>. QED  BY <1>6, <1>7, <1>8, <1>9 DEF ContextNext

(* An editor has one place on the stack, if it has any.                    *)
LEMMA PlacesAreCounted ==
  ASSUME NEW s, Sound(s, NoEdit, NoEdit), NEW e \in 1 .. Len(s.edits)
  PROVE  Cardinality(OnStack(s, e)) = IF e \in {s.tw, s.cmdwin} THEN 1 ELSE 0
<1>1. PICK stack \in Seq(Frames), n \in Nat : stack = s.stack /\ Len(stack) = n + 1
  <2>1. PICK stack \in Seq(Frames) : stack = s.stack /\ stack # <<>>  BY DEF Sound, Shaped, UI
  <2>2. Len(stack) \in Nat \ {0}  BY <2>1
  <2>3. Len(stack) - 1 \in Nat /\ Len(stack) = (Len(stack) - 1) + 1  BY <2>2
  <2>. QED  BY <2>1, <2>3
<1>2. Shaped(stack, s.tw, s.cmdwin, s.viewer)  BY <1>1 DEF Sound
<1>3. e # NoEdit  BY DEF NoEdit
<1>4. stack[n + 1].edit = NoEdit  BY <1>1, <1>2 DEF Shaped, RecvFrame, Frame
<1>5. \A i \in 1 .. n : stack[i].edit \in {NoEdit, s.tw, s.cmdwin}
  BY <1>1, <1>2 DEF Shaped, PoplessFrame, Frame
<1>6. \A i, j \in 1 .. n : stack[i].edit = stack[j].edit => i = j  BY <1>1, <1>2 DEF Shaped
<1>7. e \in {s.tw, s.cmdwin} => \E i \in 1 .. n : stack[i].edit = e
  <2>1. s.tw # NoEdit => \E i \in 1 .. n : stack[i].edit = s.tw  BY <1>1, <1>2 DEF Shaped
  <2>2. s.cmdwin # NoEdit => \E i \in 1 .. n : stack[i].edit = s.cmdwin  BY <1>1, <1>2 DEF Shaped
  <2>. QED  BY <1>3, <2>1, <2>2
<1>8. OnStack(s, e) = {i \in 1 .. n : stack[i].edit = e}
  <2>1. \A i \in 1 .. n + 1 : i \in 1 .. n \/ i = n + 1  OBVIOUS
  <2>2. \A i \in 1 .. n : i \in 1 .. n + 1  OBVIOUS
  <2>3. DOMAIN s.stack = 1 .. n + 1  BY <1>1
  <2>. QED  BY <1>1, <1>3, <1>4, <2>1, <2>2, <2>3 DEF OnStack
<1>9. CASE e \in {s.tw, s.cmdwin}
  <2>1. PICK i \in 1 .. n : stack[i].edit = e  BY <1>7, <1>9
  <2>2. OnStack(s, e) = {i}  BY <1>6, <1>8, <2>1
  <2>3. Cardinality({i}) = 1  BY FS_Singleton
  <2>. QED  BY <1>9, <2>2, <2>3
<1>10. CASE e \notin {s.tw, s.cmdwin}
  <2>1. OnStack(s, e) = {}  BY <1>3, <1>5, <1>8, <1>10
  <2>2. Cardinality({}) = 0  BY FS_EmptySet
  <2>. QED  BY <1>10, <2>1, <2>2
<1>. QED  BY <1>9, <1>10

(* An interface that is sound, with keys that lead somewhere, serves its   *)
(* keys.                                                                   *)
LEMMA ContextsServeHere ==
  ASSUME ContextInv
  PROVE  ContextsServeKeys
<1>1. PICK s : s = ui  OBVIOUS
<1>2. Sound(s, NoEdit, NoEdit) /\ KeysLead(s) /\ s \in UI  BY <1>1 DEF ContextInv, Sound
<1>3. /\ Shaped(s.stack, s.tw, s.cmdwin, s.viewer) /\ s.keymap = s.stack[1].keymap
      /\ Edited(s.edits, s.tw, s.cmdwin, NoEdit, NoEdit)
  BY <1>2 DEF Sound
<1>4. s.stack # <<>> /\ (s.keymap = "recv" => Len(s.stack) = 1)  BY <1>2, <1>3, TopIsAbove
<1>5. PICK edits \in Seq(Editors) : edits = s.edits /\ DOMAIN edits = 1 .. Len(edits)
  BY <1>2 DEF UI
<1>6. EditorsAreClosedOnce
  <2>1. KeymapFollowsContext  BY <1>1, <1>2, <1>3, <1>4, TopIsFirst DEF KeymapFollowsContext
  <2>2. ASSUME NEW e \in 1 .. Len(edits)
        PROVE  /\ s.edits[e].refs = Cardinality(OnStack(s, e)) + (IF s.tw = e THEN 1 ELSE 0)
               /\ s.edits[e].closed + Cardinality(OnStack(s, e)) = 1
    <3>1. Cardinality(OnStack(s, e)) = IF e \in {s.tw, s.cmdwin} THEN 1 ELSE 0
      BY <1>2, <1>5, PlacesAreCounted
    <3>2. /\ s.edits[e].refs = Due(e, s.tw, s.cmdwin, NoEdit)
          /\ s.edits[e].closed = IF e \in {s.tw, s.cmdwin, NoEdit} THEN 0 ELSE 1
      BY <1>3, <1>5 DEF Edited
    <3>3. e # NoEdit  BY DEF NoEdit
    <3>4. Due(e, s.tw, s.cmdwin, NoEdit) = IF e = s.tw THEN 2 ELSE IF e = s.cmdwin THEN 1 ELSE 0
      BY <3>3 DEF Due
    <3>. QED  BY <3>1, <3>2, <3>3, <3>4
  <2>. QED  BY <1>1, <1>5, <2>1, <2>2 DEF EditorsAreClosedOnce, ReferencesAreExact, ClosedOnce
<1>7. PendingKeysLead
  <2>1. SUFFICES ASSUME s.keys # <<>> PROVE PendingKeysLead  BY <1>1 DEF PendingKeysLead
  <2>2. PICK b \in BindingsOf(s.keymap) : IsStrictPrefix(s.keys, b.keys)  BY <1>2, <2>1 DEF KeysLead
  <2>3. PICK map \in ToSet(Chain(KeymapTable, s.keymap)) : b \in ToSet(KeymapTable[map].bindings)
    BY <2>2 DEF BindingsOf
  <2>. QED  BY <1>1, <2>2, <2>3 DEF PendingKeysLead
<1>8. EscapeLeaves
  <2>1. SUFFICES ASSUME Len(s.stack) > 1
                 PROVE  \/ Lower(s, PressKey(s, "C-c"))
                        \/ Lower(s, PressKey(PressKey(s, "C-c"), "C-c"))
    BY <1>1 DEF EscapeLeaves, Lower
  <2>2. s.keymap # "recv"
    <3>1. SUFFICES ASSUME s.keymap = "recv" PROVE FALSE  OBVIOUS
    <3>2. PICK n : n = Len(s.stack)  OBVIOUS
    <3>3. n = 1 /\ n > 1  BY <1>4, <2>1, <3>1, <3>2
    <3>. QED  BY <3>3
  <2>3. PICK key \in Keys \cup {"C-c"} : key = "C-c"  OBVIOUS
  <2>4. PICK t : t = PressKey(s, key)  OBVIOUS
  <2>5. Sound(t, NoEdit, NoEdit) /\ KeysLead(t) /\ (Lower(s, t) \/ StaysClear(s, t))
    BY <1>2, <2>2, <2>3, <2>4, PressKeyIsSound
  <2>6. CASE Lower(s, t)  BY <2>3, <2>4, <2>6
  <2>7. CASE StaysClear(s, t)
    <3>1. t.keymap # "recv" /\ t.keys = <<>> /\ t.esc = FALSE /\ t.stack = s.stack
      BY <2>2, <2>7 DEF StaysClear
    <3>2. PICK u : u = PressKey(t, key)  OBVIOUS
    <3>3. Lower(t, u)  BY <2>3, <2>5, <3>1, <3>2, PressKeyIsSound
    <3>. QED  BY <2>3, <2>4, <3>1, <3>2, <3>3 DEF Lower
  <2>. QED  BY <2>5, <2>6, <2>7
<1>9. HistoryKeepsText
  <2>1. TypedTextIsKept
    <3>1. SUFFICES ASSUME NEW e \in 1 .. Len(edits), s.edits[e].browsing,
                          IsTouched(s.hist[s.edits[e].hist])
                   PROVE  Last(s.hist[s.edits[e].hist].lines) = s.edits[e].typed
      BY <1>1, <1>5 DEF TypedTextIsKept
    <3>2. e # NoEdit  BY DEF NoEdit
    <3>3. e = s.tw  BY <1>3, <1>5, <3>1, <3>2 DEF Edited
    <3>4. Browsed(s.edits, s.tw, s.hist)  BY <1>2 DEF Sound
    <3>. QED  BY <3>1, <3>2, <3>3, <3>4 DEF Browsed
  <2>2. HistoryIsTidy
    <3>1. \A h \in HistoryNames : HistoryKept(s.hist[h])  BY <1>2 DEF Sound
    <3>2. HistoryKept(s.hist["cmd"]) /\ HistoryKept(s.hist["msg"])  BY <3>1 DEF HistoryNames
    <3>. QED  BY <1>1, <3>2 DEF HistoryIsTidy, HistoryKept, Tidy
  <2>. QED  BY <2>1, <2>2 DEF HistoryKeepsText
<1>. QED  BY <1>6, <1>7, <1>8, <1>9 DEF ContextsServeKeys, KeysAreNeverStuck

(* Keys go where the user sees them go, and out again; references are      *)
(* exact, and an editor is closed once; and what was typed is not lost     *)
(* while the history is browsed: with any keymaps that keep to their       *)
(* contexts, any number of editors and a history of any size.              *)
THEOREM ContextsServe ==
  ASSUME ~NestedEdits
  PROVE  ContextSpec => []ContextsServeKeys
<1>1. ContextInv /\ [ContextNext]_ui => ContextInv'  BY ContextStep
<1>2. ContextInv => ContextsServeKeys  BY ContextsServeHere
<1>. QED  BY <1>1, <1>2, ContextInvInit, PTL DEF ContextSpec

(* Of editors each closed at most once more, one at the most, the set of   *)
(* closed editors gains at most one.                                       *)
LEMMA OneIsClosed ==
  ASSUME NEW s \in UI, NEW t \in UI, ClosesAtMostOne(s, t), \A x \in 1 .. Len(t.edits) : t.edits[x].closed \in Nat,
         \A x \in 1 .. Len(s.edits) : s.edits[x].closed \in Nat
  PROVE  Cardinality(ClosedEdits(t) \ ClosedEdits(s)) <= 1
<1>1. DOMAIN s.edits = 1 .. Len(s.edits) /\ DOMAIN t.edits = 1 .. Len(t.edits)  BY DEF UI
<1>2. PICK e : \A x \in 1 .. Len(t.edits) :
                 x # e /\ t.edits[x].closed # 0 => x \in 1 .. Len(s.edits) /\ s.edits[x].closed # 0
  BY DEF ClosesAtMostOne
<1>3. ASSUME NEW x \in ClosedEdits(t) \ ClosedEdits(s) PROVE x = e
  <2>1. x \in 1 .. Len(t.edits) /\ t.edits[x].closed > 0  BY <1>1 DEF ClosedEdits
  <2>2. t.edits[x].closed # 0  BY <2>1
  <2>3. ASSUME x # e PROVE FALSE
    <3>1. x \in 1 .. Len(s.edits) /\ s.edits[x].closed # 0  BY <1>2, <2>1, <2>2, <2>3
    <3>2. s.edits[x].closed > 0  BY <3>1
    <3>. QED  BY <1>1, <3>1, <3>2 DEF ClosedEdits
  <2>. QED  BY <2>3
<1>4. PICK closed : closed = ClosedEdits(t) \ ClosedEdits(s)  OBVIOUS
<1>5. closed = {} \/ closed = {e}  BY <1>3, <1>4
<1>6. Cardinality({}) = 0 /\ Cardinality({e}) = 1  BY FS_EmptySet, FS_Singleton
<1>7. CASE closed = {}
  <2>1. Cardinality(closed) = 0  BY <1>6, <1>7
  <2>. QED  BY <1>4, <2>1
<1>8. CASE closed = {e}
  <2>1. Cardinality(closed) = 1  BY <1>6, <1>8
  <2>. QED  BY <1>4, <2>1
<1>. QED  BY <1>5, <1>7, <1>8

(* A key closes at most one editor: the newline that ends a command line   *)
(* is not also the end of the message that the command began.              *)
THEOREM KeysCloseOnce ==
  ASSUME ~NestedEdits
  PROVE  ContextSpec => OneEditPerKey
<1>1. ContextInv /\ [ContextNext]_ui => ContextInv'  BY ContextStep
<1>2. ContextInv /\ [ContextNext]_ui =>
        [Cardinality(ClosedEdits(ui') \ ClosedEdits(ui)) <= 1]_ui
  <2>. SUFFICES ASSUME ContextInv, [ContextNext]_ui
                PROVE  Cardinality(ClosedEdits(ui') \ ClosedEdits(ui)) <= 1
    OBVIOUS
  <2>1. ContextInv' /\ ClosesAtMostOne(ui, ui')  BY ContextStep
  <2>2. PICK s, t : s = ui /\ t = ui'  OBVIOUS
  <2>3. Sound(s, NoEdit, NoEdit) /\ Sound(t, NoEdit, NoEdit)  BY <2>1, <2>2 DEF ContextInv
  <2>4. s \in UI /\ t \in UI  BY <2>3 DEF Sound
  <2>5. ASSUME NEW r \in UI, NEW x \in 1 .. Len(r.edits) PROVE r.edits[x].closed \in Nat
    <3>1. PICK edits \in Seq(Editors) : edits = r.edits  BY DEF UI
    <3>2. edits[x] \in Editors  BY <3>1
    <3>. QED  BY <3>1, <3>2 DEF Editors
  <2>. QED  BY <2>1, <2>2, <2>4, <2>5, OneIsClosed
<1>. QED  BY <1>1, <1>2, ContextInvInit, PTL DEF ContextSpec, OneEditPerKey

-----------------------------------------------------------------------------
(* Variables: settings are copied to where they are consulted.             *)
SettingsSpec == SettingsInit /\ [][SettingsNext]_settings

(* The exposures and away texts there are.                                 *)
Exposures == {NoText, "none", "opstaff", "realm-visible"}
AwayTexts == {"", "away"}

(* The values a setting of each kind can have.                             *)
ValuesOf(kind) ==
  CASE kind = "bool" -> BOOLEAN
    [] kind = "size" -> Nat \ {0}
    [] kind \in {"int", "perl-int"} -> -1 .. 9
    [] kind = "enum" -> 0 .. 2
    [] kind = "level" -> Exposures
    [] kind = "perl-enum" -> {"off", "middle", "on"}
    [] kind = "string" -> SettingWords

Values == {val \in [Names -> UNION {ValuesOf(KindOf[n]) : n \in Names}] :
             \A n \in Names : val[n] \in ValuesOf(KindOf[n])}

(* The states of the settings and of what follows them.                    *)
SettingsStates ==
  [val : Values, cached : BOOLEAN, told : AwayTexts, bound : ToSet(CtrlDCommands),
   saved : Exposures \ {NoText}, location : Exposures,
   rec : Int, typ : Int, open : BOOLEAN, left : Nat]

(* The windows are as the size of the typing window makes them.            *)
LaidOut(s) ==
  LET rec == ScreenLines - (s.val.typewinsize + 2) IN
  IF rec < 0 THEN s.rec = 0 /\ s.typ = ScreenLines - 2 ELSE s.rec = rec /\ s.typ = s.val.typewinsize

(* The copies of the settings of s are those settings.                     *)
InStep(s) ==
  /\ s.cached = s.val.debug
  /\ s.told # "" <=> s.val.aaway
  /\ s.bound = CtrlDCommands[s.val.ctrl_d + 1]
  /\ s.location # NoText => s.location = s.val.exposure
  /\ LaidOut(s)

Kept(s) == s \in SettingsStates /\ InStep(s)
(* The windows that were opened are small, so that their size is a numeral.*)
SettingsInv == Kept(settings) /\ settings.val.typewinsize <= 9

(* The names, and what the kind of each is.                                *)
LEMMA KindsAre ==
  /\ Names = {"debug", "aaway", "typewinsize", "typewindelta", "ctrl_d", "default_exposure", "exposure",
              "logfilter", "perl_int", "perl_bool", "perl_enum"}
  /\ KindOf["debug"] = "bool" /\ KindOf["aaway"] = "bool" /\ KindOf["typewinsize"] = "size"
  /\ KindOf["typewindelta"] = "int" /\ KindOf["ctrl_d"] = "enum" /\ KindOf["default_exposure"] = "level"
  /\ KindOf["exposure"] = "level" /\ KindOf["logfilter"] = "string" /\ KindOf["perl_int"] = "perl-int"
  /\ KindOf["perl_bool"] = "bool" /\ KindOf["perl_enum"] = "perl-enum"
BY DEF Names, KindOf

(* The values of each kind, one by one.                                    *)
LEMMA KindValues ==
  /\ ValuesOf("bool") = BOOLEAN /\ ValuesOf("size") = Nat \ {0} /\ ValuesOf("int") = -1 .. 9
  /\ ValuesOf("perl-int") = -1 .. 9 /\ ValuesOf("enum") = 0 .. 2 /\ ValuesOf("level") = Exposures
  /\ ValuesOf("perl-enum") = {"off", "middle", "on"} /\ ValuesOf("string") = SettingWords
BY DEF ValuesOf

(* What is stored of each setting is a value of its kind.                  *)
LEMMA ValuesAre ==
  ASSUME NEW s \in SettingsStates
  PROVE  /\ s.val.debug \in BOOLEAN /\ s.val.aaway \in BOOLEAN /\ s.val.typewinsize \in Nat \ {0}
         /\ s.val.typewindelta \in -1 .. 9 /\ s.val.ctrl_d \in 0 .. 2 /\ s.val.exposure \in Exposures
         /\ s.val.logfilter \in SettingWords /\ s.val.perl_int \in -1 .. 9 /\ s.val.perl_bool \in BOOLEAN
         /\ s.val.perl_enum \in {"off", "middle", "on"}
<1>1. s.val \in Values  BY DEF SettingsStates
<1>2. \A n \in Names : s.val[n] \in ValuesOf(KindOf[n])  BY <1>1 DEF Values
<1>3. PICK val : val = s.val  OBVIOUS
<1>. QED  BY <1>2, KindValues, KindsAre

(* s with the windows laid out anew.                                       *)
Relaid(s, rec, typ) == [s EXCEPT !.rec = rec, !.typ = typ]

(* Laying out the windows makes them fit, whatever they were; a layout     *)
(* that fits is left as it is.                                             *)
LEMMA LayoutFits ==
  ASSUME NEW s \in SettingsStates
  PROVE  /\ \E rec, typ \in Int : LayoutContents(s) = Relaid(s, rec, typ)
         /\ LayoutContents(s) \in SettingsStates
         /\ LaidOut(LayoutContents(s))
         /\ LaidOut(s) => LayoutContents(s) = s
<1>1. s.val.typewinsize \in Nat \ {0}  BY ValuesAre
<1>2. ScreenLines \in Nat  BY SettingsAssumption
<1>3. PICK rec \in Int : rec = ScreenLines - (s.val.typewinsize + 2)  BY <1>1, <1>2
<1>4. PICK all \in Int : all = ScreenLines - 2  BY <1>2
<1>5. PICK size \in Int : size = s.val.typewinsize  BY <1>1
<1>6. PICK r \in Int, y \in Int : r = (IF rec < 0 THEN 0 ELSE rec) /\ y = (IF rec < 0 THEN all ELSE size)
  OBVIOUS
<1>7. PICK t : t = [s EXCEPT !.rec = r, !.typ = y]  OBVIOUS
<1>8. LayoutContents(s) = t  BY <1>3, <1>4, <1>5, <1>6, <1>7 DEF LayoutContents
<1>9. t \in SettingsStates /\ t.rec = r /\ t.typ = y  BY <1>7 DEF SettingsStates
<1>10. t.val = s.val  BY <1>7 DEF SettingsStates
<1>11. LaidOut(t)  BY <1>3, <1>4, <1>5, <1>6, <1>9, <1>10 DEF LaidOut
<1>12. ASSUME LaidOut(s) PROVE t = s
  <2>1. s.rec = r /\ s.typ = y  BY <1>3, <1>4, <1>5, <1>6, <1>12 DEF LaidOut
  <2>. QED  BY <1>7, <2>1 DEF SettingsStates
<1>13. t = Relaid(s, r, y)  BY <1>7 DEF Relaid
<1>. QED  BY <1>8, <1>9, <1>11, <1>12, <1>13

(* What is kept beside the settings is the same in s and t.               *)
SameCopies(s, t) ==
  /\ t.cached = s.cached /\ t.told = s.told /\ t.bound = s.bound /\ t.location = s.location
  /\ t.rec = s.rec /\ t.typ = s.typ

(* Whether the windows fit is a matter of their lines and of that setting. *)
LEMMA FitsAlike ==
  ASSUME NEW s, NEW t, LaidOut(s), t.rec = s.rec, t.typ = s.typ, t.val.typewinsize = s.val.typewinsize
  PROVE  LaidOut(t)
BY DEF LaidOut

(* What is stored, of whatever setting, is what it was but for that.       *)
LEMMA StoredIs ==
  ASSUME NEW s \in SettingsStates, NEW n \in Names, NEW v \in ValuesOf(KindOf[n])
  PROVE  /\ Stored(s, n, v) \in SettingsStates
         /\ Stored(s, n, v).val[n] = v
         /\ \A m \in Names : m # n => Stored(s, n, v).val[m] = s.val[m]
         /\ SameCopies(s, Stored(s, n, v))
         /\ s.val[n] = v => Stored(s, n, v) = s
<1>1. PICK val : val = [s.val EXCEPT ![n] = v]  OBVIOUS
<1>2. PICK t : t = [s EXCEPT !.val = val]  OBVIOUS
<1>3. Stored(s, n, v) = t  BY <1>1, <1>2 DEF Stored
<1>4. val \in Values  BY <1>1 DEF SettingsStates, Values
<1>5. t \in SettingsStates /\ t.val = val /\ SameCopies(s, t)  BY <1>2, <1>4 DEF SettingsStates, SameCopies
<1>6. val[n] = v /\ \A m \in Names : m # n => val[m] = s.val[m]  BY <1>1 DEF SettingsStates, Values
<1>7. ASSUME s.val[n] = v PROVE t = s
  <2>1. s.val = [x \in DOMAIN s.val |-> s.val[x]]  BY DEF SettingsStates, Values
  <2>2. val = s.val  BY <1>1, <1>7, <2>1
  <2>. QED  BY <1>2, <2>2 DEF SettingsStates
<1>. QED  BY <1>3, <1>5, <1>7, <1>6

(* There are no other kinds.                                               *)
LEMMA NamesHaveKinds ==
  \A n \in Names : KindOf[n] \in {"bool", "size", "int", "perl-int", "enum", "level", "perl-enum", "string"}
BY KindsAre

(* Whatever text is given, what a setting gets of it is a value that a     *)
(* setting of its kind can have.                                           *)
LEMMA TextsGiveValues ==
  ASSUME NEW n \in Names, NEW w \in SettingWords, NEW v \in FromString(KindOf[n], w)
  PROVE  /\ v \in ValuesOf(KindOf[n])
         /\ KindOf[n] = "level" => v # NoText
         /\ KindOf[n] = "size" => v <= 9
<1>1. PICK k : k = KindOf[n]  OBVIOUS
<1>2. k \in {"bool", "size", "int", "perl-int", "enum", "level", "perl-enum", "string"}
  BY <1>1, NamesHaveKinds
<1>3. ReadInt(w) \subseteq -1 .. 9
  <2>1. 4 \in -1 .. 9 /\ 1 \in -1 .. 9  OBVIOUS
  <2>. QED  BY <2>1 DEF ReadInt
<1>4. ASSUME k \in {"int", "perl-int"} PROVE v \in -1 .. 9
  BY <1>1, <1>3, <1>4 DEF FromString, IntFromString
<1>5. ASSUME k = "size" PROVE v \in Nat \ {0} /\ v <= 9
  <2>1. v \in ReadInt(w) /\ GreaterThan0(v)  BY <1>1, <1>5 DEF FromString, IntFromString
  <2>2. v \in -1 .. 9  BY <1>3, <2>1
  <2>. QED  BY <2>1, <2>2 DEF GreaterThan0
<1>6. ASSUME k = "bool" PROVE v \in BOOLEAN  BY <1>1, <1>6 DEF FromString, BoolFromString
<1>7. ASSUME k = "enum" PROVE v \in 0 .. 2
  <2>1. v \in EnumFromString(w)  BY <1>1, <1>7 DEF FromString
  <2>. QED  BY <2>1 DEF EnumFromString, IndexOf, CtrlDSettings
<1>8. ASSUME k = "level" PROVE v \in Exposures /\ v # NoText
  <2>1. ToSet(Levels) = {"none", "opstaff", "realm-visible"}  BY DEF ToSet, Levels
  <2>2. v \in LevelOf(w)  BY <1>1, <1>8 DEF FromString
  <2>. QED  BY <2>1, <2>2 DEF LevelOf, Exposures, NoText
<1>9. ASSUME k = "perl-enum" PROVE v \in {"off", "middle", "on"}
  <2>1. v \in ToSet(CtrlDSettings)  BY <1>1, <1>9 DEF FromString
  <2>. QED  BY <2>1 DEF ToSet, CtrlDSettings
<1>10. ASSUME k = "string" PROVE v \in SettingWords  BY <1>1, <1>10 DEF FromString
<1>. QED  BY <1>1, <1>2, <1>4, <1>5, <1>6, <1>7, <1>8, <1>9, <1>10 DEF ValuesOf
(* The value a setting is set to is copied to where it is used.            *)
LEMMA ValueIsSet ==
  ASSUME NEW s, Kept(s), NEW n \in Names, n # "exposure", NEW v \in ValuesOf(KindOf[n]),
         KindOf[n] = "level" => v # NoText
  PROVE  /\ Kept(SetValue(s, n, v))
         /\ SetValue(s, n, v).val.typewinsize = IF n = "typewinsize" THEN v ELSE s.val.typewinsize
<1>1. s \in SettingsStates /\ InStep(s)  BY DEF Kept
<1>2. CASE n = "debug"
  <2>1. v \in BOOLEAN  BY <1>2, KindsAre DEF ValuesOf
  <2>2. PICK u : u = [s EXCEPT !.cached = v]  OBVIOUS
  <2>3. u \in SettingsStates /\ u.cached = v /\ u.val = s.val /\ u.told = s.told /\ u.bound = s.bound
           /\ u.location = s.location /\ u.rec = s.rec /\ u.typ = s.typ
    BY <1>1, <2>1, <2>2 DEF SettingsStates
  <2>4. PICK t : t = Stored(u, n, v)  OBVIOUS
  <2>5. /\ t \in SettingsStates /\ t.val[n] = v /\ SameCopies(u, t)
        /\ \A m \in Names : m # n => t.val[m] = u.val[m]
    BY <2>3, <2>4, StoredIs
  <2>6. t.val.debug = v /\ t.val.aaway = s.val.aaway /\ t.val.ctrl_d = s.val.ctrl_d
           /\ t.val.exposure = s.val.exposure /\ t.val.typewinsize = s.val.typewinsize
    BY <1>2, <2>3, <2>5, KindsAre
  <2>7. InStep(t)
    <3>1. LaidOut(s) /\ t.rec = s.rec /\ t.typ = s.typ  BY <1>1, <2>3, <2>5, <2>6 DEF InStep, SameCopies
    <3>2. LaidOut(t)  BY <1>1, <2>3, <2>5, <2>6, <3>1, FitsAlike
    <3>. QED  BY <1>1, <2>3, <2>5, <2>6, <3>2 DEF InStep, SameCopies
  <2>8. SetValue(s, n, v) = t  BY <1>2, <2>2, <2>4 DEF SetValue, DebugSet
  <2>. QED  BY <1>2, <2>5, <2>6, <2>7, <2>8 DEF Kept
<1>3. CASE n = "aaway"
  <2>1. v \in BOOLEAN  BY <1>3, KindsAre DEF ValuesOf
  <2>2. PICK words \in AwayTexts : words = (IF v THEN "away" ELSE "")  BY DEF AwayTexts
  <2>3. PICK u : u = [s EXCEPT !.told = words]  OBVIOUS
  <2>4. u \in SettingsStates /\ u.told = words /\ u.val = s.val /\ u.cached = s.cached /\ u.bound = s.bound
           /\ u.location = s.location /\ u.rec = s.rec /\ u.typ = s.typ
    BY <1>1, <2>2, <2>3 DEF SettingsStates
  <2>5. PICK t : t = Stored(u, n, v)  OBVIOUS
  <2>6. /\ t \in SettingsStates /\ t.val[n] = v /\ SameCopies(u, t)
        /\ \A m \in Names : m # n => t.val[m] = u.val[m]
    BY <2>4, <2>5, StoredIs
  <2>7. t.val.debug = s.val.debug /\ t.val.aaway = v /\ t.val.ctrl_d = s.val.ctrl_d
           /\ t.val.exposure = s.val.exposure /\ t.val.typewinsize = s.val.typewinsize
    BY <1>3, <2>4, <2>6, KindsAre
  <2>8. words # "" <=> v  BY <2>1, <2>2
  <2>9. InStep(t)
    <3>1. LaidOut(s) /\ t.rec = s.rec /\ t.typ = s.typ  BY <1>1, <2>4, <2>6, <2>7, <2>8 DEF InStep, SameCopies
    <3>2. LaidOut(t)  BY <1>1, <2>4, <2>6, <2>7, <2>8, <3>1, FitsAlike
    <3>. QED  BY <1>1, <2>4, <2>6, <2>7, <2>8, <3>2 DEF InStep, SameCopies
  <2>10. SetValue(s, n, v) = t  BY <1>3, <2>2, <2>3, <2>5 DEF SetValue, AawaySet
  <2>. QED  BY <1>3, <2>6, <2>7, <2>9, <2>10 DEF Kept
<1>4. CASE n = "typewinsize"
  <2>1. PICK u : u = Stored(s, n, v)  OBVIOUS
  <2>2. /\ u \in SettingsStates /\ u.val[n] = v /\ SameCopies(s, u)
        /\ \A m \in Names : m # n => u.val[m] = s.val[m]
    BY <1>1, <2>1, StoredIs
  <2>3. PICK t : t = LayoutContents(u)  OBVIOUS
  <2>4. t \in SettingsStates /\ LaidOut(t)  BY <2>2, <2>3, LayoutFits
  <2>5. t.val = u.val /\ t.cached = u.cached /\ t.told = u.told /\ t.bound = u.bound
           /\ t.location = u.location
    <3>1. PICK rec \in Int, typ \in Int : t = Relaid(u, rec, typ)  BY <2>2, <2>3, LayoutFits
    <3>. QED  BY <2>2, <3>1 DEF SettingsStates, Relaid
  <2>6. t.val.debug = s.val.debug /\ t.val.aaway = s.val.aaway /\ t.val.ctrl_d = s.val.ctrl_d
           /\ t.val.exposure = s.val.exposure
    BY <1>4, <2>2, <2>5, KindsAre
  <2>7. InStep(t)
    <3>1. t.cached = s.cached /\ t.told = s.told /\ t.bound = s.bound /\ t.location = s.location
      BY <2>2, <2>5 DEF SameCopies
    <3>. QED  BY <1>1, <2>4, <2>6, <3>1 DEF InStep
  <2>8. SetValue(s, n, v) = t  BY <1>4, <2>1, <2>3 DEF SetValue, TypewinsizeSet
  <2>. QED  BY <1>4, <2>2, <2>4, <2>5, <2>7, <2>8 DEF Kept
<1>5. CASE n = "ctrl_d"
  <2>1. v \in 0 .. 2  BY <1>5, KindsAre DEF ValuesOf
  <2>2. CtrlDCommands[v + 1] \in ToSet(CtrlDCommands)  BY <2>1 DEF CtrlDCommands, ToSet
  <2>3. PICK key \in ToSet(CtrlDCommands) : key = CtrlDCommands[v + 1]  BY <2>2
  <2>4. PICK u : u = [s EXCEPT !.bound = key]  OBVIOUS
  <2>5. u \in SettingsStates /\ u.bound = key /\ u.val = s.val /\ u.cached = s.cached /\ u.told = s.told
           /\ u.location = s.location /\ u.rec = s.rec /\ u.typ = s.typ
    BY <1>1, <2>3, <2>4 DEF SettingsStates
  <2>6. PICK t : t = Stored(u, n, v)  OBVIOUS
  <2>7. /\ t \in SettingsStates /\ t.val[n] = v /\ SameCopies(u, t)
        /\ \A m \in Names : m # n => t.val[m] = u.val[m]
    BY <2>5, <2>6, StoredIs
  <2>8. t.val.debug = s.val.debug /\ t.val.aaway = s.val.aaway /\ t.val.ctrl_d = v
           /\ t.val.exposure = s.val.exposure /\ t.val.typewinsize = s.val.typewinsize
    BY <1>5, <2>5, <2>7, KindsAre
  <2>9. InStep(t)
    <3>1. LaidOut(s) /\ t.rec = s.rec /\ t.typ = s.typ  BY <1>1, <2>3, <2>5, <2>7, <2>8 DEF InStep, SameCopies
    <3>2. LaidOut(t)  BY <1>1, <2>3, <2>5, <2>7, <2>8, <3>1, FitsAlike
    <3>. QED  BY <1>1, <2>3, <2>5, <2>7, <2>8, <3>2 DEF InStep, SameCopies
  <2>10. SetValue(s, n, v) = t  BY <1>5, <2>3, <2>4, <2>6 DEF SetValue, DisableCtrlDSet
  <2>. QED  BY <1>5, <2>7, <2>8, <2>9, <2>10 DEF Kept
<1>6. CASE n = "default_exposure"
  <2>1. v \in Exposures \ {NoText}  BY <1>6, KindsAre DEF ValuesOf
  <2>2. PICK t : t = [s EXCEPT !.saved = v]  OBVIOUS
  <2>3. t \in SettingsStates /\ t.val = s.val /\ SameCopies(s, t)
    BY <1>1, <2>1, <2>2 DEF SettingsStates, SameCopies
  <2>4. InStep(t)
    <3>1. LaidOut(s) /\ t.rec = s.rec /\ t.typ = s.typ  BY <1>1, <2>3 DEF InStep, SameCopies
    <3>2. LaidOut(t)  BY <1>1, <2>3, <3>1, FitsAlike
    <3>. QED  BY <1>1, <2>3, <3>2 DEF InStep, SameCopies
  <2>5. SetValue(s, n, v) = t  BY <1>6, <2>2 DEF SetValue, DefaultExposureSet
  <2>. QED  BY <1>6, <2>3, <2>4, <2>5 DEF Kept
<1>7. CASE n \notin {"debug", "aaway", "typewinsize", "ctrl_d", "default_exposure"}
  <2>1. PICK t : t = Stored(s, n, v)  OBVIOUS
  <2>2. /\ t \in SettingsStates /\ SameCopies(s, t)
        /\ \A m \in Names : m # n => t.val[m] = s.val[m]
    BY <1>1, <2>1, StoredIs
  <2>3. t.val.debug = s.val.debug /\ t.val.aaway = s.val.aaway /\ t.val.ctrl_d = s.val.ctrl_d
           /\ t.val.exposure = s.val.exposure /\ t.val.typewinsize = s.val.typewinsize
    BY <1>7, <2>2, KindsAre
  <2>4. InStep(t)
    <3>1. LaidOut(s) /\ t.rec = s.rec /\ t.typ = s.typ  BY <1>1, <2>2, <2>3 DEF InStep, SameCopies
    <3>2. LaidOut(t)  BY <1>1, <2>2, <2>3, <3>1, FitsAlike
    <3>. QED  BY <1>1, <2>2, <2>3, <3>2 DEF InStep, SameCopies
  <2>5. SetValue(s, n, v) = t  BY <1>7, <2>1 DEF SetValue
  <2>. QED  BY <1>7, <2>2, <2>3, <2>4, <2>5 DEF Kept
<1>. QED  BY <1>2, <1>3, <1>4, <1>5, <1>6, <1>7

(* The exposure is set with the server, or not at all.                     *)
LEMMA ExposureIsSet ==
  ASSUME NEW s, Kept(s), NEW w, NEW ok, NEW t \in ExposureSet(s, w, ok)
  PROVE  Kept(t) /\ t.val.typewinsize = s.val.typewinsize
<1>1. s \in SettingsStates /\ InStep(s)  BY DEF Kept
<1>2. ToSet(Levels) = {"none", "opstaff", "realm-visible"}  BY DEF ToSet, Levels
<1>3. PICK v \in LevelOf(w) : t = Stored([s EXCEPT !.location = v], "exposure", v)  BY DEF ExposureSet
<1>4. v \in Exposures /\ v # NoText  BY <1>2, <1>3 DEF LevelOf, Exposures, NoText
<1>5. PICK u : u = [s EXCEPT !.location = v]  OBVIOUS
<1>6. u \in SettingsStates /\ u.location = v /\ u.val = s.val /\ u.cached = s.cached /\ u.told = s.told
         /\ u.bound = s.bound /\ u.rec = s.rec /\ u.typ = s.typ
  BY <1>1, <1>4, <1>5 DEF SettingsStates
<1>7. PICK n \in Names : n = "exposure" /\ v \in ValuesOf(KindOf[n])  BY <1>4, KindsAre DEF ValuesOf
<1>8. t = Stored(u, n, v)  BY <1>3, <1>5, <1>7
<1>9. /\ t \in SettingsStates /\ t.val[n] = v /\ SameCopies(u, t)
      /\ \A m \in Names : m # n => t.val[m] = u.val[m]
  BY <1>6, <1>7, <1>8, StoredIs
<1>10. t.val.debug = s.val.debug /\ t.val.aaway = s.val.aaway /\ t.val.ctrl_d = s.val.ctrl_d
         /\ t.val.exposure = v /\ t.val.typewinsize = s.val.typewinsize
  BY <1>6, <1>7, <1>9, KindsAre
<1>11. InStep(t)
  <2>1. LaidOut(s) /\ t.rec = s.rec /\ t.typ = s.typ  BY <1>1, <1>6, <1>9, <1>10 DEF InStep, SameCopies
  <2>2. LaidOut(t)  BY <1>1, <1>6, <1>9, <1>10, <2>1, FitsAlike
  <2>. QED  BY <1>1, <1>6, <1>9, <1>10, <2>2 DEF InStep, SameCopies
<1>. QED  BY <1>9, <1>10, <1>11 DEF Kept
(* What the text of a "set" makes of the settings.                         *)
LEMMA TextIsSet ==
  ASSUME NEW s, Kept(s), NEW n \in Names, NEW w \in SettingWords, NEW ok, NEW t \in SetFromString(s, n, w, ok)
  PROVE  Kept(t) /\ (s.val.typewinsize <= 9 => t.val.typewinsize <= 9)
<1>1. CASE n = "exposure"
  <2>1. t \in ExposureSet(s, w, ok)  BY <1>1 DEF SetFromString
  <2>. QED  BY <2>1, ExposureIsSet
<1>2. CASE n # "exposure"
  <2>1. PICK v \in FromString(KindOf[n], w) : t = SetValue(s, n, v)  BY <1>2 DEF SetFromString
  <2>2. /\ v \in ValuesOf(KindOf[n]) /\ (KindOf[n] = "level" => v # NoText)
        /\ KindOf[n] = "size" => v <= 9
    BY <2>1, TextsGiveValues
  <2>3. n = "typewinsize" => KindOf[n] = "size"  BY KindsAre
  <2>. QED  BY <1>2, <2>1, <2>2, <2>3, ValueIsSet
<1>. QED  BY <1>1, <1>2

(* A window of another size, opened or closed, is laid out.                *)
LEMMA ResizingKeeps ==
  ASSUME NEW s, Kept(s), NEW height \in Int
  PROVE  /\ Kept(ResizeTypwin(s, height))
         /\ height > 0 => /\ ResizeTypwin(s, height) = SetValue(s, "typewinsize", height)
                         /\ ResizeTypwin(s, height).val.typewinsize = height
         /\ ~(height > 0) => ResizeTypwin(s, height) = s
<1>1. s \in SettingsStates /\ InStep(s)  BY DEF Kept
<1>2. CASE height > 0
  <2>1. PICK n \in Names : n = "typewinsize"  BY KindsAre
  <2>2. height \in ValuesOf(KindOf[n]) /\ KindOf[n] # "level"
    <3>1. height \in Nat \ {0}  BY <1>2
    <3>2. KindOf[n] = "size"  BY <2>1, KindsAre
    <3>. QED  BY <3>1, <3>2 DEF ValuesOf
  <2>3. PICK t : t = SetValue(s, n, height)  OBVIOUS
  <2>4. Kept(t) /\ t.val.typewinsize = height  BY <2>1, <2>2, <2>3, ValueIsSet
  <2>5. t = TypewinsizeSet(s, height)  BY <2>1, <2>3 DEF SetValue
  <2>6. LayoutContents(t) = t  BY <2>4, LayoutFits DEF Kept, InStep
  <2>7. GreaterThan0(height)  BY <1>2 DEF GreaterThan0
  <2>8. ResizeTypwin(s, height) = t  BY <2>5, <2>6, <2>7 DEF ResizeTypwin
  <2>. QED  BY <1>2, <2>1, <2>3, <2>4, <2>8
<1>3. CASE ~(height > 0)
  <2>1. ~GreaterThan0(height)  BY <1>3 DEF GreaterThan0
  <2>2. LayoutContents(s) = s  BY <1>1, LayoutFits DEF InStep
  <2>. QED  BY <1>3, <2>1, <2>2 DEF ResizeTypwin
<1>. QED  BY <1>2, <1>3

(* Neither of the marks that say what goes on is a setting.                *)
LEMMA MarksAreNoSettings ==
  ASSUME NEW s, Kept(s), NEW open \in BOOLEAN, NEW left \in Nat, NEW t,
         t = [s EXCEPT !.open = open] \/ t = [s EXCEPT !.left = left] \/ t = [s EXCEPT !.location = NoText]
  PROVE  Kept(t) /\ t.val = s.val
<1>1. s \in SettingsStates /\ InStep(s)  BY DEF Kept
<1>2. t \in SettingsStates /\ t.val = s.val /\ t.cached = s.cached /\ t.told = s.told /\ t.bound = s.bound
        /\ t.rec = s.rec /\ t.typ = s.typ /\ t.location \in {s.location, NoText}
  BY <1>1 DEF SettingsStates, Exposures
<1>3. InStep(t)  BY <1>1, <1>2 DEF InStep, LaidOut
<1>. QED  BY <1>2, <1>3 DEF Kept

(* The settings BarnOwl starts with are where they are consulted.          *)
LEMMA SettingsInvInit == SettingsInit => SettingsInv
<1>. SUFFICES ASSUME SettingsInit PROVE SettingsInv
  OBVIOUS
<1>1. PICK val : val = [debug |-> FALSE, aaway |-> FALSE, typewinsize |-> 1, typewindelta |-> 0,
                ctrl_d |-> 1, default_exposure |-> NoText, exposure |-> NoText, logfilter |-> "",
                perl_int |-> 0, perl_bool |-> FALSE, perl_enum |-> "off"]
  OBVIOUS
<1>2. PICK s : s = [val |-> val, cached |-> FALSE, told |-> "", bound |-> "edit:done-or-delete",
       saved |-> "realm-visible", location |-> NoText, rec |-> 0, typ |-> 0, open |-> FALSE,
       left |-> MaxSettings]
  OBVIOUS
<1>3. settings = LayoutContents(s)  BY <1>1, <1>2 DEF SettingsInit
<1>4. val.typewinsize = 1 /\ val.typewindelta = 0 /\ val.ctrl_d = 1 /\ val.perl_int = 0
         /\ val.debug = FALSE /\ val.aaway = FALSE
  BY <1>1
<1>5. val \in Values
  <2>1. DOMAIN val = Names /\ val = [n \in Names |-> val[n]]  BY <1>1, KindsAre
  <2>2. ASSUME NEW n \in Names PROVE val[n] \in ValuesOf(KindOf[n])
    <3>1. val.debug \in BOOLEAN /\ val.aaway \in BOOLEAN /\ val.perl_bool \in BOOLEAN  BY <1>1
    <3>2. val.typewinsize \in Nat \ {0} /\ val.typewindelta \in -1 .. 9 /\ val.ctrl_d \in 0 .. 2 /\ val.perl_int \in -1 .. 9
      BY <1>4
    <3>3. val.default_exposure \in Exposures /\ val.exposure \in Exposures  BY <1>1 DEF Exposures
    <3>4. val.logfilter \in SettingWords /\ val.perl_enum \in {"off", "middle", "on"}  BY <1>1 DEF SettingWords
    <3>. QED  BY <3>1, <3>2, <3>3, <3>4, KindValues, KindsAre
  <2>. QED  BY <2>1, <2>2 DEF Values
<1>6. s \in SettingsStates
  <2>1. "edit:done-or-delete" \in ToSet(CtrlDCommands)  BY DEF ToSet, CtrlDCommands
  <2>2. MaxSettings \in Nat  BY SettingsAssumption
  <2>3. "realm-visible" \in Exposures \ {NoText} /\ NoText \in Exposures /\ "" \in AwayTexts
    BY DEF Exposures, AwayTexts, NoText
  <2>4. 0 \in Int /\ FALSE \in BOOLEAN  OBVIOUS
  <2>. QED  BY <1>2, <1>5, <2>1, <2>2, <2>3, <2>4 DEF SettingsStates
<1>7. /\ settings \in SettingsStates /\ LaidOut(settings)
      /\ \E rec, typ \in Int : settings = Relaid(s, rec, typ)
  BY <1>3, <1>6, LayoutFits
<1>8. settings.val = val /\ settings.cached = FALSE /\ settings.told = "" /\ settings.location = NoText
         /\ settings.bound = "edit:done-or-delete"
  <2>1. PICK rec \in Int, typ \in Int : settings = Relaid(s, rec, typ)  BY <1>7
  <2>. QED  BY <1>2, <2>1 DEF Relaid
<1>9. CtrlDCommands[1 + 1] = "edit:done-or-delete"  BY DEF CtrlDCommands
<1>10. settings.val.debug = FALSE /\ settings.val.aaway = FALSE /\ settings.val.ctrl_d = 1
         /\ settings.val.typewinsize = 1
  BY <1>8, <1>4
<1>11. InStep(settings)  BY <1>7, <1>8, <1>9, <1>10 DEF InStep
<1>. QED  BY <1>7, <1>11, <1>10 DEF SettingsInv, Kept

(* Whatever is set, refused, opened or closed, they stay so.               *)
LEMMA SettingsStep == SettingsInv /\ [SettingsNext]_settings => SettingsInv'
<1>. SUFFICES ASSUME SettingsInv, [SettingsNext]_settings PROVE SettingsInv'
  OBVIOUS
<1>1. PICK s, t : s = settings /\ t = settings'  OBVIOUS
<1>2. Kept(s) /\ s.val.typewinsize <= 9 /\ s \in SettingsStates  BY <1>1 DEF SettingsInv, Kept
<1>3. SUFFICES Kept(t) /\ t.val.typewinsize <= 9
  BY <1>1 DEF SettingsInv, Kept, InStep, LaidOut
<1>4. "on" \in SettingWords /\ "off" \in SettingWords  BY DEF SettingWords
<1>5. ASSUME s.left > 0 PROVE Kept(OneLess) /\ OneLess.val.typewinsize <= 9
  <2>1. s.left - 1 \in Nat  BY <1>2, <1>5 DEF SettingsStates
  <2>2. PICK left \in Nat : left = s.left - 1  BY <2>1
  <2>3. OneLess = [s EXCEPT !.left = left]  BY <1>1, <2>2 DEF OneLess
  <2>. QED  BY <1>2, <2>3, MarksAreNoSettings
<1>6. CASE Set
  <2>1. PICK n \in Names, args \in {<<>>} \cup {<<w>> : w \in SettingWords}, ok \in BOOLEAN :
          t \in SetCommand(OneLess, n, args, ok)
    BY <1>1, <1>6 DEF Set
  <2>2. s.left > 0  BY <1>1, <1>6 DEF Set
  <2>3. PICK w \in SettingWords : t \in SetFromString(OneLess, n, w, ok)
    <3>1. CASE args = <<>>  BY <1>4, <2>1, <3>1 DEF SetCommand
    <3>2. CASE args # <<>>
      <4>1. PICK w \in SettingWords : args = <<w>>  BY <2>1, <3>2
      <4>2. args[1] = w  BY <4>1
      <4>. QED  BY <1>4, <2>1, <3>2, <4>1, <4>2 DEF SetCommand
    <3>. QED  BY <3>1, <3>2
  <2>. QED  BY <1>5, <2>2, <2>3, TextIsSet
<1>7. CASE Unset
  <2>1. PICK n \in Names : t \in UnsetCommand(OneLess, n)  BY <1>1, <1>7 DEF Unset
  <2>2. s.left > 0  BY <1>1, <1>7 DEF Unset
  <2>3. t \in SetFromString(OneLess, n, "off", TRUE)  BY <2>1 DEF UnsetCommand
  <2>4. PICK w \in SettingWords : t \in SetFromString(OneLess, n, w, TRUE)  BY <1>4, <2>3
  <2>. QED  BY <1>5, <2>2, <2>4, TextIsSet
<1>8. s.val.typewinsize \in Nat \ {0} /\ s.val.typewindelta \in -1 .. 9  BY <1>2, ValuesAre
<1>9. PICK size \in Int, delta \in Int : size = s.val.typewinsize /\ delta = s.val.typewindelta /\ size <= 9
  BY <1>2, <1>8
<1>10. CASE OpenTyping
  <2>1. size + delta <= 9 /\ size + delta \in Int
    <3>1. size + delta <= MaxTypwin /\ MaxTypwin \in 0 .. 9
      BY <1>1, <1>9, <1>10, SettingsAssumption DEF OpenTyping
    <3>. QED  BY <3>1
  <2>2. PICK u : u = (IF delta > 0 THEN ResizeTypwin(s, size + delta) ELSE s)  OBVIOUS
  <2>3. Kept(u) /\ u.val.typewinsize <= 9  BY <1>2, <2>1, <2>2, ResizingKeeps
  <2>4. t = [u EXCEPT !.open = TRUE]  BY <1>1, <1>9, <1>10, <2>2 DEF OpenTyping, SetTypwinActive
  <2>. QED  BY <2>3, <2>4, MarksAreNoSettings
<1>11. CASE CloseTyping
  <2>1. size - delta \in Int /\ (delta > 0 => size - delta <= 9)  BY <1>9
  <2>2. PICK u : u = (IF delta > 0 THEN ResizeTypwin(s, size - delta) ELSE s)  OBVIOUS
  <2>3. Kept(u) /\ u.val.typewinsize <= 9  BY <1>2, <2>1, <2>2, ResizingKeeps
  <2>4. t = [u EXCEPT !.open = FALSE]  BY <1>1, <1>9, <1>11, <2>2 DEF CloseTyping, SetTypwinInactive
  <2>. QED  BY <2>3, <2>4, MarksAreNoSettings
<1>12. CASE ZlogIn
  <2>1. PICK ok \in BOOLEAN : t \in ExposureSet(s, GetToString(s, "default_exposure"), ok)
    BY <1>1, <1>12 DEF ZlogIn
  <2>. QED  BY <1>2, <2>1, ExposureIsSet
<1>13. CASE ZlogOut
  <2>1. t = [s EXCEPT !.location = NoText]  BY <1>1, <1>13 DEF ZlogOut
  <2>. QED  BY <1>2, <2>1, MarksAreNoSettings
<1>14. CASE UNCHANGED settings  BY <1>1, <1>2, <1>14
<1>. QED  BY <1>6, <1>7, <1>10, <1>11, <1>12, <1>13, <1>14 DEF SettingsNext

(* A value that is set again changes nothing, as the copies have it.       *)
LEMMA SetAgain ==
  ASSUME NEW s, Kept(s), NEW n \in Names \ {"exposure", "default_exposure"}
  PROVE  SetValue(s, n, s.val[n]) = s
<1>1. s \in SettingsStates /\ InStep(s)  BY DEF Kept
<1>2. PICK v \in ValuesOf(KindOf[n]) : v = s.val[n]  BY <1>1 DEF SettingsStates, Values
<1>3. Stored(s, n, v) = s  BY <1>1, <1>2, StoredIs
<1>4. CASE n = "debug"
  <2>1. [s EXCEPT !.cached = v] = s  BY <1>1, <1>2, <1>4 DEF SettingsStates, InStep
  <2>. QED  BY <1>2, <1>3, <1>4, <2>1 DEF SetValue, DebugSet
<1>5. CASE n = "aaway"
  <2>1. s.told = (IF v THEN "away" ELSE "")
    <3>1. s.told \in AwayTexts /\ (s.told # "" <=> v)  BY <1>1, <1>2, <1>5 DEF SettingsStates, InStep
    <3>. QED  BY <3>1 DEF AwayTexts
  <2>2. PICK words : words = (IF v THEN "away" ELSE "")  OBVIOUS
  <2>3. [s EXCEPT !.told = words] = s  BY <1>1, <2>1, <2>2 DEF SettingsStates
  <2>. QED  BY <1>2, <1>3, <1>5, <2>2, <2>3 DEF SetValue, AawaySet
<1>6. CASE n = "typewinsize"
  <2>1. LayoutContents(s) = s  BY <1>1, LayoutFits DEF InStep
  <2>. QED  BY <1>2, <1>3, <1>6, <2>1 DEF SetValue, TypewinsizeSet
<1>7. CASE n = "ctrl_d"
  <2>1. PICK key : key = CtrlDCommands[v + 1]  OBVIOUS
  <2>2. s.bound = key  BY <1>1, <1>2, <1>7, <2>1 DEF InStep
  <2>3. [s EXCEPT !.bound = key] = s  BY <1>1, <2>2 DEF SettingsStates
  <2>. QED  BY <1>2, <1>3, <1>7, <2>1, <2>3 DEF SetValue, DisableCtrlDSet
<1>8. CASE n \notin {"debug", "aaway", "typewinsize", "ctrl_d"}
  BY <1>2, <1>3, <1>8 DEF SetValue
<1>. QED  BY <1>4, <1>5, <1>6, <1>7, <1>8

(* The numerals are read as the numbers they print.                        *)
LEMMA NumeralsAreRead ==
  ASSUME NEW i \in -1 .. 9
  PROVE  ReadInt(Numerals[i + 2]) = {i} /\ Numerals[i + 2] # " 4"
<1>1. \A j \in -1 .. 9 : Numerals[j + 2] = Numerals[i + 2] => j = i  BY DEF Numerals
<1>2. PICK w \in {"-1", "0", "1", "2", "3", "4", "5", "6", "7", "8", "9"} : w = Numerals[i + 2]
  BY DEF Numerals
<1>3. w # " 4" /\ w # "4294967297"  BY Zenon
<1>. QED  BY <1>1, <1>2, <1>3 DEF ReadInt

(* The text that is printed of a value of each kind is read as that value. *)
LEMMA PrintedIsRead ==
  ASSUME NEW k, NEW v \in ValuesOf(k), k \in {"bool", "size", "int", "perl-int", "enum", "level", "perl-enum", "string"},
         k = "size" => v <= 9, k = "level" => v # NoText
  PROVE  FromString(k, PrintValue(k, v)) = {v}
<1>1. CASE k = "bool"
  <2>1. v \in BOOLEAN  BY <1>1, KindValues
  <2>2. PrintValue(k, v) = (IF v THEN "on" ELSE "off")  BY <1>1 DEF PrintValue
  <2>3. FromString(k, PrintValue(k, v)) = BoolFromString(PrintValue(k, v))  BY <1>1 DEF FromString
  <2>4. CASE v = TRUE  BY <2>2, <2>3, <2>4 DEF BoolFromString
  <2>5. CASE v = FALSE  BY <2>2, <2>3, <2>5 DEF BoolFromString
  <2>. QED  BY <2>1, <2>4, <2>5
<1>2. CASE k \in {"size", "int", "perl-int"}
  <2>1. v \in -1 .. 9  BY <1>2, KindValues
  <2>2. PICK w : w = Numerals[v + 2]  OBVIOUS
  <2>3. ReadInt(w) = {v} /\ w # " 4"  BY <2>1, <2>2, NumeralsAreRead
  <2>4. PrintValue(k, v) = w  BY <1>2, <2>2 DEF PrintValue
  <2>5. k = "size" => GreaterThan0(v)  BY <2>1, KindValues DEF GreaterThan0
  <2>. QED  BY <1>2, <2>3, <2>4, <2>5 DEF FromString, IntFromString
<1>3. CASE k = "enum"
  <2>1. v \in 0 .. 2  BY <1>3, KindValues
  <2>2. PICK w : w = CtrlDSettings[v + 1]  OBVIOUS
  <2>3. PrintValue(k, v) = w  BY <1>3, <2>2 DEF PrintValue
  <2>4. EnumFromString(w) = {v}  BY <2>1, <2>2 DEF EnumFromString, IndexOf, CtrlDSettings
  <2>. QED  BY <1>3, <2>3, <2>4 DEF FromString
<1>4. CASE k = "level"
  <2>1. v \in {"none", "opstaff", "realm-visible"}  BY <1>4, KindValues DEF Exposures
  <2>2. ToSet(Levels) = {"none", "opstaff", "realm-visible"}  BY DEF ToSet, Levels
  <2>3. LevelOf(v) = {v}  BY <2>1, <2>2 DEF LevelOf
  <2>4. PrintValue(k, v) = v  BY <1>4 DEF PrintValue
  <2>. QED  BY <1>4, <2>3, <2>4 DEF FromString
<1>5. CASE k = "perl-enum"
  <2>1. v \in {"off", "middle", "on"}  BY <1>5, KindValues
  <2>2. ToSet(CtrlDSettings) = {"off", "middle", "on"}  BY DEF ToSet, CtrlDSettings
  <2>3. PrintValue(k, v) = v  BY <1>5 DEF PrintValue
  <2>. QED  BY <1>5, <2>1, <2>2, <2>3 DEF FromString
<1>6. CASE k = "string"
  <2>1. PrintValue(k, v) = v  BY <1>6 DEF PrintValue
  <2>. QED  BY <1>6, <2>1 DEF FromString
<1>. QED  BY <1>1, <1>2, <1>3, <1>4, <1>5, <1>6

(* What is printed of the settings of s can be set again.                  *)
LEMMA PrintedIsSet ==
  ASSUME NEW s, Kept(s), s.val.typewinsize <= 9, NEW n \in Names,
         GetToString(s, n) # NoText, n = "exposure" => s.location # NoText
  PROVE  SetFromString(s, n, GetToString(s, n), TRUE) = {s}
<1>1. s \in SettingsStates /\ InStep(s)  BY DEF Kept
<1>2. ToSet(Levels) = {"none", "opstaff", "realm-visible"}  BY DEF ToSet, Levels
<1>3. CASE n \notin {"exposure", "default_exposure"}
  <2>1. PICK v \in ValuesOf(KindOf[n]) : v = s.val[n]  BY <1>1 DEF SettingsStates, Values
  <2>2. PICK k : k = KindOf[n]  OBVIOUS
  <2>3. k \in {"bool", "size", "int", "perl-int", "enum", "level", "perl-enum", "string"} /\ k # "level"
           /\ (k = "size" => n = "typewinsize")
    BY <1>3, <2>2, KindsAre
  <2>4. k = "size" => v <= 9  BY <2>1, <2>3
  <2>5. PICK w : w = PrintValue(k, v)  OBVIOUS
  <2>6. FromString(k, w) = {v}  BY <2>1, <2>2, <2>3, <2>4, <2>5, PrintedIsRead
  <2>7. GetToString(s, n) = w  BY <1>3, <2>1, <2>2, <2>5 DEF GetToString
  <2>8. SetValue(s, n, v) = s  BY <1>3, <2>1, SetAgain
  <2>. QED  BY <1>3, <2>2, <2>6, <2>7, <2>8 DEF SetFromString
<1>4. CASE n = "default_exposure"
  <2>1. PICK v \in Exposures \ {NoText} : v = s.saved  BY <1>1 DEF SettingsStates
  <2>2. LevelOf(v) = {v}  BY <1>2, <2>1 DEF LevelOf, Exposures
  <2>3. FromString(KindOf[n], v) = {v}  BY <1>4, <2>2, KindsAre DEF FromString
  <2>4. [s EXCEPT !.saved = v] = s  BY <1>1, <2>1 DEF SettingsStates
  <2>5. SetValue(s, n, v) = s  BY <1>4, <2>4 DEF SetValue, DefaultExposureSet
  <2>6. GetToString(s, n) = v  BY <1>4, <2>1 DEF GetToString
  <2>. QED  BY <1>4, <2>3, <2>5, <2>6 DEF SetFromString
<1>5. CASE n = "exposure"
  <2>1. PICK v \in Exposures : v = s.val[n]  BY <1>1, <1>5, ValuesAre
  <2>2. s.location = v /\ v # NoText  BY <1>1, <1>5, <2>1 DEF InStep
  <2>3. LevelOf(v) = {v}  BY <1>2, <2>1, <2>2 DEF LevelOf, Exposures
  <2>4. PrintValue(KindOf[n], v) = v  BY <1>5, KindsAre DEF PrintValue
  <2>5. GetToString(s, n) = v  BY <1>5, <2>1, <2>2, <2>4 DEF GetToString
  <2>6. [s EXCEPT !.location = v] = s  BY <1>1, <2>2 DEF SettingsStates
  <2>7. v \in ValuesOf(KindOf[n])  BY <1>5, <2>1, KindsAre, KindValues
  <2>8. Stored(s, n, v) = s  BY <1>1, <2>1, <2>7, StoredIs
  <2>9. ExposureSet(s, v, TRUE) = {s}  BY <1>5, <2>3, <2>6, <2>8 DEF ExposureSet
  <2>. QED  BY <1>5, <2>5, <2>9 DEF SetFromString
<1>. QED  BY <1>3, <1>4, <1>5

(* Resizing changes the size and what is laid out by it.                   *)
Resized(s, height, rec, typ) ==
  [s EXCEPT !.val = [s.val EXCEPT !["typewinsize"] = height], !.rec = rec, !.typ = typ]

LEMMA ResizedTo ==
  ASSUME NEW s, Kept(s), NEW height \in Nat \ {0}
  PROVE  \E rec, typ \in Int : ResizeTypwin(s, height) = Resized(s, height, rec, typ)
<1>1. s \in SettingsStates  BY DEF Kept
<1>2. PICK n \in Names : n = "typewinsize" /\ KindOf[n] = "size"  BY KindsAre
<1>3. height \in ValuesOf(KindOf[n])  BY <1>2, KindValues
<1>4. PICK val : val = [s.val EXCEPT ![n] = height]  OBVIOUS
<1>5. PICK u : u = Stored(s, n, height)  OBVIOUS
<1>6. u = [s EXCEPT !.val = val]  BY <1>4, <1>5 DEF Stored
<1>7. u \in SettingsStates  BY <1>1, <1>3, <1>5, StoredIs
<1>8. PICK rec \in Int, typ \in Int : LayoutContents(u) = Relaid(u, rec, typ)  BY <1>7, LayoutFits
<1>9. height > 0 /\ height \in Int  OBVIOUS
<1>10. ResizeTypwin(s, height) = LayoutContents(u)
  <2>1. ResizeTypwin(s, height) = SetValue(s, "typewinsize", height)  BY <1>9, ResizingKeeps
  <2>. QED  BY <1>2, <1>5, <2>1 DEF SetValue, TypewinsizeSet
<1>11. Relaid(u, rec, typ) = [s EXCEPT !.val = val, !.rec = rec, !.typ = typ]
  BY <1>1, <1>6 DEF SettingsStates, Relaid
<1>12. [s EXCEPT !.val = val, !.rec = rec, !.typ = typ] = Resized(s, height, rec, typ)
  BY <1>2, <1>4 DEF Resized
<1>. QED  BY <1>8, <1>10, <1>11, <1>12

(* A typing window that is opened and closed leaves the settings alone.    *)
LEMMA ClosingUndoes ==
  ASSUME NEW s, Kept(s), ~s.open
  PROVE  SetTypwinInactive(SetTypwinActive(s)) = s
<1>1. s \in SettingsStates /\ InStep(s) /\ s.open = FALSE  BY DEF Kept, SettingsStates
<1>2. s.val.typewinsize \in Nat \ {0} /\ s.val.typewindelta \in -1 .. 9  BY <1>1, ValuesAre
<1>3. PICK delta \in -1 .. 9 : delta = s.val.typewindelta  BY <1>2
<1>4. PICK size \in Nat \ {0} : size = s.val.typewinsize  BY <1>2
<1>5. /\ size \in Int /\ delta \in Int /\ size > 0
      /\ size = s.val.typewinsize /\ delta = s.val.typewindelta
  BY <1>3, <1>4
<1>6. CASE ~(delta > 0)
  <2>1. PICK a : a = [s EXCEPT !.open = TRUE]  OBVIOUS
  <2>2. SetTypwinActive(s) = a  BY <1>5, <1>6, <2>1 DEF SetTypwinActive
  <2>3. a.val = s.val  BY <1>1, <2>1 DEF SettingsStates
  <2>4. SetTypwinInactive(a) = [a EXCEPT !.open = FALSE]  BY <1>5, <1>6, <2>3 DEF SetTypwinInactive
  <2>5. [a EXCEPT !.open = FALSE] = s  BY <1>1, <2>1 DEF SettingsStates
  <2>. QED  BY <2>2, <2>4, <2>5
<1>7. CASE delta > 0
  <2>1. PICK height \in Nat \ {0} : height = size + delta  BY <1>5, <1>7
  <2>2. PICK u : u = ResizeTypwin(s, height)  OBVIOUS
  <2>3. Kept(u)  BY <2>1, <2>2, ResizingKeeps
  <2>4. PICK uval : uval = [s.val EXCEPT !["typewinsize"] = height]  OBVIOUS
  <2>5. PICK urec \in Int, utyp \in Int : u = [s EXCEPT !.val = uval, !.rec = urec, !.typ = utyp]
    <3>1. PICK rec \in Int, typ \in Int : u = Resized(s, height, rec, typ)  BY <2>1, <2>2, ResizedTo
    <3>. QED  BY <2>4, <3>1 DEF Resized
  <2>6. PICK a : a = [u EXCEPT !.open = TRUE]  OBVIOUS
  <2>7. SetTypwinActive(s) = a  BY <1>5, <1>7, <2>1, <2>2, <2>6 DEF SetTypwinActive
  <2>8. Kept(a) /\ a.val = u.val  BY <2>3, <2>6, MarksAreNoSettings
  <2>9. /\ u.val = uval /\ uval.typewindelta = delta /\ uval.typewinsize = height
        /\ [uval EXCEPT !["typewinsize"] = size] = s.val
    <3>1. u.val = uval  BY <1>1, <2>5 DEF SettingsStates
    <3>2. DOMAIN s.val = Names /\ s.val = [n \in Names |-> s.val[n]]  BY <1>1 DEF SettingsStates, Values
    <3>3. "typewinsize" \in Names /\ "typewindelta" \in Names  BY KindsAre
    <3>. QED  BY <1>5, <2>4, <3>1, <3>2, <3>3
  <2>10. height - delta = size /\ size \in Nat \ {0}  BY <1>5, <2>1
  <2>11. PICK b : b = ResizeTypwin(a, size)  OBVIOUS
  <2>12. SetTypwinInactive(a) = [b EXCEPT !.open = FALSE]
    BY <1>7, <2>8, <2>9, <2>10, <2>11 DEF SetTypwinInactive
  <2>13. PICK bval : bval = [a.val EXCEPT !["typewinsize"] = size]  OBVIOUS
  <2>14. PICK brec \in Int, btyp \in Int : b = [a EXCEPT !.val = bval, !.rec = brec, !.typ = btyp]
    <3>1. PICK rec \in Int, typ \in Int : b = Resized(a, size, rec, typ)  BY <2>8, <2>10, <2>11, ResizedTo
    <3>. QED  BY <2>13, <3>1 DEF Resized
  <2>15. bval = s.val  BY <2>8, <2>9, <2>13
  <2>16. Kept(b)  BY <2>8, <2>10, <2>11, ResizingKeeps
  <2>17. b = [s EXCEPT !.rec = brec, !.typ = btyp, !.open = TRUE]
    BY <1>1, <2>5, <2>6, <2>14, <2>15 DEF SettingsStates
  <2>18. b.rec = brec /\ b.typ = btyp /\ b.val = s.val  BY <1>1, <2>17 DEF SettingsStates
  <2>19. LaidOut(b) /\ LaidOut(s)  BY <1>1, <2>16 DEF Kept, InStep
  <2>20. brec = s.rec /\ btyp = s.typ  BY <2>18, <2>19 DEF LaidOut
  <2>21. [b EXCEPT !.open = FALSE] = s  BY <1>1, <2>17, <2>20 DEF SettingsStates
  <2>. QED  BY <2>7, <2>12, <2>21
<1>. QED  BY <1>6, <1>7

(* Settings that are in step keep their word.                              *)
LEMMA SettingsHold == SettingsInv => SettingsKeepTheirWord
<1>. SUFFICES ASSUME SettingsInv PROVE SettingsKeepTheirWord
  OBVIOUS
<1>1. Kept(settings) /\ settings.val.typewinsize <= 9 /\ settings \in SettingsStates /\ InStep(settings)
  BY DEF SettingsInv, Kept
<1>2. CopiesFollow
  <2>1. settings.val.typewinsize \in Nat \ {0} /\ ScreenLines \in Nat  BY <1>1, ValuesAre, SettingsAssumption
  <2>2. LaidOut(settings)  BY <1>1 DEF InStep
  <2>3. settings.rec + settings.typ + 2 = ScreenLines /\ (settings.rec > 0 => settings.typ = settings.val.typewinsize)
    BY <2>1, <2>2 DEF LaidOut
  <2>. QED  BY <1>1, <2>3 DEF CopiesFollow, InStep
<1>3. PrintedIsReadBack  BY <1>1, PrintedIsSet DEF PrintedIsReadBack
<1>4. TypingIsUndone  BY <1>1, ClosingUndoes DEF TypingIsUndone
<1>. QED  BY <1>2, <1>3, <1>4 DEF SettingsKeepTheirWord

(* What the user has set holds wherever it is consulted, is printed as it  *)
(* can be set again, and is not changed by a typing window that is opened  *)
(* and closed: on a terminal of any height, for any number of settings,    *)
(* taken or refused in any order.                                          *)
THEOREM SettingsAreKept == SettingsSpec => []SettingsKeepTheirWord
<1>. QED  BY SettingsInvInit, SettingsStep, SettingsHold, PTL DEF SettingsSpec

-----------------------------------------------------------------------------
(* FmtextCache: its pointers and its texts are right, for every set of       *)
(* messages, every cache size and every set of styles.                       *)
(* The inductive invariant.  TextIsCurrent alone is not inductive: a style *)
(* change invalidates the listed messages only, so it needs                *)
(* CachedAreListed; and to empty the right slot it needs BackPointers.     *)
IInv == TypeOK /\ BackPointers /\ CachedAreListed /\ TextIsCurrent

(* What owl_message_invalidate_format leaves behind, for a set of messages *)
(* whose pointers agree: their slots are free and empty, the others as     *)
(* they were.                                                              *)
LEMMA InvalidateKeepsCache ==
  ASSUME IInv, NEW M \in SUBSET live
  PROVE  LET c == InvalidateFormat(M) IN
         /\ c.fmtext \in [Msgs -> Slots \cup {NoSlot}]
         /\ c.message \in [Slots -> Msgs \cup {NoMsg}]
         /\ c.text \in [Slots -> SUBSET (Msgs \X Styles)]
         /\ \A s \in Slots : c.message[s] # NoMsg =>
              c.message[s] = message[s] /\ c.message[s] \notin M
         /\ \A s \in Slots : c.message[s] # NoMsg => c.fmtext[c.message[s]] = s
         /\ \A m \in live : c.fmtext[m] # NoSlot => c.message[c.fmtext[m]] = m
         /\ \A s \in Slots : c.text[s] =
              IF c.message[s] = NoMsg THEN {} ELSE {<<c.message[s], style>>}
         /\ \A m \in M : c.fmtext[m] = NoSlot
         /\ \A m \in Msgs \ M : c.fmtext[m] = fmtext[m]
<1> DEFINE c == InvalidateFormat(M)
<1>1. /\ c.fmtext = [m \in Msgs |-> IF m \in M THEN NoSlot ELSE fmtext[m]]
      /\ c.message = [s \in Slots |-> IF s \in {fmtext[m] : m \in M} THEN NoMsg ELSE message[s]]
      /\ c.text = [s \in Slots |-> IF s \in {fmtext[m] : m \in M} THEN {} ELSE text[s]]
  BY DEF InvalidateFormat
<1> HIDE DEF c
<1>2. NoSlot \notin Slots
  BY CacheSizeAssumption DEF NoSlot, Slots
<1>3. /\ c.fmtext \in [Msgs -> Slots \cup {NoSlot}]
      /\ c.message \in [Slots -> Msgs \cup {NoMsg}]
      /\ c.text \in [Slots -> SUBSET (Msgs \X Styles)]
  BY <1>1 DEF IInv, TypeOK
<1>4. \A s \in Slots : c.message[s] # NoMsg =>
        c.message[s] = message[s] /\ c.message[s] \notin M
  BY <1>1 DEF IInv, TypeOK, BackPointers
<1>5. \A s \in Slots : c.message[s] # NoMsg => c.fmtext[c.message[s]] = s
  BY <1>1, <1>4 DEF IInv, TypeOK, BackPointers
<1>6. \A m \in live : c.fmtext[m] # NoSlot => c.message[c.fmtext[m]] = m
  <2> SUFFICES ASSUME NEW m \in live, c.fmtext[m] # NoSlot
               PROVE  c.message[c.fmtext[m]] = m
    OBVIOUS
  <2>1. m \in Msgs /\ m \notin M /\ c.fmtext[m] = fmtext[m]
    BY <1>1 DEF IInv, TypeOK
  <2>2. fmtext[m] \in Slots /\ message[fmtext[m]] = m
    BY <2>1 DEF IInv, TypeOK, BackPointers
  <2>3. fmtext[m] \notin {fmtext[k] : k \in M}
    <3> SUFFICES ASSUME NEW k \in M, fmtext[k] = fmtext[m] PROVE FALSE
      OBVIOUS
    <3>1. message[fmtext[k]] = k
      BY <2>1, <1>2, <2>2 DEF IInv, BackPointers
    <3> QED BY <3>1, <2>1, <2>2
  <2> QED BY <1>1, <2>1, <2>2, <2>3
<1>7. \A s \in Slots : c.text[s] =
        IF c.message[s] = NoMsg THEN {} ELSE {<<c.message[s], style>>}
  BY <1>1 DEF IInv, TextIsCurrent
<1>8. /\ \A m \in M : c.fmtext[m] = NoSlot
      /\ \A m \in Msgs \ M : c.fmtext[m] = fmtext[m]
  BY <1>1 DEF IInv, TypeOK
<1> QED BY <1>3, <1>4, <1>5, <1>6, <1>7, <1>8 DEF c

(* The empty cache, of any size, satisfies the inductive invariant.        *)
LEMMA InitEstablishesIInv == Init => IInv
BY CacheSizeAssumption
DEF Init, IInv, TypeOK, BackPointers, CachedAreListed, TextIsCurrent, Slots, NoSlot

(* Taking the next slot for m: its former message, if any, is invalidated  *)
(* first, so the slot is empty when m's text is appended to it.            *)
LEMMA FormatKeepsIInv ==
  ASSUME IInv, NEW m \in Msgs, Format(m)
  PROVE  IInv'
<1> DEFINE M == {message[next]} \ {NoMsg}
           c == InvalidateFormat(M)
<1>0. next \in Slots /\ NoSlot \notin Slots /\ m \in live /\ style \in Styles
  BY CacheSizeAssumption DEF IInv, TypeOK, Format, NoSlot, Slots
<1>1. M \in SUBSET live
  BY <1>0 DEF IInv, BackPointers
<1>2. /\ c.fmtext \in [Msgs -> Slots \cup {NoSlot}]
      /\ c.message \in [Slots -> Msgs \cup {NoMsg}]
      /\ c.text \in [Slots -> SUBSET (Msgs \X Styles)]
      /\ \A s \in Slots : c.message[s] # NoMsg =>
           c.message[s] = message[s] /\ c.message[s] \notin M
      /\ \A s \in Slots : c.message[s] # NoMsg => c.fmtext[c.message[s]] = s
      /\ \A k \in live : c.fmtext[k] # NoSlot => c.message[c.fmtext[k]] = k
      /\ \A s \in Slots : c.text[s] =
           IF c.message[s] = NoMsg THEN {} ELSE {<<c.message[s], style>>}
      /\ \A k \in M : c.fmtext[k] = NoSlot
      /\ \A k \in Msgs \ M : c.fmtext[k] = fmtext[k]
  BY <1>1, InvalidateKeepsCache
<1>3. /\ fmtext' = [c.fmtext EXCEPT ![m] = next]
      /\ message' = [c.message EXCEPT ![next] = m]
      /\ text' = [c.text EXCEPT ![next] = @ \cup {<<m, style>>}]
      /\ next' = (next + 1) % CacheSize
      /\ UNCHANGED <<live, listed, style>>
      /\ fmtext[m] = NoSlot /\ m \in listed
  BY DEF Format, Evict
<1> HIDE DEF c
<1>4. c.message[next] = NoMsg
  BY <1>0, <1>2
<1>5. c.text[next] = {} /\ c.fmtext[m] = NoSlot
  BY <1>0, <1>2, <1>3, <1>4
<1>6. TypeOK'
  <2>1. next' \in Slots
    BY <1>3, <1>0, CacheSizeAssumption DEF Slots
  <2>2. /\ fmtext' \in [Msgs -> Slots \cup {NoSlot}]
        /\ message' \in [Slots -> Msgs \cup {NoMsg}]
        /\ text' \in [Slots -> SUBSET (Msgs \X Styles)]
    BY <1>0, <1>2, <1>3
  <2> QED BY <1>3, <2>1, <2>2 DEF IInv, TypeOK
<1>7. BackPointers'
  <2>1. \A s \in Slots : message'[s] # NoMsg =>
          message'[s] \in live' /\ fmtext'[message'[s]] = s
    BY <1>0, <1>2, <1>3, <1>4, <1>5 DEF IInv, BackPointers, TypeOK
  <2>2. \A k \in live' : fmtext'[k] # NoSlot => message'[fmtext'[k]] = k
    <3> SUFFICES ASSUME NEW k \in live, fmtext'[k] # NoSlot
                 PROVE  message'[fmtext'[k]] = k
      BY <1>3
    <3>1. CASE k = m
      BY <3>1, <1>0, <1>2, <1>3
    <3>2. CASE k # m
      <4>1. k \in Msgs /\ fmtext'[k] = c.fmtext[k] /\ c.message[c.fmtext[k]] = k
        BY <3>2, <1>2, <1>3 DEF IInv, TypeOK
      <4>2. c.fmtext[k] # next
        BY <4>1, <1>4, NoMsgAssumption
      <4> QED BY <4>1, <4>2, <1>2, <1>3
    <3> QED BY <3>1, <3>2
  <2> QED BY <2>1, <2>2 DEF BackPointers
<1>8. CachedAreListed'
  BY <1>0, <1>2, <1>3 DEF IInv, CachedAreListed
<1>9. TextIsCurrent'
  BY <1>0, <1>2, <1>3, <1>5, NoMsgAssumption DEF TextIsCurrent
<1> QED BY <1>6, <1>7, <1>8, <1>9 DEF IInv

(* Freeing a message, or changing how messages look, invalidates a set of  *)
(* messages and nothing else in the cache.                                 *)
LEMMA NextKeepsIInv == IInv /\ [Next]_vars => IInv'
<1> SUFFICES ASSUME IInv, [Next]_vars PROVE IInv'
  OBVIOUS
<1> USE DEF IInv
<1>1. ASSUME NEW m \in Msgs, Create(m) PROVE IInv'
  <2>1. m \notin live /\ UNCHANGED <<listed, message, text, next, style>>
        /\ live' = live \cup {m} /\ fmtext' = [fmtext EXCEPT ![m] = NoSlot]
    BY <1>1 DEF Create
  <2>2. TypeOK'
    BY <2>1 DEF TypeOK
  <2>3. BackPointers'
    <3>1. \A s \in Slots : message[s] # NoMsg => message[s] # m
      BY <2>1 DEF BackPointers
    <3> QED BY <2>1, <3>1 DEF TypeOK, BackPointers
  <2>4. CachedAreListed' /\ TextIsCurrent'
    BY <2>1 DEF CachedAreListed, TextIsCurrent
  <2> QED BY <2>2, <2>3, <2>4
<1>2. ASSUME NEW m \in Msgs, AppendText(m) PROVE IInv'
  BY <1>2 DEF AppendText, TypeOK, BackPointers, CachedAreListed, TextIsCurrent
<1>3. ASSUME NEW m \in Msgs, Format(m) PROVE IInv'
  BY <1>3, FormatKeepsIInv
<1>4. ASSUME NEW m \in Msgs, Delete(m) PROVE IInv'
  <2> DEFINE c == InvalidateFormat({m})
  <2>0. {m} \in SUBSET live
    BY <1>4 DEF Delete
  <2>1. /\ c.fmtext \in [Msgs -> Slots \cup {NoSlot}]
        /\ c.message \in [Slots -> Msgs \cup {NoMsg}]
        /\ c.text \in [Slots -> SUBSET (Msgs \X Styles)]
        /\ \A s \in Slots : c.message[s] # NoMsg =>
             c.message[s] = message[s] /\ c.message[s] \notin {m}
        /\ \A s \in Slots : c.message[s] # NoMsg => c.fmtext[c.message[s]] = s
        /\ \A k \in live : c.fmtext[k] # NoSlot => c.message[c.fmtext[k]] = k
        /\ \A s \in Slots : c.text[s] =
             IF c.message[s] = NoMsg THEN {} ELSE {<<c.message[s], style>>}
    BY <2>0, InvalidateKeepsCache
  <2>2. /\ live' = live \ {m} /\ listed' = listed \ {m}
        /\ fmtext' = c.fmtext /\ message' = c.message /\ text' = c.text
        /\ UNCHANGED <<next, style>>
    BY <1>4 DEF Delete
  <2> HIDE DEF c
  <2>3. TypeOK'
    BY <2>1, <2>2 DEF TypeOK
  <2>4. BackPointers'
    BY <2>1, <2>2 DEF BackPointers
  <2>5. CachedAreListed' /\ TextIsCurrent'
    BY <2>1, <2>2 DEF CachedAreListed, TextIsCurrent
  <2> QED BY <2>3, <2>4, <2>5
<1>5. ASSUME NEW st \in Styles, ChangeStyle(st) PROVE IInv'
  <2> DEFINE c == InvalidateFormat(listed)
  <2>1. /\ c.fmtext \in [Msgs -> Slots \cup {NoSlot}]
        /\ c.message \in [Slots -> Msgs \cup {NoMsg}]
        /\ c.text \in [Slots -> SUBSET (Msgs \X Styles)]
        /\ \A s \in Slots : c.message[s] # NoMsg =>
             c.message[s] = message[s] /\ c.message[s] \notin listed
        /\ \A s \in Slots : c.text[s] =
             IF c.message[s] = NoMsg THEN {} ELSE {<<c.message[s], style>>}
        /\ \A k \in live : c.fmtext[k] # NoSlot => c.message[c.fmtext[k]] = k
    BY InvalidateKeepsCache DEF TypeOK
  <2>2. /\ style' = st /\ UNCHANGED <<live, listed, next>>
        /\ fmtext' = c.fmtext /\ message' = c.message /\ text' = c.text
    BY <1>5 DEF ChangeStyle
  <2> HIDE DEF c
  <2>3. \A s \in Slots : c.message[s] = NoMsg
    BY <2>1 DEF CachedAreListed
  <2>4. TypeOK' /\ CachedAreListed' /\ TextIsCurrent'
    BY <2>1, <2>2, <2>3 DEF TypeOK, CachedAreListed, TextIsCurrent
  <2>5. BackPointers'
    BY <2>1, <2>2, <2>3 DEF BackPointers
  <2> QED BY <2>4, <2>5
<1>6. CASE UNCHANGED vars
  BY <1>6 DEF vars, TypeOK, BackPointers, CachedAreListed, TextIsCurrent
<1> QED BY <1>1, <1>2, <1>3, <1>4, <1>5, <1>6 DEF Next

(* The cache's variables keep their types.                                 *)
THEOREM TypeCorrect == Spec => []TypeOK
<1>1. IInv => TypeOK
  BY DEF IInv
<1> QED BY InitEstablishesIInv, NextKeepsIInv, <1>1, PTL DEF Spec

(* No slot ever points to a freed message, and a message never points to a *)
(* slot that has been given to another one.                                *)
THEOREM PointersAgree == Spec => []BackPointers
<1>1. IInv => BackPointers
  BY DEF IInv
<1> QED BY InitEstablishesIInv, NextKeepsIInv, <1>1, PTL DEF Spec

(* Every text in the cache is its message's, once, in the present style.   *)
THEOREM CacheIsCurrent == Spec => []TextIsCurrent
<1>1. IInv => TextIsCurrent
  BY DEF IInv
<1> QED BY InitEstablishesIInv, NextKeepsIInv, <1>1, PTL DEF Spec
=============================================================================
