------------------------------- MODULE Driver -------------------------------
(***************************************************************************)
(* What a run of the compiler does to the files beside it, seen from       *)
(* outside: output.asm is emptied, written at the end, and handed to nasm  *)
(* and by it to ld.  The run may die anywhere before it writes; it never   *)
(* looks at how nasm and ld ended.                                         *)
(***************************************************************************)
VARIABLES
  stage,   \* what the run is at, or how it ended
  files,   \* what is in output.asm, output.o and output
  failed   \* the children that returned an error, which nobody looks at

drivervars == <<stage, files, failed>>

Stage == {"compile", "generate", "assemble", "link", "returned", "died"}

(* No file, an earlier run's, or this run's: none of it, a part or all.    *)
(* An executable this run has linked from an earlier run's object is stale.*)
Before  == {"none", "old"}
Written == {"empty", "short", "program"}
Files   == [asm : Before \cup Written, obj : Before \cup Written,
            exe : Before \cup Written \cup {"stale"}]

DriverInit ==
  /\ stage = "compile"
  /\ files \in [asm : Before \cup {"empty"}, obj : Before, exe : Before]
  /\ failed = {}

Open ==
  /\ stage = "compile"
  /\ \/ stage' = "generate" /\ files' = [files EXCEPT !.asm = "empty"]
     \/ stage' = "returned" /\ UNCHANGED files
  /\ UNCHANGED failed

Die ==
  /\ stage \in {"compile", "generate"}
  /\ stage' = "died"
  /\ UNCHANGED <<files, failed>>

(* Nobody looks at how much fwrite wrote.                                  *)
Write ==
  /\ stage = "generate"
  /\ \E content \in Written : files' = [files EXCEPT !.asm = content]
  /\ stage' = "assemble"
  /\ UNCHANGED failed

(* A child replaces its output by what it makes of its input, or fails and *)
(* leaves or removes what was there.                                       *)
Makes(file, content) ==
  /\ files' = [files EXCEPT ![file] = content]
  /\ UNCHANGED failed

Fails(child, file) ==
  /\ \E content \in {files[file], "none"} : files' = [files EXCEPT ![file] = content]
  /\ failed' = failed \cup {child}

LinkedFrom(object) == IF object = "old" THEN "stale" ELSE object

Assemble ==
  /\ stage = "assemble"
  /\ Makes("obj", files.asm) \/ Fails("nasm", "obj")
  /\ stage' = "link"

(* Nobody looks at how nasm ended: ld takes the object that is there.      *)
Link ==
  /\ stage = "link"
  /\ \/ files.obj # "none" /\ Makes("exe", LinkedFrom(files.obj))
     \/ Fails("ld", "exe")
  /\ stage' = "returned"

DriverNext == Open \/ Die \/ Write \/ Assemble \/ Link

DriverSpec == DriverInit /\ [][DriverNext]_drivervars
=============================================================================
