----------------------------- MODULE TwoPasses ------------------------------
(***************************************************************************)
(* Assembler implements OnePass.  Pass 0 finds out what OnePass knows      *)
(* beforehand, and pass 1 is its one pass: the chunks of a line become the *)
(* line's fields when the line is complete.                                *)
(***************************************************************************)
EXTENDS Assembler

Reading  == pass = Passes \/ (pass = Passes - 1 /\ pc \notin {"args", "main"})
Promised == CASE ~Reading -> "before"
              [] Reading /\ Delivered /\ steady -> "delivered"
              [] Reading /\ ~Delivered /\ steady /\ errors \cup warnings = {} -> "working"
              [] OTHER -> "silent"
Told == Promised \in {"working", "delivered"}

(* What pass 0 found, without the mark of an export and without $.         *)
Found ==
  [n \in DOMAIN consts |->
     [consts[n] EXCEPT !.export = FALSE, !.value = IF n = Dollar THEN 0 ELSE @]]
(* The fields of the lines that are complete, and where the line at hand   *)
(* begins.                                                                 *)
Complete == SubSeq(image, 1, Max({0} \cup {i \in DOMAIN image : image[i].line < at}))
Fields   == [i \in DOMAIN Complete |->
               [sec |-> Complete[i].sec, ofs |-> Complete[i].ofs, width |-> Complete[i].width,
                value |-> Complete[i].value]]
Begun    == IF pc # "emit" THEN ptr ELSE Last(trace[pass]).ptrs[1]

OneGo == INSTANCE OnePass WITH
  phase   <- Promised,
  known   <- IF Told THEN Found ELSE EmptyTable,
  at      <- IF Told THEN at ELSE 1,
  section <- IF Told THEN section ELSE "TEXT",
  ptr     <- IF Told THEN Begun ELSE [s \in Sections |-> 0],
  scope   <- IF Told THEN (IF pc = "emit" THEN Last(trace[pass]).scope ELSE scope) ELSE NoScope,
  fields  <- IF Told THEN Fields ELSE <<>>

(* Whatever pass 1 emits for a program it does not complain of is what one *)
(* pass with every symbol known would have emitted: labels are where pass  *)
(* 0 left them, no symbol changes while pass 1 reads it, forward and       *)
(* backward references are worth the same, $ is the start of the line      *)
(* (MSA.C:322-346, ASSEMBLR.C:454-925).                                    *)
ActsAsOnePass == OneGo!Spec
=============================================================================
