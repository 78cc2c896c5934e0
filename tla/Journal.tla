------------------------------ MODULE Journal ------------------------------
(***************************************************************************)
(* The write-ahead journal (boox/safety/journal.py): an append-only file,  *)
(* one JSON record a line, folded into one entry per operation.            *)
(*                                                                         *)
(* A log is a sequence of lines.  Every line has a state and an id; a line *)
(* that does not decode has the state "illegible".  ended says whether its *)
(* newline reached the disk: an append that is cut short leaves a last     *)
(* line without one, and the next append continues on that same line.      *)
(***************************************************************************)
EXTENDS Sequences, Naturals

Outcomes == {"done", "failed", "rolled_back"}

Illegible(ended) == [id |-> 0, state |-> "illegible", ended |-> ended]

Outcome(id, state) == [id |-> id, state |-> state, ended |-> TRUE]

Unterminated(log) == log # <<>> /\ ~log[Len(log)].ended

(* A line whose newline is not on the disk. *)
Unended(line) == [line EXCEPT !.ended = FALSE]

(* A slip: the file is opened with "w". *)
AppendLineSlip(log, line) == <<line>>

(* open(path, "a"), write, flush, fsync. *)
AppendLine(log, line) ==
  IF Unterminated(log)
  THEN [log EXCEPT ![Len(log)] = Illegible(line.ended)]
  ELSE Append(log, line)

(* The logs an append may leave when the process dies inside it: nothing   *)
(* written, part of the record, or the whole record without its newline.   *)
TornAppends(log, line) ==
  {log, AppendLine(log, Illegible(FALSE)),
        AppendLine(log, Unended(line))}

IsIntent(line) == line.state = "intent"

(* Line j is a later record of the operation whose intent is line i. *)
Answers(log, j, i) == j > i /\ log[j].id = log[i].id

(* entries() keeps the latest state of an id; unfinished() the entries in  *)
(* state "intent": those whose intent no later line answers.               *)
Unfinished(log) ==
  {log[i] : i \in {k \in DOMAIN log :
       IsIntent(log[k]) /\ ~\E j \in DOMAIN log : Answers(log, j, k)}}

IsClean(log) == Unfinished(log) = {}

(* Some append was cut short: its record, or the one glued to it, is gone. *)
Damaged(log) == \E i \in DOMAIN log : log[i].state = "illegible"
=============================================================================
