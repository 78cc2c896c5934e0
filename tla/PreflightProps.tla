--------------------------- MODULE PreflightProps ---------------------------
(***************************************************************************)
(* What a preflight promises the writes that follow it, over any number of *)
(* processes that share the device and the journal.                        *)
(***************************************************************************)
EXTENDS Preflight

(* The round trips on record whose outcome is the given one. *)
RoundTrips(outcome) ==
  {i \in DOMAIN log : /\ IsIntent(log[i])
                      /\ log[i].op = "preflight_write_roundtrip"
                      /\ ~log[i].dry
                      /\ outcome \in AnswersTo(i)}

(* A write token a preflight issued means that the write path was proven:  *)
(* the journal on disk holds the round trip, its intent and its success,   *)
(* though an older process may have left the journal damaged.              *)
TokenMeansProven ==
  check = "passed" => Damaged(log) \/ RoundTrips("done") # {}

(* Between the operations a preflight's token authorised the journal never *)
(* shows an unfinished one: journal_clean was fatal, though it did not stop*)
(* the run, and the session answers each of its own intents, or dies.  A   *)
(* journal an older process left without a last newline is exempt: the next*)
(* append swallows that last record, and if it was an outcome the operation*)
(* it answered is unfinished again.                                        *)
TokenMeansCleanJournal ==
  check = "passed" /\ stage = "idle" => Damaged(log) \/ IsClean(log)

(* Before there is a token no partition but the round-trip one changes,    *)
(* that only under an intent on record, and never in a dry run.            *)
UnprovenTouchesRoundtripOnly ==
  [][\A p \in Partitions : device'[p] # device[p] /\ token = NoToken =>
       /\ p = Roundtrip /\ ~dry
       /\ Damaged(log) \/ \E l \in Unfinished(log) :
            Concerns(l, p) /\ l.op = "preflight_write_roundtrip"]_pvars

-----------------------------------------------------------------------------
(* Statements of the documentation that the code does not keep. *)

(* "The preflight write test rewrites this partition with its own bytes,   *)
(* so we must be holding a backup of it before that happens"               *)
(* (schema.py:98-99): but whether there is a backup is asked afterwards.   *)
RoundtripNeedsBackup ==
  [][check = "begun" /\ device'[Roundtrip] # device[Roundtrip] => backed]_pvars

=============================================================================
