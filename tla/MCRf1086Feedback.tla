---------------------------- MODULE MCRf1086Feedback ----------------------------
(* An instance of Rf1086Feedback for TLC: the authority's acceptance, and a refusal *)
(* that is about another transmission. *)
EXTENDS Rf1086Feedback

Answer == [xml |-> TRUE, recognised |-> TRUE, verdict |-> "godkjent",
           transmission |-> "ours", year |-> "ours"]
Foreign == [Answer EXCEPT !.verdict = "avvist", !.year = "absent", !.transmission = "other"]

Filed == {Answer, Foreign}
NoForms == {}

=============================================================================
