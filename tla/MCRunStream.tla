---------------------------- MODULE MCRunStream ----------------------------
(***************************************************************************)
(* A small instance of RunStream for TLC: every page watches one run.      *)
(***************************************************************************)
EXTENDS RunStream, TLC

OneRun == [p \in Pages |-> CHOOSE r \in Runs : TRUE]

\* A page whose run is deleted is owed nothing that a loss could keep from it.
\* So a behaviour deletes its run, or loses connections, reads and
\* announcements: the run's body, which nothing here compares, says which.
CONSTANT Deletable
LosesNothing ==
  /\ \A p \in Pages : page'[p].losses = page[p].losses
  /\ \A p \in Pages, f \in Fetches : ~FetchFails(p, f)
  /\ \A w \in Workers : ~PublishLost(w)
DeletesOrLoses ==
  \A r \in Runs : IF request[r].body = Deletable
                  THEN LosesNothing
                  ELSE \A c \in Calls : call'[c].pc # "eraseRow"
=============================================================================
