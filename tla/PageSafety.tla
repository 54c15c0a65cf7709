----------------------------- MODULE PageSafety -----------------------------
(***************************************************************************)
(* What a user of a management page relies on.                             *)
(***************************************************************************)
EXTENDS ManagementPage

Quiet == fetches = <<>> /\ ~loading /\ call = [save |-> None, remove |-> None]

(***************************************************************************)
(* A page at rest shows the rows of the page, filter and semester it is    *)
(* set to, with its own writes in them.  Exempt are the cases in which the *)
(* code does not promise it: an older answer arrived after the newest, the *)
(* newest list request failed or was the one of a handler that still       *)
(* thinks of another page, or somebody else changed the table.             *)
(* Nor is a run ever started of another semester than the active one,      *)
(* unless the newest count of its offerings failed.                        *)
(***************************************************************************)
ShownIsCurrent ==
  /\ (Quiet /\ newest = "shown" /\ ~surprise) =>
       \/ view = Answer(Key)
       \/ kind \in SemesterPages \cup {"creation"} /\ scope = None /\ view = Blank(Key)
  /\ (kind = "creation" /\ call.remove # None /\ newest # "failed") => call.remove.of = scope

(***************************************************************************)
(* Once people stop acting, every page comes to rest: its skeleton goes,   *)
(* its buttons work again and no request is left, whatever failed.  Only   *)
(* the run history may not: two answers for different pages can chase each *)
(* other for ever, each setting the page it was asked for, which is asked  *)
(* for again.                                                              *)
(***************************************************************************)
ComesToRest == kind # "runs" => []<>Quiet
=============================================================================
