------------------------------- MODULE ObiBus -------------------------------
(***************************************************************************)
(* What a load/store unit is promised by its data bus: the one access it   *)
(* holds is accepted at most once, accepted accesses are answered exactly  *)
(* once and in the order of acceptance, and never more than Depth of them  *)
(* are waiting.  An OBI master counts outstanding accesses and matches     *)
(* answers by position only, so everything it does with a response rests   *)
(* on this.  One step is one clock edge: a response, an acceptance and the *)
(* presentation of the next access can happen on the same edge.            *)
(***************************************************************************)
EXTENDS Naturals, Sequences

CONSTANTS
  Access,    (* the accesses an instruction can make; each names its target "to" *)
  NoAccess,  (* no access presented                                            *)
  Depth      (* accesses that may be outstanding at once                        *)

VARIABLES
  req,    (* the access presented and not yet accepted *)
  outst   (* the targets of accepted, unanswered accesses, oldest first *)

vars == <<req, outst>>

Init == req = NoAccess /\ outst = << >>

(* What is left of the queue after an edge that answers its head or not. *)
Answered(answer) == IF answer THEN Tail(outst) ELSE outst

(* The presented access stays until it is accepted. *)
Edge(answer, next) ==
  /\ answer => outst # << >>
  /\ \/ /\ req # NoAccess
        /\ Len(outst) < Depth
        /\ outst' = Append(Answered(answer), req.to)
        /\ req' = next
     \/ /\ outst' = Answered(answer)
        /\ req' = IF req = NoAccess THEN next ELSE req

Next == \E answer \in BOOLEAN, next \in Access \cup {NoAccess} : Edge(answer, next)

Spec == Init /\ [][Next]_vars
=============================================================================
