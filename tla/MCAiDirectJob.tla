--------------------------- MODULE MCAiDirectJob ---------------------------
(* Small instances of AiDirectJob: requests are a kind with its source. *)
EXTENDS AiDirectJob, TLC

\* Records that may be generated, and records that may be re-edited.
CONSTANTS Thumbnails, Pages, Inputs, Edited

MCKinds == Generate \cup {Reedit, Edit}
MCRequests ==
  [kind : {"content.thumbnail_generate"}, source : Thumbnails]
  \cup [kind : {Reedit}, source : Edited]
  \cup [kind : {Detail}, source : Pages]
  \cup [kind : {Edit}, source : Inputs]
MCKindOf == [r \in MCRequests |-> r.kind]
MCSourceOf == [r \in MCRequests |-> r.source]
MCKeysOf == [r \in MCRequests |-> {<<r.kind, r.source>>}]
MCFileOf == [r \in MCRequests |-> None]
MCKeys == UNION {MCKeysOf[r] : r \in MCRequests}
MCGenerations == Thumbnails \cup Pages \cup Edited
MCSlots == {"heartbeat", "result"}
MCSums == {Empty, "output"}
MCProgress == {"result_saved"}
MCLeaseOf == [k \in MCKinds |-> 1]
Symmetry == Permutations(Jobs) \cup Permutations(Workers)
=============================================================================
