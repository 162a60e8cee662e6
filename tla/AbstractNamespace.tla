-------------------------- MODULE AbstractNamespace --------------------------
(***************************************************************************)
(* What the directory layer promises (spec sections 4.2, 4.3 and 5): a    *)
(* partial map from absolute paths to header sectors, changed by calls     *)
(* that each name a path and report success or failure.  A successful add  *)
(* needs the path's parent to be there and the path not to be, and makes   *)
(* the path name a sector; a successful remove takes the path and         *)
(* everything below it away; a failed call changes nothing.                *)
(***************************************************************************)
EXTENDS Integers, Sequences, SequencesExt

CONSTANTS Paths, Sectors

VARIABLES
  ns,    \* ns[p]: the header sector path p names
  call   \* the last call: its op, its path and what it returned

NoNames == [p \in {} |-> 0]

Init ==
  /\ ns = NoNames
  /\ call = [op |-> "none", path |-> <<>>, ret |-> "none"]

(* new is old with path p added, naming a sector. *)
AddName(old, new, p) ==
  /\ p \notin DOMAIN old
  /\ Len(p) = 1 \/ Front(p) \in DOMAIN old
  /\ p \in DOMAIN new
  /\ new[p] \in Sectors
  /\ new = [q \in DOMAIN old \cup {p} |-> IF q = p THEN new[p] ELSE old[q]]

(* new is old without path p and everything below it. *)
RemoveName(old, new, p) ==
  /\ p \in DOMAIN old
  /\ new = [q \in {r \in DOMAIN old : ~IsPrefix(p, r)} |-> old[q]]

Step(old, new, c) ==
  \/ c.ret \in {"false", "abort"} /\ new = old
  \/ c.op = "create" /\ c.ret = "true" /\ AddName(old, new, c.path)
  \/ c.op = "delete" /\ c.ret = "true" /\ RemoveName(old, new, c.path)

Next == call'.path \in Paths /\ Step(ns, ns', call')

Spec == Init /\ [][Next]_<<ns, call>>
=============================================================================
