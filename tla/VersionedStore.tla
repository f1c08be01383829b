--------------------------- MODULE VersionedStore ---------------------------
(***************************************************************************)
(* What a copy-on-write store promises, with no files, locks or processes: *)
(* each key has a history that only grows, one version at a time.  A claim *)
(* stated on top of a version it read is added only right after that       *)
(* version; one stated without having read the key is added anywhere.      *)
(* Outcomes and archives are promised no such condition: they are computed *)
(* from some earlier version and added at the end whatever came between.   *)
(***************************************************************************)
EXTENDS Integers, Sequences

CONSTANTS Keys, Claims

VARIABLE history   \* history[k][v]: version v of key k

Versioned == [claim : Claims, by : {"write", "outcome", "archive"}, base : Nat]

Init == history = [k \in Keys |-> <<>>]

Add(k, c, by, base) ==
  history' = [history EXCEPT ![k] =
                Append(history[k], [claim |-> c, by |-> by, base |-> base])]

State(k, c) ==
  \E base \in {0, Len(history[k])} : Add(k, c, "write", base)

Recompute(k, by) ==
  \E base \in 1 .. Len(history[k]) : Add(k, history[k][base].claim, by, base)

Next ==
  \E k \in Keys :
    \/ \E c \in Claims : State(k, c)
    \/ Recompute(k, "outcome")
    \/ Recompute(k, "archive")

Spec == Init /\ [][Next]_history

=============================================================================
