----------------------------- MODULE StoreSpec -----------------------------
(***************************************************************************)
(* What the users of a name may rely on: it refers to nothing or to one    *)
(* whole version, it goes from one version to the next in a single step,   *)
(* and a version that was replaced or removed does not come back.          *)
(***************************************************************************)
CONSTANTS Values, Nothing   \* Values are the versions

VARIABLES
    content,   \* the version under the name, or Nothing
    past       \* every version that was ever under the name

vars == <<content, past>>

Init == content \in Values /\ past = {content}

(* An upload is installed. *)
Publish == \E v \in Values \ past : content' = v /\ past' = past \cup {v}

(* The file is deleted or grabbed, or an installation fails. *)
Remove == content' = Nothing /\ UNCHANGED past

Next == Publish \/ Remove

Spec == Init /\ [][Next]_vars
=============================================================================
