--------------------------- MODULE PinnedContent ---------------------------
(***************************************************************************)
(* What the registry promises to whoever installs a pinned version: the    *)
(* bytes of scope/name@tag are those of the tag's commit, they are stored  *)
(* before the version names them, and they never change -- a version can   *)
(* only disappear, with its whole pack, when an unpublished pack is        *)
(* replaced.                                                               *)
(***************************************************************************)
CONSTANTS
    PackNames, Versions,    \* what can be installed: PackNames \X Versions
    Canonical,              \* the bytes of each version's tag
    Unset

VARIABLES
    stored,     \* the bytes kept for each version
    pinned      \* the bytes each version is pinned to

Installable == PackNames \X Versions

PinInit ==
    /\ stored = [k \in Installable |-> {}]
    /\ pinned = [k \in Installable |-> Unset]

Store(k) ==
    /\ stored' = [stored EXCEPT ![k] = {Canonical[k]}]
    /\ UNCHANGED pinned

Pin(k) ==
    /\ pinned[k] = Unset
    /\ Canonical[k] \in stored[k]
    /\ pinned' = [pinned EXCEPT ![k] = Canonical[k]]
    /\ UNCHANGED stored

Withdraw(p) ==
    /\ stored' = [k \in Installable |-> IF k[1] = p THEN {} ELSE stored[k]]
    /\ pinned' = [k \in Installable |-> IF k[1] = p THEN Unset ELSE pinned[k]]

PinNext ==
    \/ \E k \in Installable : Store(k) \/ Pin(k)
    \/ \E p \in PackNames : Withdraw(p)

PinSpec == PinInit /\ [][PinNext]_<<stored, pinned>>
=============================================================================
