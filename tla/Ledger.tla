------------------------------- MODULE Ledger -------------------------------
(***************************************************************************)
(* What the node promises about its chain, without databases, processes or *)
(* crashes: a list of versions of the world state to which a version is    *)
(* only ever added.  A version is the history of what was applied; each    *)
(* one extends the version of its parent block, and no signed transaction  *)
(* occurs twice in it, however often and wherever it is submitted.         *)
(***************************************************************************)
EXTENDS Integers, Sequences

CONSTANTS Canonical,  \* signed transactions, to be applied at most once
          Genesis     \* the entry that creates the state

VARIABLE versions     \* versions[i]: the state after the block of height i - 1

NoReplay(s) == \A i, j \in DOMAIN s : (s[i] = s[j] /\ s[i] \in Canonical) => i = j

Extends(t, s) == Len(s) <= Len(t) /\ SubSeq(t, 1, Len(s)) = s

Init == versions = <<>>

Create == versions = <<>> /\ versions' = <<<<Genesis>>>>

AddVersion ==
    /\ versions # <<>>
    /\ Len(versions') = Len(versions) + 1
    /\ Extends(versions', versions)
    /\ Extends(versions'[Len(versions')], versions[Len(versions)])
    /\ NoReplay(versions'[Len(versions')])

Next == Create \/ AddVersion

Spec == Init /\ [][Next]_versions
=============================================================================
