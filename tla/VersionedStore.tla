---------------------------- MODULE VersionedStore ----------------------------
(* What the state of the chain promises to whoever reads it: one current       *)
(* content that transactions replace, and the contents published with the      *)
(* blocks, of which no one is ever changed or lost. How contents are kept, as  *)
(* nodes of a Merkle trie in a database, is left to the module Tries.          *)
EXTENDS Naturals, Sequences

CONSTANT Contents      \* the contents a store can have

VARIABLES
  current,             \* the content the next transaction starts from
  versions             \* the contents published so far, by height

storeVars == <<current, versions>>

StoreInit == current \in Contents /\ versions = <<>>

\* A transaction replaces the current content and no version.
Write == current' \in Contents /\ UNCHANGED versions

\* A block publishes the current content as the next version.
Publish == versions' = Append(versions, current) /\ UNCHANGED current

StoreSpec == StoreInit /\ [][Write \/ Publish]_storeVars
=============================================================================
