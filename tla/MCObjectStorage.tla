-------------------------- MODULE MCObjectStorage --------------------------
(* An instance of ObjectStorage for TLC.  The paths, in byte order.        *)
EXTENDS ObjectStorage, SequencesExt

CONSTANTS c1

InOrder == <<"a", "a/%257E", "a/%7E", "a/1", "a/2", "a/~", "b", "../b">>

AllTexts == ToSet(InOrder)
Place == [t \in AllTexts |-> CHOOSE i \in DOMAIN InOrder : InOrder[i] = t]

\* "~" and "%" are encoded.
Encoded ==
  [t \in AllTexts |-> CASE t = "a/~" -> "a/%7E" [] t = "a/%7E" -> "a/%257E" [] OTHER -> t]

InvalidTexts == {"../b"}
ObjectNames == {"a/1", "a/2", "a/~", "b", "../b"}

Contents ==
  [p \in AllTexts \union {Root} |->
     CASE p = Root -> AllTexts
       [] p = "a"  -> {"a/%257E", "a/%7E", "a/1", "a/2", "a/~"}
       [] OTHER    -> {}]

\* A limit of 3 is the largest usize.
SomeWalks == [c \in {c1} |-> [prefix : {"a", Root, "../b"}, limit : 0..3]]
=============================================================================
