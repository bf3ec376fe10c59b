------------------------- MODULE PublicationHistory -------------------------
(***************************************************************************)
(* What Gold promises its readers (docs/architecture/publications.md):      *)
(* there is a current publication and a previous one to undo to, both can   *)
(* be read, what can be read never changes, and a restore returns to a      *)
(* history some backup set kept.                                            *)
(***************************************************************************)
EXTENDS Integers

CONSTANTS
  Ids,       \* publication ids
  Contents,  \* what a publication may hold
  None

VARIABLES
  current,   \* the publication consumers read, or None
  previous,  \* the publication undo returns to, or None
  content,   \* what each publication that can be read holds
  saved      \* the histories the backup sets keep

vars == <<current, previous, content, saved>>

Readable == DOMAIN content

History == [current |-> current, previous |-> previous, content |-> content]

Init ==
  /\ current = None
  /\ previous = None
  /\ content = [i \in {} |-> None]
  /\ saved = {}

\* A build is published under an id no publication that can be read has.
Build(i, c) ==
  /\ i \notin Readable
  /\ current' = i
  /\ previous' = current
  /\ content' = [j \in Readable \cup {i} |-> IF j = i THEN c ELSE content[j]]
  /\ UNCHANGED saved

Undo ==
  /\ previous # None
  /\ current' = previous
  /\ previous' = current
  /\ UNCHANGED <<content, saved>>

\* Results are deleted, but never the current or the previous one.
Forget ==
  /\ \E kept \in SUBSET Readable :
       /\ {current, previous} \ {None} \subseteq kept
       /\ content' = [i \in kept |-> content[i]]
  /\ UNCHANGED <<current, previous, saved>>

Save ==
  /\ saved' = saved \cup {History}
  /\ UNCHANGED <<current, previous, content>>

\* The store is gone, and with it every publication.
Lose ==
  /\ current' = None
  /\ previous' = None
  /\ content' = [i \in {} |-> None]
  /\ UNCHANGED saved

Restore(h) ==
  /\ h \in saved
  /\ current' = h.current
  /\ previous' = h.previous
  /\ content' = h.content
  /\ UNCHANGED saved

Next ==
  \/ Undo \/ Forget \/ Save \/ Lose
  \/ \E h \in saved : Restore(h)
  \/ \E i \in Ids, c \in Contents : Build(i, c)

Spec == Init /\ [][Next]_vars
=============================================================================
