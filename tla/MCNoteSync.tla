------------------------------ MODULE MCNoteSync ------------------------------
(* NoteSync on small instances, with the properties about single letters   *)
(* that stay with TLC.                                                     *)
EXTENDS NoteSyncInvariant

CONSTANTS b1, b2, b3

OneBlock == <<Block(b1, <<0>>, 0)>>
EmptyBlock == <<Block(b1, <<>>, 0)>>
ThreeBlocks == <<Block(b1, <<>>, 0), Block(b2, <<>>, 0), Block(b3, <<>>, 0)>>
TwoBlocks == <<Block(b1, <<>>, 0), Block(b2, <<>>, 0)>>

\* Identifiers are drawn in one order: which of two operations of one client
\* has the lower one decides ties between letters only.
IdentifiersInOrder == used = 1..Cardinality(used)

\* x stands before y in the text of one block of doc.
Precedes(doc, x, y) == \E i \in DOMAIN doc : \E j, k \in DOMAIN doc[i].text :
    j < k /\ doc[i].text[j] = x /\ doc[i].text[k] = y

\* No two replicas disagree on the order of two letters: what an editor
\* shows left to right is left to right in the note.
LettersKeepTheirOrder == \A c \in Clients : \A x, y \in OpIds \cup {0} :
    ~(Precedes(mirror[c].doc, x, y) /\ Precedes(note.doc, y, x))

\* Making edits durable does not move them: the outbox, projected, keeps the
\* letters in the order the user saw when the batch was flushed.
FlushKeepsTheOrder == [][\A c \in Clients :
    Flush(c) => \A x, y \in OpIds \cup {0} :
        ~(/\ Precedes(mirror[c].doc, x, y)
          /\ Precedes(Project(confirmed[c].doc, InOrder(outbox'[c])), y, x))]_vars

\* The server takes what an outbox holds: no sync is ever answered with an
\* error that every retry meets again.
NothingIsRefused == [][\A c \in Clients :
    call'[c].phase = "failed" => call[c].phase = "failed"]_vars
=============================================================================
