------------------------------ MODULE SharedText ------------------------------
(***************************************************************************)
(* The text of one shared file, as far as its edits go: which of the       *)
(* members' and agents' edits a text holds, and how often.  An edit puts a *)
(* line of its own into the text, or is another version of one line that   *)
(* every text has (CommonLine).  A Yjs document is the set of its items,   *)
(* those inserted and those deleted; documents are joined by union.        *)
(*                                                                         *)
(* Left out: characters, positions and the diff (text-diff.ts), the order  *)
(* of items, and Yjs' wait for an author's earlier items.                  *)
(***************************************************************************)
EXTENDS Naturals, FiniteSets

CONSTANTS
    Pieces,       \* the edits members type and agents write
    CommonLine    \* those that are versions of the common line

ASSUME TextConstants == CommonLine \subseteq Pieces

\* One edit may have several items: each time a text that lacks it gets it back
\* is another.
Items == Pieces \X (Nat \ {0})
Texts == [Pieces -> Nat]
Docs == [ins : SUBSET Items, del : SUBSET Items]

NoText == [p \in Pieces |-> 0]
NoDoc == [ins |-> {}, del |-> {}]

Copies(doc, p) == {i \in doc.ins \ doc.del : i[1] = p}
TextOf(doc) == [p \in Pieces |-> Cardinality(Copies(doc, p))]

Joined(doc, delta) == [ins |-> doc.ins \cup delta.ins, del |-> doc.del \cup delta.del]

\* What `doc` has and a document with the items of `known` lacks; Yjs sends
\* every deletion along.
Missing(doc, known) == [ins |-> doc.ins \ known.ins, del |-> doc.del]

\* Another version of the common line takes the place of the one there is.
ReplacedBy(p) == IF p \in CommonLine THEN CommonLine \ {p} ELSE {}

\* A member types `p`; `item` is new.
Typed(doc, p, item) ==
    [ins |-> doc.ins \cup {item},
     del |-> doc.del \cup UNION {Copies(doc, q) : q \in ReplacedBy(p)}]

\* An agent or a terminal writes `p` into the file.
Written(text, p) ==
    [q \in Pieces |-> IF q = p THEN 1 ELSE IF q \in ReplacedBy(p) THEN 0 ELSE text[q]]

Changed(base, text) == {p \in Pieces : base[p] # text[p]}

\* Two changes of one text touch the same lines: the common line, or a line
\* that was there and that both took away.  Insertions never collide.
Collide(base, ours, theirs) ==
    LET both == Changed(base, ours) \cap Changed(base, theirs)
    IN  \/ \E p \in both : base[p] > 0
        \/ /\ CommonLine \cap Changed(base, ours) # {}
           /\ CommonLine \cap Changed(base, theirs) # {}

\* The change from one text to another, made to a document: `made` counts the
\* items each edit has had, so that what is inserted is new.
Gained(from, to, p) == IF to[p] > from[p] THEN to[p] - from[p] ELSE 0

Brought(doc, from, to, made) ==
    [ins |-> doc.ins \cup UNION {{p} \X (made[p] + 1 .. made[p] + Gained(from, to, p)) : p \in Pieces},
     del |-> doc.del \cup UNION {CHOOSE s \in SUBSET Copies(doc, p) : Cardinality(s) = Gained(to, from, p) :
                                   p \in {q \in Pieces : to[q] < from[q]}}]

MadeBy(from, to, made) == [p \in Pieces |-> made[p] + Gained(from, to, p)]

\* The document's text becomes `text` (replaceDocumentContents).
ReplaceContents(doc, text, made) == Brought(doc, TextOf(doc), text, made)
=============================================================================
