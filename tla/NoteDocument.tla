----------------------------- MODULE NoteDocument -----------------------------
(***************************************************************************)
(* The note document, the operations on it and the two implementations of  *)
(* "apply an operation": the Go server's (document.go) and the Dart        *)
(* client's (note_blocks.dart).                                            *)
(*                                                                         *)
(* A document is a sequence of blocks.  The text of a block is a sequence  *)
(* of letters, and the letter an insertion adds is the identifier of the   *)
(* operation that added it, so every letter can be traced to one edit.     *)
(* A Quill delta is reduced to the one change it makes: insert a letter at *)
(* a position, remove the letter at a position, or nothing.  Positions     *)
(* count from 0.  Values the sync protocol only carries (block type) are   *)
(* the identifier of the operation that wrote them.                        *)
(***************************************************************************)
EXTENDS Naturals, Sequences, SequencesExt

CONSTANTS
    Blocks,     \* block identifiers
    NoAnchor    \* the absent afterBlockId: "before every block"

InsertAfter(p) == [edit |-> "insert", at |-> p]
RemoveFrom(p) == [edit |-> "remove", at |-> p]
Keep      == [edit |-> "keep", at |-> 0]

\* One operation, as the client writes it to its outbox and as it travels:
\*   [id, kind : {"text_delta", "create_block", "delete_block", "move_block",
\*                "set_block_type"}, block, delta, after]

Block(b, text, type) == [id |-> b, text |-> text, type |-> type]

BlockIds(doc) == {doc[i].id : i \in DOMAIN doc}

PositionOf(doc, b) == CHOOSE i \in DOMAIN doc : doc[i].id = b

TextOf(doc, b) == doc[PositionOf(doc, b)].text

WithBlock(doc, b, block) == [doc EXCEPT ![PositionOf(doc, b)] = block]

WithoutBlock(doc, b) == RemoveAt(doc, PositionOf(doc, b))

\* doc with block right after the block `after`, or first when after = NoAnchor.
PlacedAfter(doc, block, after) ==
    IF after = NoAnchor THEN <<block>> \o doc
    ELSE InsertAt(doc, PositionOf(doc, after) + 1, block)

\* The letters of text after the change d, for a change that fits.
Compose(text, d, letter) ==
    CASE d.edit = "insert" -> InsertAt(text, d.at + 1, letter)
      [] d.edit = "remove" -> RemoveAt(text, d.at + 1)
      [] OTHER -> text

Fits(text, d) ==
    \/ d.edit = "insert" /\ d.at <= Len(text)
    \/ d.edit = "remove" /\ d.at < Len(text)
    \/ d.edit = "keep"

-------------------------------------------------------------------------------
(* The server: an operation that does not fit is an error (the caller      *)
(* rejects the whole batch), except that text changes past the end are     *)
(* clipped, because normalizeDocumentDelta drops what is not an insert.    *)

ServerAccepts(doc, op) ==
    CASE op.kind = "create_block" ->
            op.block \in BlockIds(doc) \/ op.after \in BlockIds(doc) \cup {NoAnchor}
      [] op.kind = "move_block" ->
            /\ op.block \in BlockIds(doc)
            /\ op.after # op.block
            /\ op.after \in BlockIds(doc) \cup {NoAnchor}
      [] OTHER -> op.block \in BlockIds(doc)

\* normalizeDocumentDelta after Compose.
ServerCompose(text, d, letter) ==
    IF Fits(text, d) THEN Compose(text, d, letter)
    ELSE IF d.edit = "insert" THEN Append(text, letter) ELSE text

ServerTextDelta(doc, op) ==
    LET old == doc[PositionOf(doc, op.block)] IN
    WithBlock(doc, op.block,
        [old EXCEPT !.text = ServerCompose(old.text, op.delta, op.id)])

ServerCreateBlock(doc, op) ==
    IF op.block \in BlockIds(doc) THEN doc
    ELSE PlacedAfter(doc, Block(op.block, <<>>, op.id), op.after)

ServerDeleteBlock(doc, op) == WithoutBlock(doc, op.block)

ServerMoveBlock(doc, op) ==
    PlacedAfter(WithoutBlock(doc, op.block), doc[PositionOf(doc, op.block)], op.after)

SetBlockType(doc, op) ==
    LET old == doc[PositionOf(doc, op.block)] IN
    WithBlock(doc, op.block, [old EXCEPT !.type = op.id])

ServerApply(doc, op) ==
    CASE op.kind = "text_delta"     -> ServerTextDelta(doc, op)
      [] op.kind = "create_block"   -> ServerCreateBlock(doc, op)
      [] op.kind = "delete_block"   -> ServerDeleteBlock(doc, op)
      [] op.kind = "move_block"     -> ServerMoveBlock(doc, op)
      [] op.kind = "set_block_type" -> SetBlockType(doc, op)

-------------------------------------------------------------------------------
(* The client: what does not fit is ignored, a missing anchor means "at    *)
(* the end", and the last block is never deleted.                          *)

ClientPlaced(doc, block, after) ==
    IF after \in BlockIds(doc) \cup {NoAnchor} THEN PlacedAfter(doc, block, after)
    ELSE Append(doc, block)

Present(doc, op) == op.block \in BlockIds(doc)

ClientTextDelta(doc, op) ==
    LET old == doc[PositionOf(doc, op.block)] IN
    IF Present(doc, op) /\ Fits(old.text, op.delta)
    THEN WithBlock(doc, op.block,
            [old EXCEPT !.text = Compose(old.text, op.delta, op.id)])
    ELSE doc

ClientCreateBlock(doc, op) ==
    IF Present(doc, op) THEN doc
    ELSE ClientPlaced(doc, Block(op.block, <<>>, op.id), op.after)

ClientDeleteBlock(doc, op) ==
    IF Present(doc, op) /\ Len(doc) > 1 THEN WithoutBlock(doc, op.block) ELSE doc

ClientMoveBlock(doc, op) ==
    IF Present(doc, op) /\ Len(doc) > 1 /\ op.after # op.block
    THEN ClientPlaced(WithoutBlock(doc, op.block), doc[PositionOf(doc, op.block)], op.after)
    ELSE doc

ClientSetBlockType(doc, op) ==
    IF Present(doc, op) THEN SetBlockType(doc, op) ELSE doc

ClientApply(doc, op) ==
    CASE op.kind = "text_delta"     -> ClientTextDelta(doc, op)
      [] op.kind = "create_block"   -> ClientCreateBlock(doc, op)
      [] op.kind = "delete_block"   -> ClientDeleteBlock(doc, op)
      [] op.kind = "move_block"     -> ClientMoveBlock(doc, op)
      [] op.kind = "set_block_type" -> ClientSetBlockType(doc, op)

\* The effective local document: the snapshot plus the unacknowledged
\* operations, in order.
Project(doc, ops) == FoldLeft(ClientApply, doc, ops)

\* What the user can do in an editor showing doc.  diffNoteBlocks turns a
\* change into operations that fit what is shown and that change it.
TextEdits(doc, b, actions) ==
    LET n == Len(TextOf(doc, b)) IN
        {InsertAfter(p) : p \in IF "insert" \in actions THEN 0..n ELSE {}}
        \cup {RemoveFrom(p - 1) : p \in IF "remove" \in actions THEN 1..n ELSE {}}

LocalEdits(doc, id, actions) ==
    LET here == BlockIds(doc)
        op(kind, b, d, after) ==
            [id |-> id, kind |-> kind, block |-> b, delta |-> d, after |-> after]
        anchors == here \cup {NoAnchor}
        candidates ==
            (UNION {{op("text_delta", b, d, NoAnchor) : d \in TextEdits(doc, b, actions)} :
                        b \in here})
            \cup {op("create_block", b, Keep, a) : b \in Blocks \ here, a \in anchors}
            \cup {op("move_block", b, Keep, a) : b \in here, a \in anchors}
            \cup {op("delete_block", b, Keep, NoAnchor) : b \in here}
            \cup {op("set_block_type", b, Keep, NoAnchor) : b \in here}
    IN  {o \in candidates : /\ o.kind \in actions \cup {"text_delta"}
                            /\ ClientApply(doc, o) # doc}
=============================================================================
