------------------------------ MODULE MCWalReader ------------------------------
(* Transactions over two documents: rows inserted, moved and deleted, a       *)
(* document deleted with its comments, changes that invalidate nothing, and   *)
(* in Altered an ALTER TABLE between two rows of one transaction.             *)
EXTENDS WalPayloads

CONSTANTS doc1, doc2

MCDocumentId == {doc1, doc2}

Before == <<"id", "document_id", "text">>
After == <<"id", "document_id", "text", "author">>

Comment(op, columns, old, new) ==
  [table |-> "comments", op |-> op, columns |-> columns, old |-> old, new |-> new]
Document(op, old, new) ==
  [table |-> "documents", op |-> op, columns |-> <<"id">>, old |-> old, new |-> new]

Move == <<Comment("update", Before, doc1, doc2)>>
InsertTwo == <<Comment("insert", Before, Null, doc1), Comment("insert", Before, Null, doc1)>>
NewDocument == <<Document("insert", Null, doc2)>>
Replace == <<Comment("delete", Before, doc1, Null), Document("delete", doc1, Null),
             Document("insert", Null, doc1)>>
Truncate == <<Comment("insert", Before, Null, doc2), Comment("truncate", Before, Null, Null),
              Document("update", doc2, doc2)>>
InsertAltered == <<Comment("insert", After, Null, doc2)>>
Altered == <<Comment("insert", Before, Null, doc1), Comment("insert", After, Null, doc1)>>

\* names and texts as bytes; OtherText is the empty text
MCCode ==
  [name \in {"public", "comments", "documents", "id", "document_id", "text", "author",
             doc1, doc2, OtherText} |->
     CASE name = "public" -> <<112>>
       [] name = "comments" -> <<99, 111>>
       [] name = "documents" -> <<100, 111>>
       [] name = "id" -> <<105>>
       [] name = "document_id" -> <<100, 105>>
       [] name = "text" -> <<116>>
       [] name = "author" -> <<97>>
       [] name = doc1 -> <<49>>
       [] name = doc2 -> <<50, 110>>
       [] name = OtherText -> <<>>]
MCOid == [table \in {"comments", "documents"} |->
            IF table = "comments" THEN <<0, 0, 64, 0>> ELSE <<0, 0, 64, 78>>]

RowsAndSchema == {Move, InsertTwo, Replace, Truncate, InsertAltered}
MidTransaction == {Altered, NewDocument}
================================================================================
